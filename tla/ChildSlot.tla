----------------------------- MODULE ChildSlot -----------------------------
(***************************************************************************)
(* One incarnation of a supervised child and everyone who acts on its      *)
(* slot: the supervisor, which writes orders and cancels into the command  *)
(* cell; the executor that owns the incarnation (a restart attempt from    *)
(* its wait for the predecessor to the hand-over, then the runner) and     *)
(* runs its stop ladder; the link guard and the reaper that take over when *)
(* the executor is dropped; the task that follows a lost executor's        *)
(* incarnation; and a handler that waits on the cell. The child's own task *)
(* is reduced to what those see of it (ActorRun has the rest). Deadlines   *)
(* are untimed: one that is armed may pass at any moment.                  *)
(***************************************************************************)
EXTENDS StopReasons

CONSTANT OutsideReasons \* what holders of the child's handle raise

ASSUME ChildSlotAssumption == OutsideReasons \subseteq Reasons

VARIABLES spec,     \* ChildSpec: shutdown, supervisor
          cmd,      \* SlotCommand: order (none, raised, unraised) and cancel
          sup,      \* the supervisor: idle, inside order_stop, or gone
          cell,     \* SlotCell: fate, unresponsive, cancelled, published
          verdict,  \* the incarnation's VerdictFlag
          predGone, \* the previous incarnation's subtree ended
          ex,       \* where the executor is
          run,      \* its locals: step, ordered, acked, timer, timeoutRaised
          outcome,  \* what it, or its follower, reported; an adoption takes its report
          guard,    \* the ChildLinkGuard
          reaper,   \* the guard's ReaperEntry: its pending stage
          backstop, \* the ReaperEntry of a holder's Kill, from the raise to its end
          follower, \* LostEnd::wait, the task that replaces a lost executor
          waiter,   \* await_cell in a handler of the supervisor
          task,     \* the incarnation's task
          ack,      \* its init acknowledgment
          lane,     \* the reason stored on its stop lane
          plane,    \* the reason in its status plane
          owed,     \* its AbortRecord: first abort, owed mark, ended
          aborted,  \* an abort was issued against the task
          early     \* history: a command was written before the last check

slotVars == <<cmd, sup, cell, verdict>>
childVars == <<task, ack, lane, plane, owed, aborted>>
forceVars == <<guard, reaper, backstop, follower>>
vars == <<spec, slotVars, predGone, ex, run, outcome, forceVars, waiter, childVars, early>>

Steps == {"Idle", "Graceful", "KillGrace", "AbortGrace", "Spent"}
Outcomes == {"none", "Cancelled", "PredecessorUnresponsive", "Failed", "StartTimeout",
             "Stopped", "Adopted", "Death"}
BeforeFactory == {"await_predecessor", "cancel_check"}
Owning == {"init", "ack_read", "runner"}

TypeOK ==
    /\ spec \in [shutdown: {"Kill", "Timeout", "Infinity"}, supervisor: BOOLEAN]
    /\ cmd \in [order: {"none", "raised", "unraised"}, cancel: BOOLEAN]
    /\ sup \in {"idle", "raised", "unraised", "gone"}
    /\ cell \in [fate: Reasons \cup {None}, unresponsive: BOOLEAN, cancelled: BOOLEAN,
                 published: BOOLEAN]
    /\ verdict \in BOOLEAN /\ predGone \in BOOLEAN
    /\ ex \in BeforeFactory \cup Owning \cup {"factory", "transit", "lost", "gone"}
    /\ run \in [step: Steps, ordered: BOOLEAN, acked: BOOLEAN, timer: BOOLEAN,
                timeoutRaised: BOOLEAN]
    /\ outcome \in Outcomes
    /\ guard \in {"none", "armed", "disarmed", "fired"}
    /\ reaper \in {"none", "kill", "abort", "done", "dropped"}
    /\ backstop \in {"none", "raised", "armed", "done"}
    /\ follower \in {"none", "waiting", "flagged", "done"}
    /\ waiter \in {"none", "waiting"}
    /\ task \in {"unborn", "init", "up", "sealed", "ended"}
    /\ ack \in {"waiting", "ok", "err", "read"}
    /\ lane \in Reasons \cup {None}
    /\ plane \in Reasons \cup {None}
    /\ owed \in [at: BOOLEAN, mark: BOOLEAN, ended: BOOLEAN]
    /\ aborted \in BOOLEAN /\ early \in BOOLEAN
    /\ (task = "unborn") = ~cell.published /\ (guard = "none") = ~cell.published

FreshRun == [step |-> "Idle", ordered |-> FALSE, acked |-> FALSE, timer |-> FALSE,
             timeoutRaised |-> FALSE]

(* SupervisionState::initiate spawns a restart attempt on an empty slot;   *)
(* spawn_child_internal publishes, arms the guard and spawns the runner    *)
(* of an incarnation nobody awaits the ack of.                             *)
Init ==
    /\ spec \in [shutdown: {"Kill", "Timeout", "Infinity"}, supervisor: BOOLEAN]
    /\ cmd = [order |-> "none", cancel |-> FALSE]
    /\ sup = "idle" /\ verdict = FALSE
    /\ run = FreshRun /\ outcome = "none"
    /\ reaper = "none" /\ backstop = "none" /\ follower = "none" /\ waiter = "none"
    /\ lane = None /\ plane = None /\ aborted = FALSE /\ early = FALSE
    /\ owed = [at |-> FALSE, mark |-> FALSE, ended |-> FALSE]
    /\ \E restart \in BOOLEAN :
        /\ ex = IF restart THEN "await_predecessor" ELSE "runner"
        /\ predGone = ~restart
        /\ task = IF restart THEN "unborn" ELSE "init"
        /\ ack = IF restart THEN "waiting" ELSE "read"
        /\ guard = IF restart THEN "none" ELSE "armed"
        /\ cell = [fate |-> None, unresponsive |-> FALSE, cancelled |-> FALSE,
                   published |-> ~restart]

killStored == lane = "Kill"
finished == task = "ended"

(* The lane as a raise meets it: a task past its seal refuses, and an      *)
(* aborted one, whose receiver dropped, refuses the same way.              *)
LaneState == [FreshLane EXCEPT !.reason = lane, !.sealed = task \in {"sealed", "ended"}]

Raised(r) == RaisedLane(LaneState, r, FALSE).reason
closed == ex \in {"lost", "gone"}

-----------------------------------------------------------------------------
(* The abort record.                                                       *)

(* AbortRecord::release: the mark goes, and none is taken again.           *)
Released == [owed EXCEPT !.mark = FALSE, !.ended = TRUE]

(* AbortRecord::owe.                                                       *)
Owe == IF owed.ended \/ owed.mark \/ owed.at THEN owed ELSE [owed EXCEPT !.mark = TRUE]

(* AbortRecord::owe_for.                                                   *)
OweFor == IF finished THEN Released ELSE Owe

(* Mutant: nothing at all is done to a finished task.                      *)
AbortTaskKeepsMark ==
    /\ owed' = IF finished THEN owed ELSE [owed EXCEPT !.at = TRUE, !.mark = FALSE]
    /\ aborted' = (aborted \/ ~finished)

(* AbortRecord::abort and record: the first abort is recorded and takes    *)
(* the mark; a finished task gets neither.                                 *)
AbortTask ==
    /\ owed' = IF finished THEN Released ELSE [owed EXCEPT !.at = TRUE, !.mark = FALSE]
    /\ aborted' = (aborted \/ ~finished)

(* raise_owing: a Kill the lane records is owed its abort.                 *)
RaiseOwing(r) ==
    /\ lane' = Raised(r)
    /\ owed' = IF r = "Kill" /\ AnswerTo(LaneState, r, FALSE) = "Recorded" THEN OweFor ELSE owed

(* Mutant: the abort is owed, and nothing raised.                          *)
OweKillGraceUnraised == owed' = OweFor /\ UNCHANGED lane

(* owe_kill_grace: the abort is owed whether or not the raise is needed.   *)
OweKillGrace ==
    IF killStored THEN owed' = OweFor /\ UNCHANGED lane ELSE RaiseOwing("Kill")

-----------------------------------------------------------------------------
(* The supervisor.                                                         *)

FirstSignal == IF spec.shutdown = "Kill" THEN "Kill" ELSE "ParentRequest"

(* order_stop, first half: the first signal is raised when a lane is       *)
(* published and the caller asks for it. The order follows in a step of    *)
(* its own: the incarnation runs on other threads.                         *)
OrderRaise(raise) ==
    /\ sup = "idle" /\ cmd.order = "none"
    /\ IF raise /\ cell.published
       THEN sup' = "raised" /\ lane' = Raised(FirstSignal)
       ELSE sup' = "unraised" /\ UNCHANGED lane
    /\ UNCHANGED <<spec, cmd, cell, verdict, predGone, ex, run, outcome, forceVars, waiter,
                   task, ack, plane, owed, aborted, early>>

(* write_order.                                                            *)
OrderWrite ==
    /\ sup \in {"raised", "unraised"}
    /\ cmd' = [cmd EXCEPT !.order = sup]
    /\ sup' = "idle"
    /\ early' = (early \/ ex \in BeforeFactory)
    /\ UNCHANGED <<spec, cell, verdict, predGone, ex, run, outcome, forceVars, waiter,
                   childVars>>

(* cancel_unspawned: a group's commit, at any stage of an attempt. Only    *)
(* the waits and the check before the factory read the flag                *)
(* (cancel_or_order), so it is kept until the incarnation is built.        *)
CancelUnspawned ==
    /\ sup = "idle" /\ ~cmd.cancel /\ ex \notin {"runner", "lost", "gone"}
    /\ cmd' = [cmd EXCEPT !.cancel = task = "unborn"]
    /\ early' = (early \/ ex \in BeforeFactory)
    /\ UNCHANGED <<spec, sup, cell, verdict, predGone, ex, run, outcome, forceVars, waiter,
                   childVars>>

(* What dropping the executor, or the outcome that carries its guard, does *)
(* to the incarnation: the child's inherited stop.                         *)
FireGuard ==
    IF guard # "armed" THEN UNCHANGED <<guard, reaper, lane, owed>>
    ELSE LET first == IF spec.supervisor THEN Raised("ParentKilled") ELSE lane
             kills == ~spec.supervisor \/ first = "Kill"
         IN  /\ guard' = "fired"
             /\ lane' = IF kills THEN Raised("Kill") ELSE first
             /\ reaper' = IF kills THEN "abort"
                          ELSE IF spec.shutdown = "Infinity" THEN "none" ELSE "kill"
             /\ owed' = IF kills \/ spec.shutdown # "Infinity" THEN OweFor ELSE owed

(* The adoption takes the outcome and spawns the runner; an outcome the    *)
(* ledger has moved past is dropped with its guard.                        *)
Adopt(accepted) ==
    /\ sup = "idle" /\ waiter # "waiting" /\ ex = "transit"
    /\ IF accepted
       THEN ex' = "runner" /\ outcome' = "none" /\ UNCHANGED <<guard, reaper, lane, owed>>
       ELSE ex' = "gone" /\ FireGuard /\ UNCHANGED outcome
    /\ UNCHANGED <<spec, slotVars, predGone, run, backstop, follower, waiter, task, ack, plane,
                   aborted, early>>

(* Mutant: a failed executor's task is only forgotten.                     *)
FollowLostForgets ==
    /\ sup = "idle" /\ waiter # "waiting" /\ ex = "lost"
    /\ ex' = "gone"
    /\ UNCHANGED <<spec, slotVars, predGone, run, outcome, forceVars, waiter, childVars, early>>

(* lost_death_task and lost_restart_task: an incarnation that exists is    *)
(* followed to its end, an attempt that built none has failed.             *)
FollowLost ==
    /\ sup = "idle" /\ waiter # "waiting" /\ ex = "lost"
    /\ ex' = "gone"
    /\ IF cell.published THEN follower' = "waiting" /\ UNCHANGED outcome
                         ELSE outcome' = "Failed" /\ UNCHANGED follower
    /\ UNCHANGED <<spec, slotVars, predGone, run, guard, reaper, backstop, waiter, childVars,
                   early>>

(* The supervisor's task ends with its state: the command sender drops,    *)
(* and the executor is cancelled (ExecutorLost). An outcome nobody         *)
(* adopted drops with its guard.                                           *)
SupervisorGone ==
    /\ sup = "idle"
    /\ sup' = "gone"
    /\ IF ex = "transit" THEN ex' = "gone" /\ FireGuard
                         ELSE UNCHANGED <<ex, guard, reaper, lane, owed>>
    /\ waiter' = "none"
    /\ UNCHANGED <<spec, cmd, cell, verdict, predGone, run, outcome, backstop, follower, task,
                   ack, plane, aborted, early>>

-----------------------------------------------------------------------------
(* The executor.                                                           *)

commanded == cmd.order # "none" \/ cmd.cancel

(* An executor returns before any incarnation exists.                      *)
EndsUnspawned(report, cancels) ==
    /\ ex' = "gone"
    /\ outcome' = report
    /\ cell' = [cell EXCEPT !.cancelled = @ \/ cancels]

(* One wake-up of await_predecessor. `expired` is the subtree's bound.     *)
AwaitPredecessor(expired) ==
    /\ ex = "await_predecessor"
    /\ \/ commanded /\ EndsUnspawned("Cancelled", TRUE)
       \/ ~commanded /\ predGone /\ ex' = "cancel_check" /\ UNCHANGED <<outcome, cell>>
       \/ ~commanded /\ ~predGone /\ expired /\ EndsUnspawned("PredecessorUnresponsive", FALSE)
    /\ UNCHANGED <<spec, cmd, sup, verdict, predGone, run, forceVars, waiter, childVars, early>>

(* Mutant: the check reads the order and not the group's cancel.           *)
CancelledBeforeFactoryByOrder ==
    /\ ex = "cancel_check"
    /\ IF cmd.order # "none" THEN EndsUnspawned("Cancelled", TRUE)
                             ELSE ex' = "factory" /\ UNCHANGED <<outcome, cell>>
    /\ UNCHANGED <<spec, cmd, sup, verdict, predGone, run, forceVars, waiter, childVars, early>>

CancelledBeforeFactory ==
    /\ ex = "cancel_check"
    /\ IF commanded THEN EndsUnspawned("Cancelled", TRUE)
                    ELSE ex' = "factory" /\ UNCHANGED <<outcome, cell>>
    /\ UNCHANGED <<spec, cmd, sup, verdict, predGone, run, forceVars, waiter, childVars, early>>

(* Mutant: the incarnation is not published.                               *)
BuildUnpublished(result, timed) ==
    /\ ex = "factory" /\ result = "spawned"
    /\ ex' = "init"
    /\ run' = [FreshRun EXCEPT !.timer = timed]
    /\ guard' = "armed"
    /\ task' = "init"
    /\ UNCHANGED <<spec, slotVars, predGone, outcome, reaper, backstop, follower, waiter, ack,
                   lane, plane, owed, aborted, early>>

(* build_for_attempt and the spawn: the spec may be gone (a cancel), the   *)
(* factory or the spawn may fail, or the incarnation is spawned, its lane  *)
(* and plane published and its guard armed, and run_attempt begins (with   *)
(* a start timer where the spec sets one).                                 *)
Build(result, timed) ==
    /\ ex = "factory"
    /\ \/ result = "removed" /\ EndsUnspawned("Cancelled", TRUE)
          /\ UNCHANGED <<cmd, run, guard, task>>
       \/ result = "failed" /\ EndsUnspawned("Failed", FALSE)
          /\ UNCHANGED <<cmd, run, guard, task>>
       \/ /\ result = "spawned"
          /\ ex' = "init"
          /\ run' = [FreshRun EXCEPT !.timer = timed]
          /\ cmd' = [cmd EXCEPT !.cancel = FALSE]
          /\ cell' = [cell EXCEPT !.published = TRUE]
          /\ guard' = "armed"
          /\ task' = "init"
          /\ UNCHANGED outcome
    /\ UNCHANGED <<spec, sup, verdict, predGone, reaper, backstop, follower, waiter, ack,
                   lane, plane, owed, aborted, early>>

(* ladder_step on an order: it starts an idle ladder and is otherwise only *)
(* noted.                                                                  *)
StartLadder(acked) ==
    IF run.step # "Idle"
    THEN run' = [run EXCEPT !.ordered = TRUE, !.acked = acked] /\ UNCHANGED <<lane, owed>>
    ELSE /\ run' = [run EXCEPT !.ordered = TRUE, !.acked = acked,
                               !.step = IF spec.shutdown = "Kill" THEN "KillGrace"
                                        ELSE "Graceful"]
         /\ IF cmd.order = "raised" THEN UNCHANGED <<lane, owed>> ELSE RaiseOwing(FirstSignal)

(* Mutant: only the attempt reads the order.                               *)
ReadOrderInAttempt ==
    /\ ex = "init" /\ cmd.order # "none" /\ ~run.ordered
    /\ StartLadder(run.acked)
    /\ UNCHANGED <<spec, slotVars, predGone, ex, outcome, forceVars, waiter, task, ack, plane,
                   aborted, early>>

(* The command branch of run_attempt and run_ladder, and the level-        *)
(* triggered read both begin with.                                         *)
ReadOrder ==
    /\ ex \in {"init", "runner"} /\ cmd.order # "none" /\ ~run.ordered
    /\ StartLadder(run.acked)
    /\ UNCHANGED <<spec, slotVars, predGone, ex, outcome, forceVars, waiter, task, ack, plane,
                   aborted, early>>

(* The ack branch reads the command cell once more; the hand-over is       *)
(* decided next, on another read of it.                                    *)
ReadAckOk ==
    /\ ex = "init" /\ ack = "ok"
    /\ ack' = "read"
    /\ ex' = "ack_read"
    /\ IF ~run.ordered /\ cmd.order # "none" THEN StartLadder(TRUE)
       ELSE run' = [run EXCEPT !.acked = TRUE] /\ UNCHANGED <<lane, owed>>
    /\ UNCHANGED <<spec, slotVars, predGone, outcome, forceVars, waiter, task, plane, aborted,
                   early>>

(* Mutant: a ladder the start timeout began does not stop the hand-over.   *)
DecideAckUnderLadder ==
    /\ ex = "ack_read"
    /\ IF ~run.ordered /\ cmd.order = "none"
       THEN ex' = "transit" /\ outcome' = "Adopted" /\ run' = FreshRun
       ELSE ex' = "init" /\ UNCHANGED <<outcome, run>>
    /\ UNCHANGED <<spec, slotVars, predGone, forceVars, waiter, childVars, early>>

(* attempt_step on Ack: the incarnation is handed over under no order and  *)
(* with the ladder off.                                                    *)
DecideAck ==
    /\ ex = "ack_read"
    /\ IF ~run.ordered /\ cmd.order = "none" /\ run.step = "Idle"
       THEN ex' = "transit" /\ outcome' = "Adopted" /\ run' = FreshRun
       ELSE ex' = "init" /\ UNCHANGED <<outcome, run>>
    /\ UNCHANGED <<spec, slotVars, predGone, forceVars, waiter, childVars, early>>

(* The ack resolved with the init's error, or unanswered.                  *)
ReadAckErr ==
    /\ ex = "init" /\ ack = "err"
    /\ ack' = "read"
    /\ IF run.step = "Idle" THEN run' = [run EXCEPT !.step = "KillGrace"] /\ OweKillGrace
                            ELSE UNCHANGED <<run, lane, owed>>
    /\ UNCHANGED <<spec, slotVars, predGone, ex, outcome, forceVars, waiter, task, plane,
                   aborted, early>>

(* The start timer: it acts while nothing was acked and no Kill ladder     *)
(* runs.                                                                   *)
StartTimeout ==
    /\ ex = "init" /\ run.timer
    /\ IF ~run.acked /\ run.step \in {"Idle", "Graceful"}
       THEN /\ run' = [run EXCEPT !.timer = FALSE, !.step = "KillGrace",
                                  !.timeoutRaised = ~killStored]
            /\ OweKillGrace
       ELSE run' = [run EXCEPT !.timer = FALSE] /\ UNCHANGED <<lane, owed>>
    /\ UNCHANGED <<spec, slotVars, predGone, ex, outcome, forceVars, waiter, task, ack, plane,
                   aborted, early>>

(* ladder_step on a deadline: Kill, then the abort, then the verdict. An   *)
(* Infinity window has no deadline.                                        *)
Deadline ==
    /\ ex \in {"init", "runner"}
    /\ \/ /\ run.step = "Graceful" /\ spec.shutdown = "Timeout"
          /\ run' = [run EXCEPT !.step = "KillGrace"]
          /\ RaiseOwing("Kill")
          /\ UNCHANGED <<aborted, verdict, cell>>
       \/ /\ run.step = "KillGrace"
          /\ run' = [run EXCEPT !.step = "AbortGrace"]
          /\ AbortTask
          /\ UNCHANGED <<lane, verdict, cell>>
       \/ /\ run.step = "AbortGrace"
          /\ run' = [run EXCEPT !.step = "Spent"]
          /\ verdict' = TRUE
          /\ cell' = [cell EXCEPT !.unresponsive = TRUE]
          /\ UNCHANGED <<lane, owed, aborted>>
    /\ UNCHANGED <<spec, cmd, sup, predGone, ex, outcome, forceVars, waiter, task, ack, plane,
                   early>>

(* The report of an attempt whose incarnation ended, and the runner's.     *)
EndReport ==
    IF ex = "runner" THEN "Death"
    ELSE IF run.timeoutRaised THEN "StartTimeout"
    ELSE IF run.ordered \/ cmd.order # "none" THEN "Stopped" ELSE "Failed"

(* Mutant: the join keeps the owed mark.                                   *)
JoinKeepsMark ==
    /\ ex \in {"init", "runner"} /\ finished
    /\ ex' = "gone" /\ run' = FreshRun /\ ack' = "read"
    /\ outcome' = EndReport
    /\ cell' = [cell EXCEPT !.fate = plane]
    /\ guard' = "disarmed"
    /\ UNCHANGED <<spec, cmd, sup, verdict, predGone, reaper, backstop, follower, waiter, task,
                   lane, plane, owed, aborted, early>>

(* The join branch: the mark is released, the fate recorded and the guard  *)
(* disarmed. joined_reason and map_join give the reason the plane holds:   *)
(* an aborted or unwound task wrote it there while it dropped.             *)
Join ==
    /\ ex \in {"init", "runner"} /\ finished
    /\ ex' = "gone" /\ run' = FreshRun /\ ack' = "read"
    /\ outcome' = EndReport
    /\ cell' = [cell EXCEPT !.fate = plane]
    /\ guard' = "disarmed"
    /\ owed' = Released
    /\ UNCHANGED <<spec, cmd, sup, verdict, predGone, reaper, backstop, follower, waiter, task,
                   lane, plane, aborted, early>>

(* The executor's task is dropped: cancelled with the supervisor's planes, *)
(* or failed on its own. Its locals drop: the guard, the cell's sender and *)
(* the ack's receiver among them.                                          *)
ExecutorLost ==
    /\ ex \in {"await_predecessor", "init", "runner"}
    /\ ex' = "lost" /\ run' = FreshRun /\ ack' = "read"
    /\ FireGuard
    /\ UNCHANGED <<spec, slotVars, predGone, outcome, backstop, follower, waiter, task, plane,
                   aborted, early>>

-----------------------------------------------------------------------------
(* What takes over from a dropped executor.                                *)

(* Mutant: the first stage is the last.                                    *)
ReaperFiresOnce ==
    /\ reaper \in {"kill", "abort"}
    /\ reaper' = "done"
    /\ IF reaper = "kill" /\ ~finished
       THEN lane' = Raised("Kill") /\ UNCHANGED <<owed, aborted>>
       ELSE AbortTask /\ UNCHANGED lane
    /\ UNCHANGED <<spec, slotVars, predGone, ex, run, outcome, guard, backstop, follower,
                   waiter, task, ack, plane, early>>

(* ReaperEntry::fire: Kill first where a stage for it is pending and the   *)
(* task runs, then the abort.                                              *)
ReaperFires ==
    /\ reaper \in {"kill", "abort"}
    /\ IF reaper = "kill" /\ ~finished
       THEN /\ reaper' = "abort"
            /\ lane' = Raised("Kill")
            /\ UNCHANGED <<owed, aborted>>
       ELSE reaper' = "done" /\ AbortTask /\ UNCHANGED lane
    /\ UNCHANGED <<spec, slotVars, predGone, ex, run, outcome, guard, backstop, follower,
                   waiter, task, ack, plane, early>>

(* ReaperEntry::drop: the reaper's runtime shut down, or its feed closed.  *)
ReaperDropped ==
    /\ reaper \in {"kill", "abort"}
    /\ reaper' = "dropped"
    /\ AbortTask
    /\ UNCHANGED <<spec, slotVars, predGone, ex, run, outcome, guard, backstop, follower,
                   waiter, task, ack, lane, plane, early>>

(* own_budget: only a supervisor child under Infinity has no bound.        *)
bounded == ~(spec.supervisor /\ spec.shutdown = "Infinity")

(* LostEnd::wait: the verdict once the bound passed, then the end.         *)
FollowerVerdict ==
    /\ follower = "waiting" /\ bounded /\ ~finished
    /\ follower' = "flagged"
    /\ verdict' = TRUE
    /\ UNCHANGED <<spec, cmd, sup, cell, predGone, ex, run, outcome, guard, reaper, backstop,
                   waiter, childVars, early>>

FollowerEnds ==
    /\ follower \in {"waiting", "flagged"} /\ sup # "gone" /\ finished
    /\ follower' = "done"
    /\ outcome' = "Death"
    /\ owed' = Released
    /\ UNCHANGED <<spec, slotVars, predGone, ex, run, guard, reaper, backstop, waiter, task,
                   ack, lane, plane, aborted, early>>

-----------------------------------------------------------------------------
(* A handler that stops the child and waits on its cell: await_cell. A     *)
(* manual stop is refused while an attempt is in flight.                   *)
WaitBegins ==
    /\ waiter = "none" /\ sup = "idle" /\ cmd.order # "none"
    /\ ex \in {"runner", "lost"} /\ cell.published
    /\ waiter' = "waiting"
    /\ UNCHANGED <<spec, slotVars, predGone, ex, run, outcome, forceVars, childVars, early>>

(* The cell settled.                                                       *)
WaitReadsCell ==
    /\ waiter = "waiting"
    /\ cell.fate # None \/ cell.unresponsive \/ cell.cancelled
    /\ waiter' = "none"
    /\ UNCHANGED <<spec, slotVars, predGone, ex, run, outcome, forceVars, childVars, early>>

(* Mutant: the wait leaves the verdict to the follower.                    *)
WaitReadsClosedCellUnbounded(expired) ==
    /\ waiter = "waiting" /\ closed /\ expired
    /\ cell.fate = None /\ ~cell.unresponsive /\ ~cell.cancelled
    /\ finished \/ verdict
    /\ waiter' = "none"
    /\ UNCHANGED <<spec, slotVars, predGone, ex, run, outcome, forceVars, childVars, early>>

(* closed_cell: the executor is gone, and the wait follows the plane.      *)
WaitReadsClosedCell(expired) ==
    /\ waiter = "waiting" /\ closed
    /\ cell.fate = None /\ ~cell.unresponsive /\ ~cell.cancelled
    /\ waiter' = "none"
    /\ \/ finished /\ owed' = Released /\ UNCHANGED verdict
       \/ ~finished /\ (verdict \/ (expired /\ bounded)) /\ verdict' = TRUE /\ UNCHANGED owed
    /\ UNCHANGED <<spec, cmd, sup, cell, predGone, ex, run, outcome, forceVars, task, ack, lane,
                   plane, aborted, early>>

-----------------------------------------------------------------------------
(* The child's task and the rest of the world (see ActorRun).              *)

PredecessorEnds ==
    /\ ex = "await_predecessor" /\ ~predGone
    /\ predGone' = TRUE
    /\ UNCHANGED <<spec, slotVars, ex, run, outcome, forceVars, waiter, childVars, early>>

(* A holder of the handle raises; a Kill the lane does not refuse goes on  *)
(* to its backstop (raise_kill_declared). A second one repeats the first.  *)
OutsideRaise(r) ==
    /\ task # "unborn"
    /\ lane' = Raised(r)
    /\ backstop' = IF r = "Kill" /\ AnswerTo(LaneState, r, FALSE) # "Refused" /\ backstop = "none"
                   THEN "raised" ELSE backstop
    /\ UNCHANGED <<spec, slotVars, predGone, ex, run, outcome, guard, reaper, follower, waiter,
                   task, ack, plane, owed, aborted, early>>

(* arm_raised_kill, or the attach that finds the Kill raised: the abort is *)
(* owed and given to the reaper. It is not when the registration is gone.  *)
ArmBackstop(registered) ==
    /\ backstop = "raised"
    /\ backstop' = IF registered THEN "armed" ELSE "none"
    /\ owed' = IF registered THEN OweFor ELSE owed
    /\ UNCHANGED <<spec, slotVars, predGone, ex, run, outcome, guard, reaper, follower, waiter,
                   task, ack, lane, plane, aborted, early>>

(* The entry fires, or is dropped unfired: either aborts.                  *)
BackstopFires ==
    /\ backstop = "armed"
    /\ backstop' = "done"
    /\ AbortTask
    /\ UNCHANGED <<spec, slotVars, predGone, ex, run, outcome, guard, reaper, follower, waiter,
                   task, ack, lane, plane, early>>

InitSucceeds ==
    /\ task = "init"
    /\ task' = "up"
    /\ ack' = IF ack = "waiting" THEN "ok" ELSE ack
    /\ UNCHANGED <<spec, slotVars, predGone, ex, run, outcome, forceVars, waiter, lane, plane,
                   owed, aborted, early>>

(* The run ends on its own: the seal fixes the reason, and an init that    *)
(* did not succeed resolves its ack with it. An abort reads the same: its  *)
(* drops write Kill, and the ack goes unanswered.                          *)
TaskSeals(r) ==
    /\ task \in {"init", "up"}
    /\ IF killStored \/ aborted THEN r = "Kill"
       ELSE r \in {"Failure", IF lane = None THEN "Graceful" ELSE lane}
    /\ task' = "sealed"
    /\ plane' = r
    /\ ack' = IF ack = "waiting" THEN "err" ELSE ack
    /\ UNCHANGED <<spec, slotVars, predGone, ex, run, outcome, forceVars, waiter, lane, owed,
                   aborted, early>>

(* The hold on the subtree drops with the context, or later, with a        *)
(* forwarder that still ends.                                              *)
HoldReleased ==
    /\ task \in {"sealed", "ended"} /\ ~owed.ended
    /\ owed' = Released
    /\ UNCHANGED <<spec, slotVars, predGone, ex, run, outcome, forceVars, waiter, task, ack,
                   lane, plane, aborted, early>>

TaskFinishes ==
    /\ task = "sealed"
    /\ task' = "ended"
    /\ UNCHANGED <<spec, slotVars, predGone, ex, run, outcome, forceVars, waiter, ack, lane,
                   plane, owed, aborted, early>>

-----------------------------------------------------------------------------
SupervisorStep ==
    \/ OrderWrite \/ FollowLost
    \/ \E accepted \in BOOLEAN : Adopt(accepted)

ExecutorStep ==
    \/ AwaitPredecessor(FALSE) \/ CancelledBeforeFactory
    \/ \E result \in {"removed", "failed", "spawned"}, timed \in BOOLEAN : Build(result, timed)
    \/ ReadOrder \/ ReadAckOk \/ DecideAck \/ ReadAckErr \/ StartTimeout \/ Deadline \/ Join

Next ==
    \/ SupervisorStep \/ ExecutorStep
    \/ \E raise \in BOOLEAN : OrderRaise(raise)
    \/ CancelUnspawned \/ SupervisorGone \/ ExecutorLost
    \/ AwaitPredecessor(TRUE)
    \/ ReaperFires \/ ReaperDropped \/ FollowerVerdict \/ FollowerEnds
    \/ WaitBegins \/ WaitReadsCell
    \/ \E expired \in BOOLEAN : WaitReadsClosedCell(expired)
    \/ PredecessorEnds
    \/ \E r \in OutsideReasons : OutsideRaise(r)
    \/ \E registered \in BOOLEAN : ArmBackstop(registered)
    \/ BackstopFires
    \/ InitSucceeds \/ TaskFinishes \/ HoldReleased
    \/ \E r \in Reasons : TaskSeals(r)

Spec == Init /\ [][Next]_vars

(* LostEnd::wait and the reaper, each a task of its own. Every step here   *)
(* is the last or the last but one of its entry, so that weak fairness of  *)
(* all together is weak fairness of each.                                  *)
HelperStep == ReaperFires \/ BackstopFires \/ FollowerVerdict \/ FollowerEnds

(* await_cell's future is polled when its cell or its plane changes.       *)
WaiterStep == WaitReadsCell \/ \E expired \in BOOLEAN : WaitReadsClosedCell(expired)

(* The crate's own tasks run and its timers fire: the supervisor, the      *)
(* executor (dropped once its supervisor is gone), the reaper, the         *)
(* follower and the waiting handler. The supervisor's fairness is strong:  *)
(* its select prefers the planes to the mailbox, so handlers that wait     *)
(* again and again do not starve it. The child's task gets none: it may    *)
(* never yield. Nor does the predecessor's end.                            *)
FairSpec ==
    /\ Spec
    /\ SF_vars(SupervisorStep)
    /\ WF_vars(ExecutorStep \/ (sup = "gone" /\ ExecutorLost))
    /\ WF_vars(HelperStep) /\ WF_vars(WaiterStep)

-----------------------------------------------------------------------------
(* A recorded fate is the end of a task that ended, under the one reason   *)
(* its plane shows, and no abort is still owed to it; the verdict of a     *)
(* ladder is never earlier than the abort it follows (write_verdict).      *)
FateAndVerdictAreTrue ==
    /\ cell.fate # None => finished /\ cell.fate = plane /\ ~owed.mark
    /\ cell.unresponsive => owed.at \/ owed.ended

(* Nobody's task is aborted that was not told Kill first, whoever takes    *)
(* the escalation over from whom. A lane that refuses belongs to a task    *)
(* already past its seal; a reaper that cannot keep its deadlines aborts.  *)
KillComesFirst == aborted => killStored \/ task \in {"sealed", "ended"} \/ reaper = "dropped"

(* A stop order or a group's cancel that is written before the attempt's   *)
(* last check builds nothing (cancelled_before_factory); one written later *)
(* never reads as a cancel.                                                *)
CancelBuildsNothing ==
    /\ early => task = "unborn"
    /\ cell.cancelled => task = "unborn"

(* The incarnation an attempt hands over is under no ladder of the         *)
(* attempt's: an abort that was issued, or is still owed, comes from the   *)
(* backstop of a Kill some holder raised, which does not end with the      *)
(* attempt (attempt_step hands over with the ladder off).                  *)
HandedOverClean ==
    ex = "transit" => /\ owed.mark => backstop = "armed"
                      /\ aborted => backstop = "done"

(* The ledger had moved past the incarnation when it was handed over: the  *)
(* guard ends it, and nobody waits for it.                                 *)
superseded == outcome = "Adopted" /\ ex = "gone" /\ follower = "none"

(* An order whose policy is bounded is carried out whatever stage of the   *)
(* incarnation's life it meets, the hand-over included: the task ends, or  *)
(* was never built, or the verdict is given, even when the executor is     *)
(* lost on the way (a supervisor child under Infinity is then waited for). *)
OrderIsCarriedOut ==
    cmd.order # "none" /\ spec.shutdown # "Infinity" ~>
        finished \/ verdict \/ sup = "gone" \/ (task = "unborn" /\ closed) \/ superseded

(* A child whose executor was dropped is never left running: it ends or is *)
(* aborted, unless it is a supervisor under Infinity.                      *)
NoOrphan == guard = "fired" /\ bounded ~> finished \/ aborted

(* The end of every incarnation reaches the supervisor, from its executor  *)
(* or from the follower of a lost one.                                     *)
EndIsReported ==
    finished ~> \/ outcome \notin {"none", "Adopted"} \/ sup = "gone"
                \/ superseded

(* An abort owed to a task that ended is not owed for ever, though a       *)
(* forwarder keeps the subtree's hold.                                     *)
MarkIsReleased == finished ~> ~owed.mark

(* A handler waiting on the cell returns once the task ended.              *)
WaitReturns ==
    waiter = "waiting" /\ (finished \/ spec.shutdown # "Infinity") ~> waiter # "waiting"
=============================================================================
