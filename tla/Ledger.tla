------------------------------- MODULE Ledger -------------------------------
(***************************************************************************)
(* A supervisor's SupervisionState and the rules that rewrite it, as       *)
(* operators from one state record S to the next. An incarnation is a      *)
(* token, its position in S.slots; tokens grow. Supervisor.tla runs them.  *)
(*                                                                         *)
(*   S.reg      the children in start order      S.life    one Life a key  *)
(*   S.slots    one record per incarnation ever started                    *)
(*   S.group    the pending group restart        S.queued  queued_triggers *)
(*   S.budget   the restarts inside the window                             *)
(*   S.work, S.deliver   locals of handle_worklist: reports still to take, *)
(*              and ends still to hand to on_child_stopped                 *)
(***************************************************************************)
EXTENDS StopReasons, SequencesExt

CONSTANTS Keys,         \* child ids
          Strategy,     \* the supervisor's RestartStrategy
          RestartType,  \* each child's RestartType
          MaxRestarts   \* RestartBudget::max_restarts

ASSUME StrategyAssumption ==
    /\ Strategy \in {"OneForOne", "OneForAll", "RestForOne", "SimpleOneForOne"}
    /\ RestartType \in [Keys -> {"Permanent", "Transient", "Temporary"}]
    /\ MaxRestarts \in Nat

(* ChildLifecycle. Token 0 is no incarnation; the tag of a Stopping child  *)
(* is the manual stop, of a Restarting one the attempt's Origin, of a Down *)
(* one its DownPending.                                                    *)
Life(st, n, tag) == [st |-> st, n |-> n, tag |-> tag]
Absent == Life("Absent", 0, None)
Running(n) == Life("Running", n, None)
Stopping(n, kind) == Life("Stopping", n, kind)
Restarting(n, origin) == Life("Restarting", n, origin)
Down(n, pending) == Life("Down", n, pending)

Origins == {"Strategy", "Bounce", "Manual", "Chain"}
Manual == {"Bounce", "Terminate"}
Pending == {None, "Evaluate", "Snapshot"}

(* ChildSpec plus SlotCtl of one incarnation, where its report is, what    *)
(* pending_manual_events holds for it, and two history fields: how often   *)
(* its end was told, and whether a terminate_child took it before that.    *)
Incarnation(k, st) ==
    [key |-> k, st |-> st, ordered |-> FALSE, cancel |-> FALSE, verdict |-> FALSE,
     reason |-> None, snap |-> None, told |-> 0, released |-> FALSE]

(* The stages before an end the supervisor is to hear of.                  *)
Attempting == {"waiting", "init", "transit"}
Open == Attempting \cup {"up", "ended", "cancelled", "stuck"}

ZeroKeys == [k \in Keys |-> 0]

(* pending_group. Its chain is restart_order while the group stops and the *)
(* chain's queue once it restarts.                                         *)
NoGroup ==
    [phase |-> None, awaiting |-> ZeroKeys, stopQueue |-> <<>>, reached |-> FALSE,
     chain |-> <<>>, overrides |-> ZeroKeys, started |-> ZeroKeys,
     restarted |-> {}, outside |-> {}]

Pool == Strategy = "SimpleOneForOne"
Permanent(k) == RestartType[k] = "Permanent"
Prunable(k) == Pool \/ RestartType[k] = "Temporary"

Ends(S, k) == S.slots[S.life[k].n].st \in {"ended", "drained"}
IsFront(S, k) == S.group.phase = "Restarting" /\ S.group.chain # <<>> /\ Head(S.group.chain) = k

-----------------------------------------------------------------------------
(* rules::is_legal and ChildState::transition.                             *)
IsLegal(from, to) ==
    \/ from.st = "Running" /\ to.st \in {"Stopping", "Down"} /\ to.n = from.n
    \/ from.st = "Stopping" /\ to.st = "Down" /\ to.n = from.n
    \/ from = Stopping(from.n, "Bounce") /\ to = Stopping(from.n, "Terminate")
    \/ from.st = "Restarting" /\ to.st \in {"Running", "Down"} /\ to.n = from.n
    \/ from.st = "Down" /\ to.st = "Restarting" /\ to.n > from.n
    \/ from.st = "Down" /\ to.st = "Down" /\ to.n = from.n

Transition(S, k, to) ==
    IF IsLegal(S.life[k], to) THEN [S EXCEPT !.life[k] = to] ELSE S

(* Mutant: only the occupant's report is current.                          *)
ReportClassNoOwed(S, k, n) ==
    LET l == S.life[k] IN
    CASE l = Absent -> "Gone"
      [] l.st # "Down" /\ l.n = n -> "Occupant"
      [] OTHER -> "Stale"

(* report_class; "Gone" is a report whose spec is gone.                    *)
ReportClass(S, k, n) ==
    LET l == S.life[k] IN
    CASE l = Absent -> "Gone"
      [] l.st # "Down" /\ l.n = n -> "Occupant"
      [] l = Down(n, "Evaluate") -> "OwedEvaluation"
      [] OTHER -> "Stale"

(* SlotCtl::order_stop on the occupant's slot; the raise it makes and the  *)
(* policy it carries are the runner's (ChildSlot).                         *)
Order(S, k) == [S EXCEPT !.slots[S.life[k].n].ordered = TRUE]

(* SupervisionState::initiate.                                             *)
Initiate(S, k, origin) ==
    LET n == Len(S.slots) + 1 IN
    IF S.life[k].st # "Down" THEN S
    ELSE [S EXCEPT !.life[k] = Restarting(n, origin),
                   !.slots = Append(@, Incarnation(k, "waiting")),
                   !.group.started[k] =
                       IF origin = "Chain" /\ S.group.phase = "Restarting" THEN n ELSE @]

(* Mutant: the start order keeps the id of a removed child.                *)
RemoveSpecKeepsOrder(S, k) ==
    [S EXCEPT !.life[k] = Absent, !.group.chain = Remove(@, k), !.group.overrides[k] = 0,
              !.group.started[k] = 0, !.group.restarted = @ \ {k},
              !.group.outside = @ \ {k}]

(* SupervisionState::remove_spec: the barrier keeps its entry.             *)
RemoveSpec(S, k) ==
    [S EXCEPT !.reg = Remove(@, k), !.life[k] = Absent,
              !.group.chain = Remove(@, k), !.group.overrides[k] = 0,
              !.group.started[k] = 0, !.group.restarted = @ \ {k},
              !.group.outside = @ \ {k}]

(* prune_spec_if_needed.                                                   *)
Prune(S, k) == IF Prunable(k) /\ S.life[k] # Absent THEN RemoveSpec(S, k) ELSE S

-----------------------------------------------------------------------------
(* What a pending group says of a child.                                   *)

InRestartSet(S, k) == k \in ToSet(S.group.chain) /\ S.group.overrides[k] = 0

Released(S, k) ==
    LET l == S.life[k] IN
    /\ S.group.overrides[k] # 0 /\ S.group.overrides[k] = l.n
    /\ l.st = "Down" \/ l = Stopping(l.n, "Terminate")

(* group_membership.                                                       *)
Membership(S, k) ==
    LET l == S.life[k]
        awaited == S.group.awaiting[k]
    IN CASE awaited # 0 /\ l.n # awaited -> None
         [] awaited # 0 /\ l.n = awaited /\ S.slots[awaited].snap = None -> "Awaited"
         [] l # Absent /\ k \in ToSet(S.group.chain) -> "Queued"
         [] Released(S, k) -> "Released"
         [] OTHER -> None

(* in_keep_scope: a pending group may still restart this child.            *)
InKeepScope(S, k) ==
    /\ S.group.phase # None
    /\ \/ Strategy = "OneForAll"
       \/ Strategy = "RestForOne" /\ k \notin S.group.outside

(* record_override, leave_restart_set.                                     *)
RecordOverride(S, k) ==
    IF S.group.phase = None \/ S.life[k] = Absent THEN S
    ELSE [S EXCEPT !.group.overrides[k] = S.life[k].n]

LeaveRestartSet(S, k) == [S EXCEPT !.group.chain = Remove(@, k)]

(* Mutants: the owed evaluation stays owed; no snapshot replaces it.       *)
DismissNothing(S, k) == S

DismissUnsnapped(S, k) ==
    IF S.life[k] # Down(S.life[k].n, "Evaluate") THEN S
    ELSE IF Prunable(k) THEN RemoveSpec(S, k)
    ELSE Transition(S, k, Down(S.life[k].n, "Snapshot"))

(* dismiss_owed_evaluation: a manual call takes over an end whose          *)
(* evaluation is still owed.                                               *)
Dismiss(S, k) ==
    LET n == S.life[k].n
        snapped == [S EXCEPT !.slots[n].snap = "Removed"]
    IN IF S.life[k] # Down(n, "Evaluate") THEN S
       ELSE IF Prunable(k) THEN RemoveSpec(snapped, k)
       ELSE Transition(snapped, k, Down(n, "Snapshot"))

(* rewrite_restart_snapshot.                                               *)
RewriteSnapshot(S, k) ==
    IF S.life[k].n # 0 /\ S.slots[S.life[k].n].snap = "RestartInitiated"
    THEN [S EXCEPT !.slots[S.life[k].n].snap = "Removed"] ELSE S

-----------------------------------------------------------------------------
(* Manual stops.                                                           *)

(* classify_manual and classify_manual_completion: the end of incarnation  *)
(* n of k under a manual stop. A restart it makes is not charged.          *)
Classify(S, k, n, kind) ==
    LET snapped(action, T) == [T EXCEPT !.slots[n].snap = action]
        down == Transition(S, k, Down(n, "Snapshot"))
    IN CASE kind = "Bounce" /\ S.slots[n].reason = "Failure" ->
              Transition(S, k, Down(n, "Evaluate"))
         [] ~(kind = "Bounce" /\ S.slots[n].reason = "Failure") /\ InRestartSet(S, k) ->
              snapped("RestartInitiated", down)
         [] OTHER ->
              IF kind = "Terminate" \/ Pool \/ ~Permanent(k)
              THEN snapped("Removed", IF Prunable(k) THEN RemoveSpec(S, k) ELSE down)
              ELSE Initiate(snapped("RestartInitiated", down), k, "Bounce")

(* finish_manual_stop: a joined call meets the end of incarnation n.       *)
FinishManualStop(S, k, n, kind) ==
    LET l == S.life[k] IN
    IF l.st = "Stopping" /\ l.n = n THEN Classify(S, k, n, l.tag)
    ELSE IF l = Running(n) THEN Classify(S, k, n, kind)
    ELSE S

(* stop_route: what stop_child does to k, given what the group says of it. *)
StopRoute(S, k) ==
    LET m == Membership(S, k)
        own == m # None \/ k \in S.group.restarted
    IN CASE own /\ Permanent(k) -> "Kept"
         [] ~Permanent(k) /\ (own \/ InKeepScope(S, k)) -> "AsTerminate"
         [] OTHER -> "Bounce"

(* bounce_commit.                                                          *)
BounceCommit(S, k) ==
    LET l == S.life[k] IN
    IF l.st # "Running" THEN S
    ELSE IF Ends(S, k) THEN Classify(S, k, l.n, "Bounce")
    ELSE Order(Transition(S, k, Stopping(l.n, "Bounce")), k)

(* terminate_commit. In keep scope the call also keeps the child out of    *)
(* the group's later plans; a member leaves the restart set.               *)
TerminateCommit(S, k) ==
    LET l == S.life[k]
        m == Membership(S, k)
        kept(T) == IF InKeepScope(S, k) THEN RecordOverride(T, k) ELSE T
        keptUnpruned(T) == IF Prunable(k) THEN T ELSE kept(T)
        out == LeaveRestartSet(RecordOverride(S, k), k)
    IN CASE m = None /\ l.st = "Running" /\ Ends(S, k) ->
              keptUnpruned(Classify(S, k, l.n, "Terminate"))
         [] m = None /\ l.st = "Running" /\ ~Ends(S, k) ->
              kept(Order(Transition(S, k, Stopping(l.n, "Terminate")), k))
         [] m = None /\ l.st = "Stopping" ->
              kept(Transition(S, k, Stopping(l.n, "Terminate")))
         [] m = None /\ l = Down(l.n, "Evaluate") -> keptUnpruned(Dismiss(S, k))
         [] m = None /\ l.st = "Down" /\ l.tag # "Evaluate" -> kept(S)
         [] m = "Awaited" /\ l.st = "Running" -> IF Ends(S, k) THEN out ELSE Order(out, k)
         [] m = "Awaited" /\ l.st = "Stopping" ->
              Transition(out, k, Stopping(l.n, "Terminate"))
         [] m = "Queued" /\ l.st = "Down" ->
              RewriteSnapshot(LeaveRestartSet(RecordOverride(Dismiss(S, k), k), k), k)
         [] OTHER -> S

(* Whether the call is refused, or goes on to wait for the incarnation's   *)
(* end (Join).                                                             *)
TerminateRefused(S, k) ==
    LET l == S.life[k]
        m == Membership(S, k)
    IN \/ l.st \in {"Absent", "Restarting"}
       \/ m = "Awaited" /\ l.st = "Down"
       \/ m = "Queued" /\ l.st # "Down"

Joins(S, k) ==
    LET l == S.life[k] IN
    \/ l.st = "Stopping"
    \/ l.st = "Running" /\ ~(Membership(S, k) = None /\ Ends(S, k))
-----------------------------------------------------------------------------
(* Mutant: a child whose restart is in flight may be deleted.              *)
AnswersDeleteRestarting(S, k) ==
    /\ S.life[k].st \in {"Down", "Restarting"} /\ S.life[k].tag # "Evaluate"
    /\ Membership(S, k) \in {None, "Released"}


(* manual_answer for restart_child and delete_child.                       *)
AnswersRestart(S, k) ==
    /\ S.life[k].st = "Down" /\ S.life[k].tag # "Evaluate"
    /\ Membership(S, k) = None

AnswersDelete(S, k) ==
    /\ S.life[k].st = "Down" /\ S.life[k].tag # "Evaluate"
    /\ Membership(S, k) \in {None, "Released"}
=============================================================================
