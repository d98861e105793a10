----------------------------- MODULE Supervisor -----------------------------
(***************************************************************************)
(* A supervisor's run loop over the ledger of several children: the        *)
(* reports, adoptions, cancellations and verdicts it takes one at a time,  *)
(* the strategy and the group restart each leads to, the on_child_stopped  *)
(* callbacks it awaits, and the manual child calls user code makes inside  *)
(* a handler or a callback. An incarnation is reduced to the stages its    *)
(* slot shows (ChildSlot has the ladder behind them). Left out: the        *)
(* teardown after the loop, lost runners, the second ask of a vetoing      *)
(* child, panics in the drop of a factory.                                 *)
(***************************************************************************)
EXTENDS GroupRestart

CONSTANTS StartOrder,  \* the children at the start, in start order
          EndReasons,  \* the reasons an incarnation may end with
          Calls,       \* the manual calls user code makes
          Stubborn,    \* the children whose code may outlive an abort
          MaxTokens    \* bound: incarnations ever started

ASSUME InstanceAssumption ==
    /\ StartOrder \in Seq(Keys) /\ Len(StartOrder) <= MaxTokens
    /\ EndReasons \subseteq Reasons /\ Stubborn \subseteq Keys
    /\ Calls \subseteq {"stop", "terminate", "restart", "delete", "spawn"}

VARIABLES sup,    \* SupervisionState with the slots and the worklist
          turn,   \* where the run loop is
          signal  \* the permit of the Verdicts Notify

vars == <<sup, turn, signal>>

NoCall == [key |-> None, n |-> 0, kind |-> None]
Select == [pc |-> "select", then |-> "select", n |-> 0, commit |-> <<>>, call |-> NoCall]

Init ==
    /\ sup = [reg |-> StartOrder,
              life |-> [k \in Keys |->
                          LET i == SelectInSeq(StartOrder, LAMBDA j : j = k)
                          IN IF i = 0 THEN Absent ELSE Running(i)],
              slots |-> [i \in DOMAIN StartOrder |-> Incarnation(StartOrder[i], "up")],
              group |-> NoGroup, queued |-> <<>>, budget |-> 0,
              work |-> <<>>, deliver |-> <<>>, owed |-> <<>>]
    /\ turn = Select
    /\ signal = FALSE

-----------------------------------------------------------------------------
(* The end of one step of handle_worklist: the next delivery starts, or    *)
(* the continuation is taken. An event that is done checks the verdicts.   *)

(* deliver_child_event begins; nothing reads the record after it.          *)
Told(S, n) ==
    [S EXCEPT !.slots[n].told = @ + 1, !.slots[n].reason = None, !.slots[n].released = FALSE]

Leave(S, owed) ==
    /\ sup' = [S EXCEPT !.owed = owed, !.work = <<>>, !.deliver = <<>>]
    /\ turn' = [Select EXCEPT !.pc = "left"]

Continue(S, then, n, commit) ==
    /\ Len(S.slots) <= MaxTokens
    /\ IF S.deliver # <<>>
       THEN /\ sup' = Told([S EXCEPT !.deliver = Tail(@)], Head(S.deliver))
            /\ turn' = [pc |-> "callback", then |-> then, n |-> n, commit |-> commit, call |-> NoCall]
       ELSE IF S.work # <<>> THEN sup' = S /\ turn' = [Select EXCEPT !.pc = "work"]
       ELSE IF BlockedByVerdicts(S) THEN Leave(S, <<>>)
       ELSE sup' = S /\ turn' = Select

Deliver(S, n) == [S EXCEPT !.deliver = Append(@, n)]
Goes(S) == [s |-> S, then |-> "work", commit |-> <<>>]

(* RestartBudget::check_and_record.                                        *)
BudgetSpent(S) == S.budget >= MaxRestarts
Charge(S) == [S EXCEPT !.budget = @ + 1]

(* evaluate_strategy's should_restart.                                     *)
ShouldRestart(k, reason) ==
    \/ RestartType[k] = "Permanent"
    \/ RestartType[k] = "Transient" /\ reason \notin {"Graceful", "ParentRequest", "ParentKilled"}

(* evaluate_strategy and the arm of handle_worklist its outcome takes.     *)
Evaluate(S, n) ==
    LET k == S.slots[n].key
        C == Charge(S)
        commit == Commit(C, k, {})
        A == AbsorbRecords(C, commit)
    IN CASE S.life[k] = Absent \/ ~ShouldRestart(k, S.slots[n].reason) ->
              Goes(Deliver(Prune(S, k), n))
         [] S.life[k] # Absent /\ ShouldRestart(k, S.slots[n].reason) /\ BudgetSpent(S) ->
              [Goes(Deliver(S, n)) EXCEPT !.then = "exit"]
         [] OTHER ->
              IF Strategy \in {"OneForOne", "SimpleOneForOne"}
              THEN Goes(Deliver(Initiate(C, k, "Strategy"), n))
              ELSE IF A.deliver = <<>> THEN Goes(Deliver(PlanGroup(A, k, commit), n))
              ELSE [s |-> A, then |-> "plan", commit |-> commit]

(* The steps a Routed::Deliver takes: the member is down, its barrier      *)
(* entry is settled or the chain it fronts goes on, a spec is pruned.      *)
MemberEnd(S, k, n, prune) ==
    LET D == Transition(S, k, Down(n, None))
        T == IF Settles(S, k, n) THEN Settle(D, k, n)
             ELSE IF IsFront(S, k) THEN AdvanceChain(D) ELSE D
    IN Goes(Deliver(IF prune THEN Prune(T, k) ELSE T, n))

OweEvaluation(S, k, n) ==
    Goes([Transition(S, k, Down(n, "Evaluate")) EXCEPT !.queued = Append(@, n)])

(* attempt_failure_route: the end of a restart attempt.                    *)
AttemptFailed(S, k, n) ==
    LET D == Transition(S, k, Down(n, None)) IN
    CASE IsFront(S, k) /\ S.group.started[k] = n ->
           IF BudgetSpent(S) THEN [Goes(Deliver(D, n)) EXCEPT !.then = "exit"]
           ELSE Goes(RetryGroup(Charge(D), n))
      [] ~(IsFront(S, k) /\ S.group.started[k] = n) /\ Membership(S, k) \in {"Awaited", "Queued"} ->
           MemberEnd(S, k, n, RestartType[k] = "Temporary")
      [] OTHER ->
           IF S.life[k].tag = "Manual" THEN Goes(Deliver(D, n))
           ELSE IF S.group.phase # None THEN OweEvaluation(S, k, n)
           ELSE Evaluate(D, n)

(* route_report for an incarnation that ran.                               *)
RunEnded(S, k, n) ==
    CASE S.group.phase = None -> Evaluate(Transition(S, k, Down(n, None)), n)
      [] S.group.phase # None /\ Settles(S, k, n) ->
           MemberEnd(S, k, n, S.group.overrides[k] = n \/ RestartType[k] = "Temporary")
      [] S.group.phase # None /\ ~Settles(S, k, n) /\ Membership(S, k) = "Queued" ->
           MemberEnd(S, k, n, RestartType[k] = "Temporary")
      [] OTHER -> OweEvaluation(S, k, n)

(* Mutants: the barrier keeps the entry of a snapshotted end; the child    *)
(* keeps the mark of a snapshot that was delivered.                        *)
SnapshotEndUnsettled(S, k, n) ==
    LET C == [S EXCEPT !.slots[n].snap = None]
    IN Goes(Deliver(IF S.life[k] = Down(n, "Snapshot")
                    THEN Transition(C, k, Down(n, None)) ELSE C, n))

SnapshotEndMarked(S, k, n) ==
    LET C == [S EXCEPT !.slots[n].snap = None]
    IN Goes(Deliver(IF Settles(S, k, n) THEN Settle(C, k, n)
                    ELSE IF IsFront(S, k) THEN AdvanceChain(C) ELSE C, n))

(* The delivery of a manual stop's snapshot, which also settles the        *)
(* barrier or lets the chain go on.                                        *)
SnapshotEnd(S, k, n) ==
    LET C == [S EXCEPT !.slots[n].snap = None]
        D == IF S.life[k] = Down(n, "Snapshot") THEN Transition(C, k, Down(n, None)) ELSE C
        T == IF Settles(S, k, n) THEN Settle(D, k, n)
             ELSE IF IsFront(S, k) THEN AdvanceChain(D) ELSE D
    IN Goes(Deliver(T, n))

(* One report through handle_worklist. A manual stop nobody waited for is  *)
(* classified first and its report taken again.                            *)
Report(S, n) ==
    LET k == S.slots[n].key
        l == S.life[k]
        class == ReportClass(S, k, n)
        taken == class \notin {"Occupant", "OwedEvaluation"} /\ S.slots[n].snap # None
    IN CASE taken -> SnapshotEnd(S, k, n)
         [] ~taken /\ l.st = "Stopping" /\ l.n = n ->
              Goes([Classify(S, k, n, l.tag) EXCEPT !.work = <<n>> \o @])
         [] ~taken /\ class = "Stale" -> Goes(S)
         [] ~taken /\ class = "Gone" -> Evaluate(S, n)
         [] OTHER -> IF l.st = "Restarting" THEN AttemptFailed(S, k, n) ELSE RunEnded(S, k, n)

Handle(S, n) == LET r == Report(S, n) IN Continue(r.s, r.then, n, r.commit)

-----------------------------------------------------------------------------
(* The run loop's events. Which plane is ready first is left open.         *)

Drained(S, n, st) ==
    [S EXCEPT !.slots[n].st = st, !.slots[n].ordered = FALSE, !.slots[n].cancel = FALSE,
              !.slots[n].verdict = FALSE]

(* A Death, or the Failed or Stopped outcome of an attempt.                *)
TakeReport(n) ==
    /\ turn.pc = "select" /\ sup.slots[n].st = "ended"
    /\ Handle(Drained(sup, n, "drained"), n)
    /\ UNCHANGED signal

(* The next report of the worklist.                                        *)
TakeWork ==
    /\ turn.pc = "work"
    /\ Handle([sup EXCEPT !.work = Tail(@)], Head(sup.work))
    /\ UNCHANGED signal

(* adopt_restart. An adoption the ledger does not hold kills the stray.    *)
TakeAdopted(n) ==
    LET k == sup.slots[n].key
        T == Transition([sup EXCEPT !.slots[n].st = "up"], k, Running(n))
        folds == sup.group.phase = "Stopping" /\ k \in ToSet(sup.group.chain)
    IN /\ turn.pc = "select" /\ sup.slots[n].st = "transit"
       /\ IF sup.life[k].st = "Restarting" /\ sup.life[k].n = n
          THEN Continue(IF folds THEN [T EXCEPT !.group.awaiting[k] = n]
                        ELSE IF IsFront(sup, k) THEN AdvanceChain(T) ELSE T, "work", 0, <<>>)
          ELSE Continue([sup EXCEPT !.slots[n].st = "void"], "work", 0, <<>>)
       /\ UNCHANGED signal

(* RestartOutcome::Cancelled: no incarnation existed, nothing is told.     *)
TakeCancelled(n) ==
    LET k == sup.slots[n].key
        T == Drained(sup, n, "void")
        D == IF sup.life[k].st = "Restarting" /\ sup.life[k].n = n
             THEN Transition(T, k, Down(n, None)) ELSE T
    IN /\ turn.pc = "select" /\ sup.slots[n].st = "cancelled"
       /\ Continue(Settle(D, k, n), "work", 0, <<>>)
       /\ UNCHANGED signal

(* RestartOutcome::PredecessorUnresponsive: the supervisor fails.          *)
TakePredecessorUnresponsive(n) ==
    /\ turn.pc = "select" /\ sup.slots[n].st = "stuck"
    /\ Leave(Transition(Drained(sup, n, "void"), sup.slots[n].key, Down(n, None)), <<>>)
    /\ UNCHANGED signal

(* SupervisionEvent::Verdict.                                              *)
TakeVerdict ==
    /\ turn.pc = "select" /\ signal
    /\ signal' = FALSE
    /\ Continue(AdvanceStopQueue(sup), "work", 0, <<>>)

(* on_child_stopped returns: the next delivery, or what the deliveries     *)
(* were made for. The plan of a group reads the commit of before them.     *)
CallbackReturns ==
    /\ turn.pc = "callback"
    /\ CASE sup.deliver # <<>> -> Continue(sup, turn.then, turn.n, turn.commit)
         [] sup.deliver = <<>> /\ turn.then = "plan" ->
              Continue(Deliver(PlanGroup(sup, sup.slots[turn.n].key, turn.commit), turn.n),
                       "work", turn.n, <<>>)
         [] sup.deliver = <<>> /\ turn.then = "exit" -> Leave(sup, sup.work)
         [] OTHER -> Continue(sup, "work", 0, <<>>)
    /\ UNCHANGED signal

(* Mutant: only the reports not yet looked at stay owed.                   *)
CallbackFailsForgets ==
    turn.pc = "callback" /\ Leave(sup, sup.work) /\ UNCHANGED signal

(* on_child_stopped fails: what was not delivered stays owed.              *)
CallbackFails ==
    /\ turn.pc = "callback"
    /\ Leave(sup, (IF turn.then = "plan" THEN <<turn.n>> ELSE <<>>) \o sup.deliver \o sup.work)
    /\ UNCHANGED signal

(* The oldest restart leaves the budget's window.                          *)
BudgetExpires ==
    /\ turn.pc = "select" /\ sup.budget > 0
    /\ sup' = [sup EXCEPT !.budget = @ - 1]
    /\ UNCHANGED <<turn, signal>>

-----------------------------------------------------------------------------
(* Manual calls, made by a handler (the loop is at its select) or by a     *)
(* callback.                                                               *)

InUserCode(call) == call \in Calls /\ turn.pc \in {"select", "callback"}

(* Where a call's future waits for incarnation n.                          *)
Waiting(k, n, kind) ==
    [turn EXCEPT !.pc = "join", !.call = [key |-> k, n |-> n, kind |-> kind]]

ManualStop(k, kind) ==
    LET l == sup.life[k]
        S == IF kind = "Bounce" THEN BounceCommit(sup, k) ELSE TerminateCommit(sup, k)
        R == IF kind = "Terminate" /\ l.n # 0 /\ sup.slots[l.n].told = 0
             THEN [S EXCEPT !.slots[l.n].released = TRUE] ELSE S
    IN /\ ~TerminateRefused(sup, k)
       /\ Len(R.slots) <= MaxTokens
       /\ sup' = R
       /\ turn' = IF Joins(sup, k) THEN Waiting(k, l.n, kind) ELSE turn
       /\ UNCHANGED signal

TerminateChild(k) == InUserCode("terminate") /\ ManualStop(k, "Terminate")

StopChild(k) ==
    /\ InUserCode("stop") /\ StopRoute(sup, k) # "Kept"
    /\ ManualStop(k, IF StopRoute(sup, k) = "Bounce" THEN "Bounce" ELSE "Terminate")

RestartChild(k) ==
    /\ InUserCode("restart") /\ AnswersRestart(sup, k)
    /\ sup' = Initiate(sup, k, "Manual") /\ Len(sup'.slots) <= MaxTokens
    /\ UNCHANGED <<turn, signal>>

DeleteChild(k) ==
    /\ InUserCode("delete") /\ AnswersDelete(sup, k)
    /\ sup' = RemoveSpec(sup, k)
    /\ UNCHANGED <<turn, signal>>

SpawnChild(k) ==
    /\ InUserCode("spawn") /\ sup.life[k] = Absent /\ Len(sup.slots) < MaxTokens
    /\ sup' = [sup EXCEPT !.reg = Append(@, k), !.life[k] = Running(Len(sup.slots) + 1),
                          !.slots = Append(@, Incarnation(k, "up"))]
    /\ UNCHANGED <<turn, signal>>

Back == [turn EXCEPT !.call = NoCall,
                     !.pc = IF turn.then = "select" THEN "select" ELSE "callback"]

(* The awaited end is observed and classified.                             *)
JoinReturns ==
    /\ turn.pc = "join" /\ sup.slots[turn.call.n].st = "ended"
    /\ sup' = FinishManualStop(sup, turn.call.key, turn.call.n, turn.call.kind)
    /\ Len(sup'.slots) <= MaxTokens
    /\ turn' = Back
    /\ UNCHANGED signal

JoinUnresponsive ==
    /\ turn.pc = "join" /\ sup.slots[turn.call.n].verdict
    /\ turn' = Back
    /\ UNCHANGED <<sup, signal>>

(* The caller drops the future of its call.                                *)
JoinDropped ==
    /\ turn.pc = "join"
    /\ turn' = Back
    /\ UNCHANGED <<sup, signal>>

-----------------------------------------------------------------------------
(* The slots: external to the loop, as ChildSlot shows them.               *)

Stage(n, st, reason) ==
    /\ turn.pc # "left"
    /\ sup' = [sup EXCEPT !.slots[n].st = st, !.slots[n].reason = reason]
    /\ UNCHANGED <<turn, signal>>

(* An attempt waits for its predecessor's subtree, then checks for an      *)
(* order and for the group's cancel before it builds anything.             *)
AttemptPasses(n) ==
    LET x == sup.slots[n] IN
    /\ x.st = "waiting"
    /\ \/ (x.ordered \/ x.cancel) /\ Stage(n, "cancelled", None)
       \/ ~x.ordered /\ ~x.cancel /\ (Stage(n, "init", None) \/ Stage(n, "stuck", None))

AttemptStarts(n) ==
    LET x == sup.slots[n] IN
    /\ x.st = "init"
    /\ \/ ~x.ordered /\ Stage(n, "transit", None)
       \/ \E r \in EndReasons : Stage(n, "ended", r)

RunEnds(n) ==
    sup.slots[n].st = "up" /\ \E r \in EndReasons : Stage(n, "ended", r)

(* The ladder's verdict on a task that outlives its abort: under an order, *)
(* or under the start bound of an attempt.                                 *)
Unresponsive(n) ==
    LET x == sup.slots[n] IN
    /\ turn.pc # "left" /\ x.key \in Stubborn
    /\ ~x.verdict /\ (x.st = "init" \/ (x.st = "up" /\ x.ordered))
    /\ sup' = [sup EXCEPT !.slots[n].verdict = TRUE]
    /\ signal' = TRUE
    /\ UNCHANGED turn

-----------------------------------------------------------------------------
Tokens == DOMAIN sup.slots

Loop ==
    \/ \E n \in Tokens : \/ TakeReport(n) \/ TakeAdopted(n) \/ TakeCancelled(n)
                         \/ TakePredecessorUnresponsive(n)
    \/ TakeWork \/ TakeVerdict \/ CallbackReturns \/ CallbackFails
    \/ JoinReturns \/ JoinUnresponsive

Next ==
    \/ Loop \/ JoinDropped \/ BudgetExpires
    \/ \E k \in Keys : \/ StopChild(k) \/ TerminateChild(k) \/ RestartChild(k)
                       \/ DeleteChild(k) \/ SpawnChild(k)
    \/ \E n \in Tokens : \/ AttemptPasses(n) \/ AttemptStarts(n) \/ RunEnds(n)
                         \/ Unresponsive(n)

(* The bound on incarnations is used up: nothing more can be started.      *)
Exhausted == Len(sup.slots) = MaxTokens

(* When the loop, an attempt and an ordered slot have a step to take: what *)
(* ENABLED says of their actions below the bound on incarnations.          *)
LoopReady ==
    /\ ~Exhausted
    /\ \/ turn.pc \in {"work", "callback"}
       \/ turn.pc = "select" /\ (signal \/ \E n \in Tokens :
                                   sup.slots[n].st \in {"ended", "transit", "cancelled", "stuck"})
       \/ turn.pc = "join" /\ (\/ sup.slots[turn.call.n].st = "ended"
                               \/ sup.slots[turn.call.n].verdict)

AttemptReady(n) ==
    /\ n \in Tokens /\ turn.pc # "left"
    /\ sup.slots[n].st = "waiting" \/ (sup.slots[n].st = "init" /\ ~sup.slots[n].verdict)

OrderReady(n) ==
    /\ n \in Tokens /\ turn.pc # "left"
    /\ sup.slots[n].st = "up" /\ sup.slots[n].ordered /\ ~sup.slots[n].verdict

(* The loop takes steps while something is ready for it (weak fairness,    *)
(* with the guard written out); callbacks return; an attempt's start is    *)
(* bounded and an order is carried out, each by an end or by a verdict     *)
(* (ChildSlot's ladder under a timed shutdown policy). Nothing obliges a child to end by itself, *)
(* user code to call, or a future to be dropped.                           *)
Fairness ==
    /\ []<>~LoopReady \/ []<><<Loop>>_vars
    /\ \A n \in 1..MaxTokens : []<>~AttemptReady(n) /\ []<>~OrderReady(n)

Spec == Init /\ [][Next]_vars /\ Fairness

-----------------------------------------------------------------------------
(* The shape of the supervision state.                                     *)
TypeOK ==
    /\ sup.reg \in Seq(Keys) /\ ToSet(sup.reg) = { k \in Keys : sup.life[k] # Absent }
    /\ \A k \in Keys :
         LET l == sup.life[k] IN
         \/ l = Absent
         \/ /\ l.n \in Tokens /\ sup.slots[l.n].key = k
            /\ \/ l = Running(l.n)
               \/ l.st = "Stopping" /\ l.tag \in Manual
               \/ l.st = "Restarting" /\ l.tag \in Origins
               \/ l.st = "Down" /\ l.tag \in Pending
    /\ \A n \in Tokens : sup.slots[n].st \in Open \cup {"drained", "void"}
    /\ turn.pc \in {"select", "work", "callback", "join", "left"}

(* The ledger is never behind the slots: an incarnation that can still     *)
(* start, run or be adopted is the very one the ledger holds for its key,  *)
(* in the state that fits, so a key never has two of them. This is what    *)
(* adopt_restart's "an adoption concerns the attempt the ledger holds" and *)
(* the token checks of every handler rest on.                              *)
LedgerHoldsTheLiving ==
    \A n \in Tokens :
        LET x == sup.slots[n]
            l == sup.life[x.key]
        IN /\ x.st \in Attempting \cup {"cancelled", "stuck"} => l.st = "Restarting" /\ l.n = n
           /\ x.st = "up" => l.st \in {"Running", "Stopping"} /\ l.n = n

(* Where a taken report that has not been told waits.                      *)
Owing(n) ==
    LET in(s) == IF n \in ToSet(s) THEN 1 ELSE 0 IN
    in(sup.work) + in(sup.queued) + in(sup.deliver) + in(sup.owed)
        + IF turn.then = "plan" /\ turn.n = n THEN 1 ELSE 0

(* Every end is handed to on_child_stopped at most once, and a report the  *)
(* loop took is told or waits in exactly one place (the worklist, the      *)
(* queued triggers, the deliveries under way, the owed reports of a loop   *)
(* that left): none is lost by a failing callback, an absorption, a manual *)
(* stop nobody waited for, or a respawn under the same id.                 *)
EachEndToldOnce ==
    \A n \in Tokens :
        LET x == sup.slots[n] IN
        x.told + Owing(n) = IF x.st = "drained" THEN 1 ELSE 0

(* What the ledger still owes always has a report to come that pays it: an *)
(* owed evaluation or a kept snapshot names an incarnation whose report is *)
(* in its plane, queued or in the worklist, and so does a barrier entry.   *)
(* Otherwise the group would wait, or a manual call be refused, for ever.  *)
EveryDebtIsPaid ==
    LET coming(n) == \/ sup.slots[n].st = "ended"
                     \/ n \in ToSet(sup.work) \cup ToSet(sup.queued) \cup ToSet(sup.owed)
    IN /\ \A k \in Keys : LET l == sup.life[k] IN
            l.st = "Down" /\ l.tag # None => coming(l.n)
       /\ \A n \in Tokens : sup.slots[n].snap # None => coming(n)
       /\ turn.pc # "left" => \A k \in Keys : LET n == sup.group.awaiting[k] IN
            n # 0 => sup.slots[n].st \in Open \/ n \in ToSet(sup.work)

(* The report a step of the loop takes.                                    *)
Takes(n) ==
    \/ turn.pc = "select" /\ sup.slots[n].st = "ended" /\ sup'.slots[n].st = "drained"
    \/ turn.pc = "work" /\ Head(sup.work) = n

(* README, "Manual stops are not failures: they never charge the restart   *)
(* budget": the report of an end a terminate_child took is never charged,  *)
(* whatever the group did to the child between the call and the report.    *)
ManualStopsAreFree ==
    [][sup'.budget > sup.budget => \A n \in Tokens : Takes(n) => ~sup.slots[n].released]_vars

(* A terminate_child made while a group restart pends keeps the child down *)
(* until that group is done: its key holds no later incarnation, through   *)
(* every retry of the group. Only a respawn under the id, which the group  *)
(* does not know, is a new child.                                          *)
ReleasedStaysDown ==
    [][\A k \in Keys :
         LET n == sup.group.overrides[k] IN
         n # 0 /\ sup.life[k].n = n /\ sup'.group.phase # None
           => sup'.life[k].n = n \/ sup'.life[k] = Absent]_vars

(* adopt_restart's assertion: "an attempt adopted during the stop phase    *)
(* was committed to the group".                                            *)
AdoptionWasCommitted ==
    \A n \in Tokens :
        LET k == sup.slots[n].key IN
        /\ sup.slots[n].st = "transit" /\ sup.group.phase = "Stopping"
        /\ k \in ToSet(sup.group.chain)
        => sup.group.awaiting[k] = n


(* A pending group restart ends: it restarts its members or the supervisor *)
(* leaves its loop. Every member being stopped, every barrier entry and    *)
(* every chain start is eventually settled.                                *)
GroupEnds == sup.group.phase # None ~> sup.group.phase = None \/ turn.pc = "left" \/ Exhausted

(* Every end is eventually told: no report waits behind a group, in the    *)
(* worklist or for a manual caller for ever.                               *)
EndsAreTold ==
    \A n \in 1..MaxTokens :
        (n \in Tokens /\ sup.slots[n].st = "ended")
            ~> (n \in Tokens /\ sup.slots[n].told = 1) \/ turn.pc = "left" \/ Exhausted
=============================================================================
