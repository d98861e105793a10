---------------------------- MODULE GroupRestart ----------------------------
(***************************************************************************)
(* The group restarts of OneForAll and RestForOne over a Ledger state: the *)
(* commit of an evaluation, the stop queue that ends the members one at a  *)
(* time in reverse start order, the barrier that awaits their reports, and *)
(* the chain that starts them again in start order. The loops of the code  *)
(* are written as the prefix they skip and the head they act on.           *)
(***************************************************************************)
EXTENDS Ledger

Drop(s, i) == SubSeq(s, i, Len(s))

-----------------------------------------------------------------------------
(* The chain.                                                              *)

(* rules::chain_front = Fresh: the member runs on what the chain started.  *)
Fresh(S, k) == S.group.started[k] # 0 /\ S.life[k] = Running(S.group.started[k])

(* Mutant: the triggers queued behind the group stay queued.               *)
AdvanceChainUnqueued(S) ==
    LET g == S.group
        i == SelectInSeq(g.chain, LAMBDA k : S.life[k] # Absent /\ ~Fresh(S, k))
        done == { k \in ToSet(SubSeq(g.chain, 1, i - 1)) : Fresh(S, k) }
        T == [S EXCEPT !.group.chain = Drop(@, i), !.group.restarted = @ \cup done]
    IN IF i = 0 THEN [S EXCEPT !.group = NoGroup]
       ELSE IF S.life[g.chain[i]].st = "Down" THEN Initiate(T, g.chain[i], "Chain") ELSE T

(* advance_restart_chain, and the initiation its caller makes: members     *)
(* that are gone or fresh are passed; a down front is started, one running *)
(* what the chain did not start is ordered to stop, any other holds. With  *)
(* no member left the group ends and releases the queued triggers.         *)
AdvanceChain(S) ==
    LET g == S.group
        i == SelectInSeq(g.chain, LAMBDA k : S.life[k] # Absent /\ ~Fresh(S, k))
        done == { k \in ToSet(SubSeq(g.chain, 1, i - 1)) : Fresh(S, k) }
        front == g.chain[i]
        T == [S EXCEPT !.group.chain = Drop(@, i), !.group.restarted = @ \cup done]
    IN CASE i = 0 ->
              [S EXCEPT !.group = NoGroup, !.work = @ \o S.queued, !.queued = <<>>]
         [] i # 0 /\ S.life[front].st = "Down" -> Initiate(T, front, "Chain")
         [] i # 0 /\ S.life[front].st = "Running" -> Order(T, front)
         [] OTHER -> T

(* start_restart_chain.                                                    *)
StartChain(S, order, overrides, restarted, outside) ==
    AdvanceChain([S EXCEPT !.group =
        [NoGroup EXCEPT !.phase = "Restarting", !.chain = order, !.overrides = overrides,
                        !.restarted = restarted, !.outside = outside]])

-----------------------------------------------------------------------------
(* The stop phase.                                                         *)

(* queue_head: the slot counts only when it holds the awaited incarnation. *)
Counts(S, k) == S.group.awaiting[k] # 0 /\ S.life[k].n = S.group.awaiting[k]
HasVerdict(S, k) == Counts(S, k) /\ S.slots[S.life[k].n].verdict
Handled(S, k) == S.group.awaiting[k] # 0 /\ S.slots[S.group.awaiting[k]].snap # None

(* Mutant: a member that carries a verdict is not passed over.             *)
PopsNoVerdict(S, i) ==
    LET k == S.group.stopQueue[i] IN
    \/ S.group.awaiting[k] = 0
    \/ ~(i = 1 /\ S.group.reached) /\ Handled(S, k)

(* stop_queue_next = Pop for the i-th member, once those before it popped. *)
Pops(S, i) ==
    LET k == S.group.stopQueue[i] IN
    \/ S.group.awaiting[k] = 0 \/ HasVerdict(S, k)
    \/ ~(i = 1 /\ S.group.reached) /\ Handled(S, k)

(* advance_stop_queue.                                                     *)
AdvanceStopQueue(S) ==
    LET q == S.group.stopQueue
        I == { i \in 1..Len(q) : ~Pops(S, i) }
        i == Min(I)
        T == [S EXCEPT !.group.stopQueue = Drop(@, i), !.group.reached = TRUE]
    IN CASE q = <<>> \/ S.group.phase # "Stopping" -> S
         [] q # <<>> /\ I = {} -> [S EXCEPT !.group.stopQueue = <<>>, !.group.reached = FALSE]
         [] I # {} /\ i = 1 /\ S.group.reached -> S
         [] OTHER -> IF Counts(S, q[i]) /\ S.life[q[i]].st \in {"Running", "Restarting"}
                     THEN Order(T, q[i]) ELSE T

(* advance_group_stop, take_chain_order and the chain start that follows.  *)
AdvanceGroupStop(S) ==
    LET T == AdvanceStopQueue(S)
        g == T.group
    IN IF g.phase = "Stopping" /\ g.stopQueue = <<>> /\ g.awaiting = ZeroKeys
       THEN StartChain(T, SelectSeq(g.chain, LAMBDA k : g.overrides[k] = 0),
                       g.overrides, g.restarted, g.outside)
       ELSE T

(* GroupRestart::settle_awaited with the step a settled entry leads to.    *)
Settles(S, k, n) == S.group.phase = "Stopping" /\ S.group.awaiting[k] = n

Settle(S, k, n) ==
    IF Settles(S, k, n) THEN AdvanceGroupStop([S EXCEPT !.group.awaiting[k] = 0]) ELSE S

(* check_verdicts: only unresponsive members hold the group.               *)
BlockedByVerdicts(S) ==
    LET g == S.group
        entries == { k \in ToSet(S.reg) : g.awaiting[k] # 0 }
    IN \/ g.phase = "Stopping" /\ entries # {} /\ \A k \in entries : HasVerdict(S, k)
       \/ /\ g.phase = "Restarting" /\ g.chain # <<>>
          /\ LET l == S.life[Head(g.chain)] IN
             l.st = "Restarting" /\ l.n = g.started[Head(g.chain)] /\ S.slots[l.n].verdict

-----------------------------------------------------------------------------
(* The evaluation.                                                         *)

(* rules::group_commit, and retry_plan when kept holds the released keys.  *)
Commit(S, failed, kept) ==
    LET at == IF Strategy = "RestForOne" /\ failed \in ToSet(S.reg)
              THEN SelectInSeq(S.reg, LAMBDA k : k = failed) ELSE 1
        keys == Drop(S.reg, at)
        held(k) == k # failed /\ S.life[k].st # "Down"
    IN [i \in DOMAIN keys |->
          [key |-> keys[i], n |-> S.life[keys[i]].n, held |-> held(keys[i]),
           cancel |-> held(keys[i]) /\ S.life[keys[i]].st = "Restarting",
           restarts |-> RestartType[keys[i]] # "Temporary" /\ keys[i] \notin kept]]

(* absorb_records for one member: the evaluation it owes is the group's. A *)
(* report already taken is delivered now, one still to come leaves a       *)
(* snapshot; a snapshot that said Removed follows the group's restart.     *)
Absorb(S, c) ==
    LET k == c.key
        n == S.life[k].n
        removed == RestartType[k] = "Temporary"
        down(tag) == IF removed THEN RemoveSpec(S, k) ELSE Transition(S, k, Down(n, tag))
        taken == n \in ToSet(S.queued) \cup ToSet(S.work)
    IN CASE S.life[k] = Down(n, "Evaluate") /\ taken ->
              [down(None) EXCEPT !.deliver = Append(@, n),
                                 !.queued = Remove(@, n),
                                 !.work = IF n \in ToSet(S.queued) THEN @ ELSE Remove(@, n)]
         [] S.life[k] = Down(n, "Evaluate") /\ ~taken ->
              [down("Snapshot") EXCEPT
                 !.slots[n].snap = IF removed THEN "Removed" ELSE "RestartInitiated"]
         [] S.life[k].st = "Down" /\ S.life[k].tag # "Evaluate" /\ c.restarts ->
              [S EXCEPT !.slots[n].snap = IF @ = "Removed" THEN "RestartInitiated" ELSE @]
         [] OTHER -> S

AbsorbRecords(S, commit) == FoldLeft(Absorb, S, commit)

(* plan_group_stop and the phase its caller enters.                        *)
LayOut(S, commit, overrides, restarted, outside) ==
    LET held == SelectSeq(commit, LAMBDA c : c.held)
        restarts == SelectSeq(commit, LAMBDA c : c.restarts)
        keysOf(cs) == [i \in DOMAIN cs |-> cs[i].key]
        at(k) == { c \in ToSet(held) : c.key = k }
        awaiting == [k \in Keys |-> IF at(k) = {} THEN 0 ELSE (CHOOSE c \in at(k) : TRUE).n]
        cancelled == { S.life[c.key].n : c \in { c \in ToSet(held) : c.cancel } } \ {0}
        T == [S EXCEPT !.slots = [n \in DOMAIN @ |->
                IF n \in cancelled THEN [@[n] EXCEPT !.cancel = TRUE] ELSE @[n]]]
    IN IF held = <<>> THEN StartChain(T, keysOf(restarts), overrides, restarted, outside)
       ELSE AdvanceStopQueue([T EXCEPT !.group =
              [NoGroup EXCEPT !.phase = "Stopping", !.awaiting = awaiting,
                              !.stopQueue = Reverse(keysOf(held)), !.chain = keysOf(restarts),
                              !.overrides = overrides, !.restarted = restarted,
                              !.outside = outside]])

(* first_plan_outside.                                                     *)
Outside(S, failed) ==
    IF Strategy # "RestForOne" THEN {}
    ELSE { k \in ToSet(S.reg) :
             \A i, j \in DOMAIN S.reg : S.reg[i] = k /\ S.reg[j] = failed => i < j }

(* The planning half of handle_worklist's RestartGroup arm.                *)
PlanGroup(S, failed, commit) == LayOut(S, commit, ZeroKeys, {}, Outside(S, failed))

(* Mutant: a retry forgets which members a terminate_child released.       *)
RetryGroupForgetful(S, n) ==
    LET k == S.slots[n].key
        T == AbsorbRecords([S EXCEPT !.deliver = <<n>>], Commit(S, k, {}))
    IN LayOut(T, Commit(T, k, {}), T.group.overrides, T.group.restarted, T.group.outside)

(* retry_group: everything is laid out again before any callback runs.     *)
RetryGroup(S, n) ==
    LET k == S.slots[n].key
        kept(T) == { j \in Keys : T.group.overrides[j] # 0 /\ T.life[j].n = T.group.overrides[j] }
        T == AbsorbRecords([S EXCEPT !.deliver = <<n>>], Commit(S, k, kept(S)))
    IN LayOut(T, Commit(T, k, kept(T)), T.group.overrides, T.group.restarted, T.group.outside)
=============================================================================
