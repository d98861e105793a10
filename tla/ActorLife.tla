----------------------------- MODULE ActorLife ------------------------------
(***************************************************************************)
(* What the rest of the system may rely on about one incarnation, without  *)
(* its task: what its status plane, its name, its start ack and the answer *)
(* of its failed request show, in which order, and how an accepted Kill    *)
(* binds them. ActorRun implements it.                                     *)
(***************************************************************************)
EXTENDS StopReasons

VARIABLES plane,   \* status, final reason, closed
          ack,     \* the start ack
          named,   \* the name is registered
          held,    \* the answer of a request whose handler failed
          killTold \* a caller was told its Kill is accepted

vars == <<plane, ack, named, held, killTold>>

Position(status) ==
    CASE status = "Initializing" -> 0
      [] status = "Running" -> 1
      [] status = "Stopping" -> 2
      [] status = "Stopped" -> 3

Init ==
    /\ plane = [status |-> "Initializing", reason |-> None, closed |-> FALSE]
    /\ ack = "waiting" /\ named = TRUE /\ held = "none" /\ killTold = FALSE

(* The status only advances, and while the name is held it never reads     *)
(* Stopped.                                                                *)
Advance(status) ==
    /\ plane.reason = None /\ ~plane.closed
    /\ status \in {"Running", "Stopping"}
    /\ Position(plane.status) < Position(status)
    /\ plane' = [plane EXCEPT !.status = status]
    /\ UNCHANGED <<ack, named, held, killTold>>

(* A start is acknowledged once the plane reads Running.                   *)
Started ==
    /\ ack = "waiting" /\ plane.status = "Running" /\ named
    /\ ack' = "ok"
    /\ UNCHANGED <<plane, named, held, killTold>>

(* A failed start is answered with its error only once the name is free,   *)
(* the error is the final reason, and no Kill was accepted.                *)
StartFailed ==
    /\ ack = "waiting" /\ ~named /\ plane.reason = "Failure" /\ ~killTold
    /\ ack' = "err"
    /\ UNCHANGED <<plane, named, held, killTold>>

(* An unanswered ack: the spawner reads the plane instead, which reads     *)
(* Kill unless it still reads nothing.                                     *)
StartCut ==
    /\ ack = "waiting" /\ plane.reason \in {None, "Kill"}
    /\ ack' = "dropped"
    /\ UNCHANGED <<plane, named, held, killTold>>

(* A handler fails: its answer waits.                                      *)
HoldAnswer ==
    /\ held = "none" /\ plane.status = "Running" /\ plane.reason = None /\ named
    /\ held' = "held"
    /\ UNCHANGED <<plane, ack, named, killTold>>

(* The answer goes out only when the name is free and no Kill was accepted.*)
AnswerRequest ==
    /\ held = "held" /\ ~named /\ ~killTold /\ plane.reason = None
    /\ held' = "sent"
    /\ UNCHANGED <<plane, ack, named, killTold>>

DropAnswer ==
    /\ held = "held" /\ plane.reason = None
    /\ held' = "dropped"
    /\ UNCHANGED <<plane, ack, named, killTold>>

(* A Kill is accepted only while nothing that contradicts it was told.     *)
AcceptKill ==
    /\ plane.reason \in {None, "Kill"} /\ held # "sent" /\ ack # "err"
    /\ ~plane.closed
    /\ killTold' = TRUE
    /\ UNCHANGED <<plane, ack, named, held>>

FreeName ==
    /\ named /\ plane.status # "Stopped" /\ ~plane.closed
    /\ named' = FALSE
    /\ UNCHANGED <<plane, ack, held, killTold>>

(* The reason is written once, after the name is free; only a task that    *)
(* never ran has it written earlier. An accepted Kill is the reason, and   *)
(* an answered request or start excludes it.                               *)
Finish(r) ==
    /\ plane.reason = None /\ ~plane.closed /\ held # "held"
    /\ named => r = "Kill" /\ plane.status = "Initializing" /\ ack = "waiting"
    /\ killTold => r = "Kill"
    /\ r = "Kill" => held # "sent" /\ ack # "err"
    /\ plane' = [plane EXCEPT !.reason = r]
    /\ UNCHANGED <<ack, named, held, killTold>>

(* Stopped is published after the reason, with every answer out.           *)
Stop ==
    /\ plane.reason # None /\ ~named /\ ack # "waiting" /\ held # "held"
    /\ plane' = [plane EXCEPT !.status = "Stopped"]
    /\ UNCHANGED <<ack, named, held, killTold>>

(* The plane closes once the name is free and the reason is written.       *)
Close ==
    /\ plane.reason # None /\ ~named /\ held # "held"
    /\ plane' = [plane EXCEPT !.closed = TRUE]
    /\ UNCHANGED <<ack, named, held, killTold>>

Next ==
    \/ \E status \in {"Running", "Stopping"} : Advance(status)
    \/ Started \/ StartFailed \/ StartCut
    \/ HoldAnswer \/ AnswerRequest \/ DropAnswer
    \/ AcceptKill \/ FreeName
    \/ \E r \in Reasons : Finish(r)
    \/ Stop \/ Close

Spec == Init /\ [][Next]_vars
=============================================================================
