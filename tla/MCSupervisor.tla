---------------------------- MODULE MCSupervisor ----------------------------
(* Instances of Supervisor for TLC.                                        *)
EXTENDS Supervisor

PairOrder == <<"a", "b">>
PairTypes == [a |-> "Permanent", b |-> "Transient"]

TrioOrder == <<"a", "b", "c">>
TrioTypes == [k \in {"a", "b", "c"} |-> "Permanent"]
=============================================================================
