------------------------ MODULE MCMonitoringCollection ------------------------
(* One or two services, a replica and a global configuration, one of them    *)
(* bound to a window of dates; a page of one sample.                         *)
EXTENDS MonitoringCollection

CONSTANTS s1, s2, c1, c2, a, b, r1, r2, r3

Permanent == [type |-> "permanent", interval |-> 1, scope |-> "global", holding |-> 1]
Calendar == [type |-> "calendar", interval |-> 2, scope |-> "replic",
             since |-> 1, until |-> 2]
Doc(s, o) == [service |-> ServiceId(s, 1), live |-> TRUE, status |-> "monitoring",
              options |-> o]

Empty == {[c \in Configs |-> None]}
OnePermanent == {[c \in Configs |-> IF c = c1 THEN Doc(s1, Permanent) ELSE None]}
Both == {[c \in Configs |-> IF c = c1 THEN Doc(s1, Permanent) ELSE Doc(s2, Calendar)]}

On(op, c) == [op |-> op, config |-> c]
Create(S) == [op |-> "create", services |-> S, options |-> Permanent]

Changes == {On("pause", c1), On("resume", c1), On("delete", c1)}
Creations == {Create({s1}), Create({s1, s2}), On("delete", c1)}
BothOrNone == Both \cup Empty
EveryJob == Changes \cup Creations

(* To keep it small, either two creations, one of them the first to come, and *)
(* a deletion run before there is a collector, and a service is recreated; or *)
(* one change does while the collector works, and calls fail.                 *)
MayAsk(r, ops) == req'[r].pc # "idle" => req'[r].job.op \in ops
Apart ==
    IF worker' = "off"
    THEN /\ now' = 0 /\ faults' = 0 /\ identity'[s2] = 1
         /\ MayAsk(r1, {"create"}) /\ MayAsk(r2, {"create"}) /\ MayAsk(r3, {"delete"})
         /\ req'[r2].pc # "idle" => req'[r1].pc # "idle"
    ELSE /\ identity' = [s \in Services |-> 1]
         /\ MayAsk(r1, {}) /\ MayAsk(r2, {})
MCSpec == Init /\ [][Next /\ Apart]_vars /\ Fairness
==============================================================================
