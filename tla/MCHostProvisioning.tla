-------------------------- MODULE MCHostProvisioning --------------------------
(* A directory d, a directory e in it and a file f next to it, on two nodes. *)
EXTENDS HostProvisioning, TLC

CONSTANTS m, w, r1, e1, f1, f2, f3

D == <<"d">>
E == <<"d", "e">>
F == <<"d", "f">>
MCPaths == {D, E, F}

Disk(d, e, f, old) ==
    [entry |-> (D :> d) @@ (E :> e) @@ (F :> f),
     text |-> [p \in MCPaths |-> IF p = F THEN old ELSE <<>>]]
Fresh == Disk("none", "none", "none", <<>>)
Old == Disk("dir", "link", "file", <<"x", "x", "x">>)
Data == Disk("dir", "none", "database", <<"x">>)
Pipe == Disk("dir", "dir", "pipe", <<>>)
On(a, b) == [n \in Nodes |-> IF n = Local THEN a ELSE b]
MCDisks == {On(Fresh, Old), On(Data, Pipe), On(Pipe, Old)}

MCAsked == [i \in Items |->
    CASE i = e1 -> [path |-> E, text |-> None]
      [] i = f1 -> [path |-> F, text |-> None]
      [] i = f2 -> [path |-> F, text |-> <<"y">>]
      [] i = f3 -> [path |-> F, text |-> <<"z", "z">>]]
MCJobs == {[op |-> "folders", items |-> {e1, f1}],
           [op |-> "files", items |-> {}], [op |-> "files", items |-> {f2, f3}]}
==============================================================================
