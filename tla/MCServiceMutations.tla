-------------------------- MODULE MCServiceMutations --------------------------
(* Jobs over services of two names with a specification of two given fields,  *)
(* so that two updates can touch different ones, a policy, and one network. *)
EXTENDS ServiceMutations

CONSTANTS r1, r2, i1, i2, web, api, img, env, policy, v0, v1, net

Full == [f \in Given |-> v1]
Only(f) == [g \in {f} |-> v1]

Upsert(may) == [op |-> "upsert", name |-> web, set |-> Full, net |-> net,
                mayUpdate |-> may]
Update(i, f, n) == [op |-> "update", ids |-> <<i>>, set |-> Only(f), net |-> n]
Batch(op, ids) == [op |-> op, ids |-> ids]

\* Two requests of any kind, batches with a repeated and a missing id.
AllJobs == {Upsert(TRUE), Upsert(FALSE),
            Update(i1, img, net), Update(i1, env, None),
            Batch("restart", <<i1, i1>>), Batch("restart", <<i2, i1>>),
            Batch("remove", <<i1>>), Batch("remove", <<i2, i1>>)}
==============================================================================
