---------------------------- MODULE JobLifecycle ----------------------------
(***************************************************************************)
(* What a deployment job promises to whoever watches its status: it is     *)
(* queued, then runs, then ends, and nothing brings an ended job back.     *)
(* An ended job may still be relabelled among the three terminal statuses  *)
(* (a cancel and the finalizer both report the end), until retention       *)
(* removes its directory.                                                  *)
(***************************************************************************)
CONSTANT Jobs
VARIABLE status

Ended == {"succeeded", "failed", "canceled"}

Init == status = [j \in Jobs |-> "absent"]

Move(j, from, to) ==
  /\ status[j] \in from
  /\ \E s \in to : status' = [status EXCEPT ![j] = s]

Accept(j)  == Move(j, {"absent"}, {"queued"})
Start(j)   == Move(j, {"queued"}, {"running"})
Reject(j)  == Move(j, {"queued"}, {"failed"})
Finish(j)  == Move(j, {"running"}, Ended)
Relabel(j) == Move(j, Ended, Ended)

\* One pass of the retention sweep may drop several ended jobs.
Expire == \E S \in SUBSET {j \in Jobs : status[j] \in Ended} :
            status' = [j \in Jobs |-> IF j \in S THEN "absent" ELSE status[j]]

Next == Expire \/ \E j \in Jobs : Accept(j) \/ Start(j) \/ Reject(j)
                                  \/ Finish(j) \/ Relabel(j)

Spec == Init /\ [][Next]_status
=============================================================================
