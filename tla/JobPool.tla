------------------------------ MODULE JobPool ------------------------------
(***************************************************************************)
(* What a thread pool promises about the jobs given to it: each is run at  *)
(* most once, each accepted while the pool was open is run, and the pool   *)
(* is gone only when those are done.  A job handed over during the         *)
(* shutdown may or may not be run.                                         *)
(***************************************************************************)
CONSTANT Jobs

VARIABLES job,    \* job[j]: how far job j has come
          pool    \* "open", "closing", "gone"

jobPoolVars == <<job, pool>>

Init == /\ job = [j \in Jobs |-> "new"]
        /\ pool = "open"

Accept(j) == /\ pool # "gone"
             /\ job[j] = "new"
             /\ job' = [job EXCEPT ![j] = IF pool = "open" THEN "accepted" ELSE "late"]
             /\ UNCHANGED pool

Run(j) == /\ pool # "gone"
          /\ job[j] \in {"accepted", "late"}
          /\ job' = [job EXCEPT ![j] = "running"]
          /\ UNCHANGED pool

Complete(j) == /\ job[j] = "running"
               /\ job' = [job EXCEPT ![j] = "done"]
               /\ UNCHANGED pool

StartClosing == /\ pool = "open"
                /\ pool' = "closing"
                /\ UNCHANGED job

Close == /\ pool = "closing"
         /\ \A j \in Jobs : job[j] \notin {"accepted", "running"}
         /\ pool' = "gone"
         /\ UNCHANGED job

Next == \/ \E j \in Jobs : Accept(j) \/ Run(j) \/ Complete(j)
        \/ StartClosing
        \/ Close

\* An accepted job is run and completed.
Served(j) == job[j] \in {"accepted", "running"} ~> job[j] = "done"

SafeSpec == Init /\ [][Next]_jobPoolVars

Spec == /\ SafeSpec
        /\ \A j \in Jobs : Served(j)
=============================================================================
