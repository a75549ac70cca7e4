-------------------------- MODULE ExportLifecycle --------------------------
(***************************************************************************)
(* What the export service promises about the jobs of one workspace, with  *)
(* no word on how: a row that moves one way, work that is done at most     *)
(* once, and never more than Limit jobs admitted at a time, unless what    *)
(* they are counted with does not last as long as they do.                 *)
(***************************************************************************)
EXTENDS Naturals, FiniteSets

CONSTANTS Jobs, Limit

VARIABLES
    row,    \* export_jobs.status, "absent" before the INSERT
    work,   \* what is being done for the job
    lasting \* does the count last; it never changes

lifeVars == <<row, work, lasting>>

RowStates == {"absent", "queued", "processing", "done", "error"}

Busy == {j \in Jobs : work[j] \in {"admitted", "running"}}

LifeInit ==
    /\ row = [j \in Jobs |-> "absent"]
    /\ work = [j \in Jobs |-> "none"]
    /\ lasting \in BOOLEAN

\* A job is let in while fewer than Limit are.
Admit(j) ==
    /\ work[j] = "none"
    /\ lasting => Cardinality(Busy) < Limit
    /\ work' = [work EXCEPT ![j] = "admitted"]
    /\ UNCHANGED row

\* Its row appears.
Record(j) ==
    /\ work[j] = "admitted" /\ row[j] = "absent"
    /\ row' = [row EXCEPT ![j] = "queued"]
    /\ \/ UNCHANGED work
       \/ work' = [work EXCEPT ![j] = "ended"]

SetWork(S, w) == work' = [j \in Jobs |-> IF j \in S THEN w ELSE work[j]]

\* A worker takes some jobs up, each of them once.
Begin(S) ==
    /\ \A j \in S : work[j] = "admitted" /\ row[j] = "queued"
    /\ SetWork(S, "running")
    /\ UNCHANGED row

Process(j) ==
    /\ work[j] = "running" /\ row[j] = "queued"
    /\ row' = [row EXCEPT ![j] = "processing"]
    /\ UNCHANGED work

\* The verdict, which is final.
Conclude(j, verdict) ==
    /\ work[j] = "running" /\ row[j] = "processing"
    /\ row' = [row EXCEPT ![j] = verdict]
    /\ UNCHANGED work

\* Some jobs stop counting against the limit: refused, finished or given up.
End(S) ==
    /\ SetWork(S, "ended")
    /\ UNCHANGED row

LifeStep ==
    \/ \E j \in Jobs :
          \/ Admit(j) \/ Record(j) \/ Process(j)
          \/ \E v \in {"done", "error"} : Conclude(j, v)
    \/ \E S \in SUBSET Jobs : Begin(S) \/ End(S)

LifeNext == LifeStep /\ UNCHANGED lasting

LifeSpec == LifeInit /\ [][LifeNext]_lifeVars
=============================================================================
