------------------------------- MODULE BoxState -------------------------------
(***************************************************************************)
(* What lives on a deployed box and is touched from several sides: the     *)
(* agent's cron file jobs.json, the gateway service whose scheduler also   *)
(* writes it, and the copy of the jobs the scheduler holds in memory.      *)
(*                                                                         *)
(* The file is written by the agent, which is not in this repository.  Its *)
(* two readers disagree on its shape: remote-ops/cron.ts expects an object *)
(* with a field `jobs`, the dashboard's routes expect the bare list.       *)
(***************************************************************************)
EXTENDS Naturals, Sequences, FiniteSets

CONSTANTS
  Ids,       \* identities of cron jobs
  JobNames,  \* their names
  Bodies     \* all their other fields but `enabled`, taken together

ASSUME BoxAssumption == Ids # {} /\ JobNames # {} /\ Bodies # {}

VARIABLES
  jobs,      \* the file: its shape and the jobs in it
  gateway,   \* whether hermes-agent runs
  sched      \* the jobs the running scheduler has in memory

boxVars == <<jobs, gateway, sched>>

Job == [id : Ids, name : JobNames, body : Bodies, enabled : BOOLEAN]

\* "torn" is a file whose contents are not all there yet.
Shapes == {"missing", "object", "list", "torn"}

File == [shape : Shapes, list : Seq(Job)]

NoFile == [shape |-> "missing", list |-> <<>>]

BoxTypeOK ==
  /\ jobs \in File
  /\ gateway \in BOOLEAN
  /\ sched \in Seq(Job)

IdsIn(list) == {list[i].id : i \in DOMAIN list}

NamesIn(list) == {list[i].name : i \in DOMAIN list}

\* The entries of s at the positions S, in their order.
Rank(S, i) == Cardinality({j \in S : j <= i})

Picked(s, S) == [k \in 1..Cardinality(S) |-> s[CHOOSE i \in S : Rank(S, i) = k]]

-----------------------------------------------------------------------------
(* The agent's own part, external *)

\* The service starts and its scheduler takes the jobs from the file.
StartGateway ==
  /\ gateway' = TRUE
  /\ sched' = jobs.list

StopGateway == gateway' = FALSE /\ sched' = <<>>

\* The running scheduler notes a run in its own copy and writes all of it.
SchedulerSave ==
  /\ gateway
  /\ jobs.shape # "missing"
  /\ jobs' = [jobs EXCEPT !.list = sched]
  /\ UNCHANGED <<gateway, sched>>

=============================================================================
