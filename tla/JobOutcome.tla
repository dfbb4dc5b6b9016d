----------------------------- MODULE JobOutcome ------------------------------
(***************************************************************************)
(* What a job promises to whoever submitted it, whatever the rows, events  *)
(* and requests are that bring it about: it is executed at most once, or   *)
(* shelved and then never; its data is stored at most once, while it is    *)
(* executed; and its one verdict is true of the data.                      *)
(***************************************************************************)
CONSTANT Jobs

VARIABLES stage, data, verdict

ovars == <<stage, data, verdict>>

Verdicts == {"cancelled", "failed", "succeeded"}

OInit ==
  /\ stage   = [j \in Jobs |-> "none"]
  /\ data    = [j \in Jobs |-> FALSE]
  /\ verdict = [j \in Jobs |-> "none"]

Pass(j, from, to) ==
  /\ stage[j] = from
  /\ stage' = [stage EXCEPT ![j] = to]

Submit(j) == Pass(j, "none", "submitted") /\ UNCHANGED <<data, verdict>>
Shelve(j) == Pass(j, "submitted", "shelved") /\ UNCHANGED <<data, verdict>>
Start(j)  == Pass(j, "submitted", "executing") /\ UNCHANGED <<data, verdict>>
Lose(j)   == Pass(j, "executing", "lost") /\ UNCHANGED <<data, verdict>>

Store(j) ==
  /\ stage[j] = "executing"
  /\ data' = [data EXCEPT ![j] = TRUE]
  /\ UNCHANGED <<stage, verdict>>

\* Of a failure nothing is said: its data may have been stored.
Decide(j) ==
  /\ Pass(j, "executing", "decided")
  /\ \E v \in Verdicts :
       /\ v = "succeeded" => data[j]
       /\ v = "cancelled" => ~data[j]
       /\ verdict' = [verdict EXCEPT ![j] = v]
  /\ UNCHANGED data

ONext ==
  \E j \in Jobs :
    Submit(j) \/ Shelve(j) \/ Start(j) \/ Store(j) \/ Decide(j) \/ Lose(j)

OSpec == OInit /\ [][ONext]_ovars
=============================================================================
