------------------------------ MODULE Delivery ------------------------------
(***************************************************************************)
(* What the orchestrator promises to those who watch the tracker and the   *)
(* published branches, without labels, claims, checkpoints or failures:    *)
(* work is published only for Tasks whose blockers are closed and that no  *)
(* gate holds back; what is published stays published; a pull request is   *)
(* ready only when the branch holds all of its work; a Task closes only    *)
(* once its work is published under a pull request.                        *)
(***************************************************************************)
CONSTANTS
  Tasks,
  Work,        \* [branches -> the Tasks whose work belongs on the branch]
  Backlogs     \* what may be declared on the tracker, as in Sandcastle

VARIABLES
  issue,       \* [Tasks -> "open" or "closed"]
  remote,      \* [branches -> the Tasks whose work is published]
  pr,          \* [branches -> state of the pull request]
  backlog      \* what is declared, which does not change

vars == <<issue, remote, pr, backlog>>

Init ==
  /\ issue = [t \in Tasks |-> "open"]
  /\ remote = [b \in DOMAIN Work |-> {}]
  /\ pr = [b \in DOMAIN Work |-> "none"]
  /\ backlog \in Backlogs

\* The Tasks of a branch that may be worked on.
Due(b) ==
  {t \in Work[b] \ backlog.gated :
     \A u \in backlog.blockers[t] : issue[u] = "closed"}

\* Work is added to a branch that is not merged yet.
Publish(b) ==
  /\ pr[b] # "merged"
  /\ \E tree \in SUBSET Due(b) :
       /\ remote[b] \subseteq tree
       /\ remote' = [remote EXCEPT ![b] = tree]
  /\ UNCHANGED <<issue, pr, backlog>>

\* A pull request is opened for published work.
Open(b) ==
  /\ pr[b] = "none" /\ remote[b] # {}
  /\ pr' = [pr EXCEPT ![b] = "draft"]
  /\ UNCHANGED <<issue, remote, backlog>>

\* It becomes ready, or is opened ready, when nothing is missing.
MarkReady(b) ==
  /\ pr[b] \in {"none", "draft"} /\ remote[b] = Work[b]
  /\ pr' = [pr EXCEPT ![b] = "ready"]
  /\ UNCHANGED <<issue, remote, backlog>>

Merge(b) ==
  /\ pr[b] = "ready"
  /\ pr' = [pr EXCEPT ![b] = "merged"]
  /\ UNCHANGED <<issue, remote, backlog>>

Close(t) ==
  /\ issue[t] = "open"
  /\ \E b \in DOMAIN Work : t \in remote[b] /\ pr[b] # "none"
  /\ issue' = [issue EXCEPT ![t] = "closed"]
  /\ UNCHANGED <<remote, pr, backlog>>

Next ==
  \/ \E b \in DOMAIN Work : Publish(b) \/ Open(b) \/ MarkReady(b) \/ Merge(b)
  \/ \E t \in Tasks : Close(t)

Spec == Init /\ [][Next]_vars
=============================================================================
