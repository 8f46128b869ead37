----------------------------- MODULE SourceSpec -----------------------------
(***************************************************************************)
(* What Source.Request promises the workers of one process about an API    *)
(* (M101, AMAZON) that all of them reach through a single actor: each      *)
(* request ends once, with an answer to what that worker asked and not     *)
(* what another one did; or the process dies.                              *)
(***************************************************************************)
CONSTANTS Callers,         \* the workers that ask
          Tasks,           \* what they ask for
          NoAnswer,        \* the answer of a request that is still open
          IsAnswer(_, _)   \* whether an answer is one to a task

VARIABLES
  task,     \* what each caller asked for last
  open,     \* whether its request is still open
  answer,   \* the answer, once it is not
  dead      \* whether the process died

vars == << task, open, answer, dead >>

Init ==
  /\ task \in [Callers -> Tasks]
  /\ open = [c \in Callers |-> FALSE]
  /\ answer = [c \in Callers |-> NoAnswer]
  /\ dead = FALSE

Ask(c) ==
  /\ ~dead /\ ~open[c]
  /\ \E t \in Tasks : task' = [task EXCEPT ![c] = t]
  /\ open' = [open EXCEPT ![c] = TRUE]
  /\ answer' = [answer EXCEPT ![c] = NoAnswer]
  /\ UNCHANGED dead

End(c) ==
  /\ ~dead /\ open[c]
  /\ open' = [open EXCEPT ![c] = FALSE]
  /\ IsAnswer(task[c], answer'[c])
  /\ answer' = [answer EXCEPT ![c] = answer'[c]]
  /\ UNCHANGED << task, dead >>

Die ==
  /\ dead' = TRUE
  /\ UNCHANGED << task, open, answer >>

Next == Die \/ \E c \in Callers : Ask(c) \/ End(c)

Spec == Init /\ [][Next]_vars
=============================================================================
