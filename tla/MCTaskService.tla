--------------------------- MODULE MCTaskService ---------------------------
(* One task, two requests at a time. *)
EXTENDS TaskService, TLC

CONSTANTS q1, q2, u1, w1

MCRequests == {q1, q2}
MCUsers == {u1}
MCTitles == {"old", "new"}
MCDeleteWorkers == {w1}

(* Unassigned tasks with the old title, and finished tasks. *)
MCQueries == {[title |-> "old", status |-> Nil, assignee |-> NoUser],
              [title |-> Nil, status |-> "done", assignee |-> Nil]}

(* All tasks, and the unassigned ones. *)
CollidingQueries == {[title |-> Nil, status |-> Nil, assignee |-> Nil],
                     [title |-> Nil, status |-> Nil, assignee |-> NoUser]}

Symmetry == Permutations(MCRequests)
=============================================================================
