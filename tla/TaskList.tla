------------------------------ MODULE TaskList ------------------------------
(***************************************************************************)
(* DPL::TaskList of DPL::TaskDecl tasks: a job that is done step by step,  *)
(* one for each call of NextStep, whose steps may jump inside their task   *)
(* or to a later task, and that can be aborted between two steps, after    *)
(* which NextStep runs the abort steps of the tasks that are undone.       *)
(***************************************************************************)
EXTENDS Naturals, Sequences, SequencesExt, Lists

CONSTANTS
  Tasks,        \* the tasks in the order of AddTask, a sequence without repetition
  Steps,        \* Steps[t]: the steps of a task in the order of AddStep
  AbortSteps,   \* AbortSteps[t]: its abort steps in the order of AddAbortStep
  MaxSwitches   \* bounds the jumps

VARIABLES
  m_tasks,        \* the list
  m_currentTask,  \* a position in it, Len(m_tasks) + 1 for its end
  m_steps, m_nextStep, m_abortSteps,  \* of each task, the iterator as a position
  result,         \* what the last NextStep or Abort returned
  aborts,         \* ghost: the number of calls of Abort
  undo,           \* ghost: the abort steps that the first Abort has to run
  undone,         \* ghost: those that ran since
  switches

taskVars == << m_steps, m_nextStep, m_abortSteps >>
ghosts   == << aborts, undo, undone, switches >>
vars     == << m_tasks, m_currentTask, taskVars, result, ghosts >>

TaskSet == {Tasks[i] : i \in DOMAIN Tasks}

\* What the theorems about task lists assume of the constants.
IsList(s) == s \in Seq({s[i] : i \in DOMAIN s})
TaskListAssumption ==
  /\ IsList(Tasks) /\ Tasks # <<>>
  /\ \A i, j \in DOMAIN Tasks : Tasks[i] = Tasks[j] => i = j
  /\ Steps = [t \in TaskSet |-> Steps[t]] /\ AbortSteps = [t \in TaskSet |-> AbortSteps[t]]
  /\ \A t \in TaskSet : IsList(Steps[t]) /\ Steps[t] # <<>> /\ IsList(AbortSteps[t])

(* AddStep, AddAbortStep (at the front) and AddTask were called. *)
Init ==
  /\ m_tasks = Tasks
  /\ m_currentTask = 1
  /\ m_steps = Steps
  /\ m_nextStep = [t \in TaskSet |-> 1]
  /\ m_abortSteps = [t \in TaskSet |-> Reverse(AbortSteps[t])]
  /\ result = TRUE
  /\ aborts = 0 /\ undo = <<>> /\ undone = <<>> /\ switches = 0

Current == m_tasks[m_currentTask]

(* What the next step is for the ghost: the one of an aborted job undoes.  *)
Undoes ==
  undone' = IF aborts = 0 THEN undone
            ELSE Append(undone, << Current, m_steps[Current][m_nextStep[Current]] >>)

(* NextStep with a step that does not jump. *)
NextStep ==
  LET next == m_nextStep[Current] + 1
  IN  /\ result /\ m_currentTask <= Len(m_tasks)
      /\ m_nextStep[Current] <= Len(m_steps[Current])
      /\ Undoes
      /\ m_nextStep' = [m_nextStep EXCEPT ![Current] = next]
      /\ IF next <= Len(m_steps[Current])
         THEN result' = TRUE /\ UNCHANGED m_currentTask
         ELSE /\ m_currentTask' = m_currentTask + 1
              /\ result' = (m_currentTask' <= Len(m_tasks))
      /\ UNCHANGED << m_tasks, m_steps, m_abortSteps, aborts, undo, switches >>

(* NextStep with a step that calls SwitchToStep. *)
SwitchToStep(i) ==
  /\ result /\ m_currentTask <= Len(m_tasks) /\ aborts = 0
  /\ switches < MaxSwitches
  /\ i \in DOMAIN m_steps[Current]
  /\ m_nextStep' = [m_nextStep EXCEPT ![Current] = i]
  /\ switches' = switches + 1
  /\ UNCHANGED << m_tasks, m_currentTask, m_steps, m_abortSteps, result, aborts, undo, undone >>

(* NextStep with a step that calls SwitchToTask, to a task not begun yet:  *)
(* the task that is left has gone on one step all the same.                *)
SwitchToTask(t) ==
  /\ result /\ m_currentTask <= Len(m_tasks) /\ aborts = 0
  /\ switches < MaxSwitches
  /\ \E i \in DOMAIN m_tasks :
       /\ m_tasks[i] = t /\ i > m_currentTask
       /\ m_currentTask' = i
  /\ m_nextStep' = [m_nextStep EXCEPT ![Current] = @ + 1]
  /\ switches' = switches + 1
  /\ UNCHANGED << m_tasks, m_steps, m_abortSteps, result, aborts, undo, undone >>

(* Task::Abort of every task that is still in the list. *)
AbortTasks(kept) ==
  LET tasks == {kept[i] : i \in DOMAIN kept}
      Aborted(t) == t \in tasks /\ m_abortSteps[t] # <<>>
  IN  /\ m_tasks' = Kept(kept, {t \in TaskSet : m_abortSteps[t] # <<>>})
      /\ m_steps' = [t \in TaskSet |-> IF Aborted(t) THEN m_abortSteps[t]
                                       ELSE IF t \in tasks THEN <<>> ELSE m_steps[t]]
      /\ m_nextStep' = [t \in TaskSet |-> IF t \in tasks THEN 1 ELSE m_nextStep[t]]
      /\ m_abortSteps' = [t \in TaskSet |-> IF t \in tasks THEN <<>> ELSE m_abortSteps[t]]

(* The steps that undo the tasks before the current one, the last first. *)
UndoSteps ==
  Joined([k \in 1 .. m_currentTask - 1 |->
            LET t == m_tasks[m_currentTask - k]
            IN  [i \in DOMAIN m_abortSteps[t] |-> << t, m_abortSteps[t][i] >>]])

(* Mutant: the tasks are undone in the order they were done. *)
AbortForwards ==
  /\ aborts < 2
  /\ AbortTasks(SubSeq(m_tasks, 1, m_currentTask - 1))
  /\ m_currentTask' = 1
  /\ result' = (m_tasks' # <<>>)
  /\ aborts' = aborts + 1
  /\ undo' = IF aborts = 0 THEN UndoSteps ELSE undone
  /\ UNCHANGED << undone, switches >>

(* The current task and those after it leave the list (nobody deletes      *)
(* them); the others are undone in the opposite order.  An abort that is   *)
(* aborted itself has no abort steps left.                                 *)
Abort ==
  /\ aborts < 2
  /\ AbortTasks(Reverse(SubSeq(m_tasks, 1, m_currentTask - 1)))
  /\ m_currentTask' = 1
  /\ result' = (m_tasks' # <<>>)
  /\ aborts' = aborts + 1
  /\ undo' = IF aborts = 0 THEN UndoSteps ELSE undone
  /\ UNCHANGED << undone, switches >>

Next ==
  \/ NextStep
  \/ \E t \in TaskSet : SwitchToTask(t)
  \/ \E i \in 1 .. Len(Steps[Tasks[1]]) : SwitchToStep(i)
  \/ Abort

Spec == Init /\ [][Next]_vars

-----------------------------------------------------------------------------
(* "Task list is empty or all tasks done", "Step list is empty or all      *)
(* steps done": as long as NextStep and Abort return true there is a task  *)
(* and a step of it for the next NextStep, whatever the steps jump to.     *)
StepIsThere ==
  result => /\ m_currentTask <= Len(m_tasks)
            /\ m_nextStep[Current] <= Len(m_steps[Current])

(* After Abort the abort steps of the tasks before the current one run,    *)
(* also of those that were jumped over: of the last task first and of each *)
(* the last added first, each once; and when NextStep returns false they   *)
(* have all run.                                                           *)
AbortUndoesDone ==
  /\ IsPrefix(undone, undo)
  /\ aborts > 0 /\ ~ result => undone = undo
=============================================================================
