------------------------------ MODULE Workflows ------------------------------
(***************************************************************************)
(* The workflow registry (workflow.rs) and the executor (executor.rs).     *)
(*                                                                         *)
(* create_workflow accepts a workflow whose dependencies can be met;       *)
(* execute_workflow enters an execution and spawns a task that takes it    *)
(* from Pending through Running to its end, and itself spawns a task for   *)
(* every step of a dependency level.                                       *)
(*                                                                         *)
(* prepare_task is not implemented and fails for every step, so an         *)
(* execution never gets beyond the steps it begins with: what follows a    *)
(* prepared step in the executor is unreachable and has no action here.    *)
(* The registry is not stored; a restart empties it.                       *)
(***************************************************************************)
EXTENDS Naturals, Sequences, SequencesExt

CONSTANTS
    WorkflowIds,
    StepIds,
    Executions,     \* the ids start_execution can still give
    MaxSteps        \* bound on the steps of a workflow

ASSUME MaxStepsIsNat == MaxSteps \in Nat

Strategies == {"Sequential", "Parallel", "Dag"}
Statuses == {"Pending", "Running", "Completed", "Failed"}

Step == [id : StepIds, depends_on : SUBSET StepIds]
Workflow ==
    [steps : BoundedSeq(Step, MaxSteps), strategy : Strategies, enabled : BOOLEAN]

IdsOf(steps) == {steps[i].id : i \in DOMAIN steps}

-----------------------------------------------------------------------------
(* Validation.                                                             *)

\* The dependencies that has_circular_dependencies collects: of two steps
\* with one id the later counts.
Dependencies(steps) ==
    [s \in IdsOf(steps) |->
        LET last == CHOOSE i \in DOMAIN steps :
                        steps[i].id = s /\ \A j \in DOMAIN steps : steps[j].id = s => j <= i
        IN steps[last].depends_on]

\* wrong: a step that is done with stays on the stack
KeepsStack(steps) ==
    LET graph == Dependencies(steps)
        ids == IdsOf(steps)
        Visit[call \in [todo : SUBSET ids, visited : SUBSET ids, stack : SUBSET ids]] ==
            IF call.todo = {}
            THEN [cycle |-> FALSE, visited |-> call.visited, stack |-> call.stack]
            ELSE LET node == CHOOSE n \in call.todo : TRUE
                     here == IF node \in call.stack \/ node \in call.visited
                             THEN [cycle |-> node \in call.stack,
                                   visited |-> call.visited, stack |-> call.stack]
                             ELSE Visit[[todo |-> graph[node],
                                         visited |-> call.visited \cup {node},
                                         stack |-> call.stack \cup {node}]]
                 IN IF here.cycle THEN here
                    ELSE Visit[[todo |-> call.todo \ {node},
                                visited |-> here.visited, stack |-> here.stack]]
    IN Visit[[todo |-> ids, visited |-> {}, stack |-> {}]].cycle

\* The depth-first search, with the sets it hands from call to call: Visit is
\* has_cycle_util on one node after the other, until a cycle is found.  In
\* which order the keys and the neighbours come is open; validate_workflow
\* has seen before that every neighbour is a key.
HasCircularDependencies(steps) ==
    LET graph == Dependencies(steps)
        ids == IdsOf(steps)
        Visit[call \in [todo : SUBSET ids, visited : SUBSET ids, stack : SUBSET ids]] ==
            IF call.todo = {}
            THEN [cycle |-> FALSE, visited |-> call.visited, stack |-> call.stack]
            ELSE LET node == CHOOSE n \in call.todo : TRUE
                     below == Visit[[todo |-> graph[node],
                                     visited |-> call.visited \cup {node},
                                     stack |-> call.stack \cup {node}]]
                     here == IF node \in call.stack
                             THEN [cycle |-> TRUE,
                                   visited |-> call.visited, stack |-> call.stack]
                             ELSE IF node \in call.visited
                             THEN [cycle |-> FALSE,
                                   visited |-> call.visited, stack |-> call.stack]
                             ELSE IF below.cycle THEN below
                             ELSE [below EXCEPT !.stack = @ \ {node}]
                 IN IF here.cycle THEN here
                    ELSE Visit[[todo |-> call.todo \ {node},
                                visited |-> here.visited, stack |-> here.stack]]
    IN Visit[[todo |-> ids, visited |-> {}, stack |-> {}]].cycle

\* wrong: cycles are not looked for
ValidIfKnown(steps) ==
    \A i \in DOMAIN steps :
        /\ \A j \in DOMAIN steps : steps[i].id = steps[j].id => i = j
        /\ steps[i].depends_on \subseteq IdsOf(steps)

\* validate_workflow
Valid(steps) ==
    /\ \A i \in DOMAIN steps :
          /\ \A j \in DOMAIN steps : steps[i].id = steps[j].id => i = j
          /\ steps[i].depends_on \subseteq IdsOf(steps)
    /\ ~HasCircularDependencies(steps)

-----------------------------------------------------------------------------
(* Levels.                                                                 *)

\* wrong: a step counts as placed as soon as it is found
LevelPlacingAtOnce(steps, n) ==
    LET Placed[k \in 0 .. n] ==
            IF k = 0 THEN {}
            ELSE FoldLeft(LAMBDA placed, step :
                              IF step.depends_on \subseteq placed
                              THEN placed \cup {step.id} ELSE placed,
                          Placed[k - 1], steps)
    IN Placed[n] \ Placed[n - 1]

\* Level n of get_dependency_levels: the steps not in a level below whose
\* dependencies all are.
Level(steps, n) ==
    LET Placed[k \in 0 .. n] ==
            IF k = 0 THEN {}
            ELSE Placed[k - 1] \cup
                 {steps[i].id : i \in {i \in DOMAIN steps :
                                          steps[i].depends_on \subseteq Placed[k - 1]}}
    IN IdsOf(steps) \cap (Placed[n] \ Placed[n - 1])

\* The steps an execution begins with: the first, or the first level at once.
BeginsWith(w) ==
    IF w.strategy = "Sequential"
    THEN IF w.steps = <<>> THEN {} ELSE {w.steps[1].id}
    ELSE Level(w.steps, 1)

-----------------------------------------------------------------------------
VARIABLES
    offered,        \* what the clients send under each id; never changes
    workflows,      \* WorkflowRegistry.workflows
    refused,        \* the ids whose workflow create_workflow answered 400
    executions,     \* WorkflowRegistry.executions
    running,        \* running[e]: the steps of e inside execute_step
    failing         \* the executions one of whose steps has failed

vars == <<offered, workflows, refused, executions, running, failing>>

Ended(e) == executions[e].status \in {"Completed", "Failed"}
StepsOf(e) == workflows[executions[e].workflow].steps

\* step_results: prepare_task lets no step come to a result.
StepResults(e) == {}

Init ==
    /\ offered \in [WorkflowIds -> Workflow]
    /\ workflows = [w \in {} |-> <<>>]
    /\ refused = {}
    /\ executions = [e \in {} |-> <<>>]
    /\ running = [e \in Executions |-> {}]
    /\ failing = {}

\* create_workflow: register_workflow, or its error.  An id that is taken is
\* answered with an error too, and changes nothing.
CreateWorkflow(w) ==
    /\ w \notin DOMAIN workflows
    /\ \/ /\ Valid(offered[w].steps)
          /\ workflows' = [v \in DOMAIN workflows \cup {w} |-> offered[v]]
          /\ UNCHANGED refused
       \/ /\ ~Valid(offered[w].steps)
          /\ refused' = refused \cup {w}
          /\ UNCHANGED workflows
    /\ UNCHANGED <<offered, executions, running, failing>>

\* wrong: an execution is entered before its workflow is looked up
ExecuteUnknown(w, e) ==
    /\ w \in DOMAIN workflows => workflows[w].enabled
    /\ e \notin DOMAIN executions
    /\ executions' = [d \in DOMAIN executions \cup {e} |->
                         IF d = e THEN [workflow |-> w, status |-> "Pending"]
                         ELSE executions[d]]
    /\ UNCHANGED <<offered, workflows, refused, running, failing>>

\* execute_workflow: start_execution, and the task is spawned
ExecuteWorkflow(w, e) ==
    /\ w \in DOMAIN workflows
    /\ workflows[w].enabled
    /\ e \notin DOMAIN executions
    /\ executions' = [d \in DOMAIN executions \cup {e} |->
                         IF d = e THEN [workflow |-> w, status |-> "Pending"]
                         ELSE executions[d]]
    /\ UNCHANGED <<offered, workflows, refused, running, failing>>

SetStatus(e, status) == executions' = [executions EXCEPT ![e].status = status]

\* run_workflow up to the first calls of execute_step
RunWorkflow(e) ==
    /\ e \in DOMAIN executions
    /\ executions[e].status = "Pending"
    /\ SetStatus(e, "Running")
    /\ running' = [running EXCEPT ![e] = BeginsWith(workflows[executions[e].workflow])]
    /\ UNCHANGED <<offered, workflows, refused, failing>>

\* execute_step answers Err: no agent for the step, or prepare_task's
StepFails(e, s) ==
    /\ s \in running[e]
    /\ running' = [running EXCEPT ![e] = @ \ {s}]
    /\ failing' = failing \cup {e}
    /\ UNCHANGED <<offered, workflows, refused, executions>>

\* wrong: the first error is passed on at once
FailEarly(e) ==
    /\ e \in DOMAIN executions
    /\ executions[e].status = "Running"
    /\ e \in failing
    /\ SetStatus(e, "Failed")
    /\ UNCHANGED <<offered, workflows, refused, running, failing>>

\* wrong: only an execution that has not begun can fail
FailPending(e) ==
    /\ e \in DOMAIN executions
    /\ executions[e].status = "Pending"
    /\ e \in failing
    /\ running[e] = {}
    /\ SetStatus(e, "Failed")
    /\ UNCHANGED <<offered, workflows, refused, running, failing>>

\* All tasks of the level are joined, then the first error is passed on to
\* the spawned task, which enters it.
Fail(e) ==
    /\ e \in DOMAIN executions
    /\ executions[e].status = "Running"
    /\ e \in failing
    /\ running[e] = {}
    /\ SetStatus(e, "Failed")
    /\ UNCHANGED <<offered, workflows, refused, running, failing>>

\* wrong: the end is entered over the one the handler entered
CompleteAnyway(e) ==
    /\ e \in DOMAIN executions
    /\ executions[e].status \in {"Running", "Failed"}
    /\ running[e] = {}
    /\ SetStatus(e, "Completed")
    /\ UNCHANGED <<offered, workflows, refused, running, failing>>

\* run_workflow returns Ok: there was no step to fail.
Complete(e) ==
    /\ e \in DOMAIN executions
    /\ executions[e].status = "Running"
    /\ e \notin failing
    /\ running[e] = {}
    /\ SetStatus(e, "Completed")
    /\ UNCHANGED <<offered, workflows, refused, running, failing>>

Execute(e) ==
    RunWorkflow(e) \/ Fail(e) \/ Complete(e) \/ \E s \in StepIds : StepFails(e, s)

Next ==
    \/ \E w \in WorkflowIds :
          CreateWorkflow(w) \/ \E e \in Executions : ExecuteWorkflow(w, e)
    \/ \E e \in Executions : Execute(e)

Spec == Init /\ [][Next]_vars

\* The executor's tasks are polled; requests need not come.
FairSpec == Spec /\ \A e \in Executions : WF_vars(Execute(e))

-----------------------------------------------------------------------------
TypeOK ==
    /\ offered \in [WorkflowIds -> Workflow]
    /\ DOMAIN workflows \subseteq WorkflowIds
    /\ \A w \in DOMAIN workflows : workflows[w] = offered[w]
    /\ refused \subseteq WorkflowIds
    /\ DOMAIN executions \subseteq Executions
    /\ executions \in [DOMAIN executions -> [workflow : DOMAIN workflows, status : Statuses]]
    /\ running \in [Executions -> SUBSET StepIds]
    /\ failing \subseteq DOMAIN executions

\* The reference definition: every group of steps has one that needs none of
\* the others, and itself not.
Runnable(steps) ==
    /\ \A i, j \in DOMAIN steps : steps[i].id = steps[j].id => i = j
    /\ \A i \in DOMAIN steps : steps[i].depends_on \subseteq IdsOf(steps)
    /\ \A group \in (SUBSET DOMAIN steps) \ {{}} :
          \E i \in group : \A j \in group : steps[j].id \notin steps[i].depends_on

\* create_workflow accepts exactly the workflows whose steps can all be run
\* in some order.  At stake in the depth-first search, whose two sets outlive
\* each call.
RefusedIffNotRunnable ==
    /\ \A w \in DOMAIN workflows : Runnable(workflows[w].steps)
    /\ \A w \in refused : ~Runnable(offered[w].steps)

\* The levels of a registered workflow hold every step once, above all its
\* dependencies.  get_dependency_levels stops at the first empty level
\* without a word, so a step it cannot place would just not be run.
LevelsInOrder ==
    \A w \in DOMAIN workflows :
        LET steps == workflows[w].steps IN
        \A i \in DOMAIN steps :
            \E n \in 1 .. Len(steps) :
                /\ steps[i].id \in Level(steps, n)
                /\ \A m \in 1 .. Len(steps) : steps[i].id \in Level(steps, m) => m = n
                /\ \A d \in steps[i].depends_on : \E m \in 1 .. n - 1 : d \in Level(steps, m)

\* An execution that is reported Completed has a result of each of its steps.
\* At stake when no level could be built, or an error is not passed on.
CompletedRanAll ==
    \A e \in DOMAIN executions :
        executions[e].status = "Completed" => IdsOf(StepsOf(e)) \subseteq StepResults(e)

\* No step is still being executed for an execution that has ended: the tasks
\* of a level are joined before the first of their errors is looked at.
NoTaskLeftBehind ==
    \A e \in DOMAIN executions : Ended(e) => running[e] = {}

\* The end of an execution is final: no task that is still about sets another
\* status, and its workflow stays the one it was started for.
EndedStays ==
    [][\A e \in DOMAIN executions :
          Ended(e) => e \in DOMAIN executions' /\ executions'[e] = executions[e]]_vars

\* Every execution that was answered "started" ends, whatever its steps.
ExecutionsEnd ==
    \A e \in Executions : e \in DOMAIN executions ~> (e \in DOMAIN executions /\ Ended(e))

=============================================================================
