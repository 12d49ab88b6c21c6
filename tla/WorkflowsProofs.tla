-------------------------- MODULE WorkflowsProofs --------------------------
(***************************************************************************)
(* Theorems about Workflows, for any workflows, steps and executions.      *)
(* WorkflowsLemmas has what validation and the levels compute.             *)
(***************************************************************************)
EXTENDS WorkflowsLemmas

LEMMA WorkflowTyped ==
    ASSUME NEW w \in Workflow
    PROVE  w.steps \in Seq(Step) /\ w.enabled \in BOOLEAN
  BY MaxStepsIsNat DEF Workflow, BoundedSeq, SeqOf

\* The steps an execution begins with are steps of its workflow.
LEMMA BeginsWithSteps ==
    ASSUME NEW w \in Workflow
    PROVE  BeginsWith(w) \subseteq IdsOf(w.steps)
  <1>1. w.steps \in Seq(Step)
    BY WorkflowTyped
  <1>2. CASE w.strategy = "Sequential" /\ w.steps # <<>>
    <2>1. 1 \in DOMAIN w.steps
      BY <1>1, <1>2, EmptySeq
    <2> QED BY <1>2, <2>1 DEF BeginsWith, IdsOf
  <1>3. CASE w.strategy = "Sequential" /\ w.steps = <<>>
    BY <1>3 DEF BeginsWith
  <1>4. CASE w.strategy # "Sequential"
    BY <1>4 DEF BeginsWith, Level
  <1> QED BY <1>2, <1>3, <1>4

\* Names of steps are what clients may send.
LEMMA IdsTyped ==
    ASSUME NEW steps \in Seq(Step)
    PROVE  IdsOf(steps) \subseteq StepIds
  <1>1. \A i \in DOMAIN steps : steps[i] \in Step
    OBVIOUS
  <1>2. \A s \in Step : s.id \in StepIds
    BY DEF Step
  <1> QED BY <1>1, <1>2 DEF IdsOf

-----------------------------------------------------------------------------
\* Only an execution in Running has steps being executed: run_workflow begins
\* them after it entered Running, and enters nothing else before their join.
OnlyRunningExecutes ==
    \A e \in Executions :
        running[e] # {} => e \in DOMAIN executions /\ executions[e].status = "Running"

Inv == TypeOK /\ OnlyRunningExecutes

LEMMA InvInit == Init => Inv
  <1> SUFFICES ASSUME Init PROVE Inv
    OBVIOUS
  <1>1. DOMAIN workflows = {} /\ DOMAIN executions = {}
    BY DEF Init
  <1> QED BY <1>1 DEF Init, Inv, TypeOK, OnlyRunningExecutes

\* Registering keeps the invariant.
LEMMA InvCreateWorkflow ==
    ASSUME Inv, NEW w \in WorkflowIds, CreateWorkflow(w)
    PROVE  Inv'
  <1>1. CASE Valid(offered[w].steps) /\ workflows' = [v \in DOMAIN workflows \cup {w} |-> offered[v]]
                /\ UNCHANGED refused
    BY <1>1 DEF Inv, TypeOK, OnlyRunningExecutes, CreateWorkflow
  <1>2. CASE refused' = refused \cup {w} /\ UNCHANGED workflows
    BY <1>2 DEF Inv, TypeOK, OnlyRunningExecutes, CreateWorkflow
  <1> QED BY <1>1, <1>2 DEF CreateWorkflow

\* So does entering an execution.
LEMMA InvExecuteWorkflow ==
    ASSUME Inv, NEW w \in WorkflowIds, NEW e \in Executions, ExecuteWorkflow(w, e)
    PROVE  Inv'
  <1>1. w \in DOMAIN workflows /\ e \notin DOMAIN executions
    BY DEF ExecuteWorkflow
  <1>2. executions' \in [DOMAIN executions' -> [workflow : DOMAIN workflows, status : Statuses]]
    BY <1>1 DEF Inv, TypeOK, ExecuteWorkflow, Statuses
  <1>3. TypeOK'
    BY <1>1, <1>2 DEF Inv, TypeOK, ExecuteWorkflow
  <1>4. OnlyRunningExecutes'
    BY <1>1 DEF Inv, OnlyRunningExecutes, ExecuteWorkflow
  <1> QED BY <1>3, <1>4 DEF Inv

\* Entering another status changes the status of one execution.
LEMMA StatusEntered ==
    ASSUME TypeOK, NEW e \in DOMAIN executions, NEW status \in Statuses, SetStatus(e, status)
    PROVE  /\ DOMAIN executions' = DOMAIN executions
           /\ executions' \in [DOMAIN executions -> [workflow : DOMAIN workflows, status : Statuses]]
           /\ executions'[e].status = status
           /\ \A d \in DOMAIN executions \ {e} : executions'[d] = executions[d]
  BY DEF TypeOK, SetStatus

\* So does run_workflow: the execution it gives steps to is Running.
LEMMA InvRunWorkflow ==
    ASSUME Inv, NEW e \in Executions, RunWorkflow(e)
    PROVE  Inv'
  <1>1. e \in DOMAIN executions /\ SetStatus(e, "Running") /\ "Running" \in Statuses
    BY DEF RunWorkflow, Statuses
  <1> DEFINE w == workflows[executions[e].workflow]
  <1>2. w \in Workflow
    <2>1. executions[e].workflow \in DOMAIN workflows
      BY <1>1 DEF Inv, TypeOK
    <2> QED BY <2>1 DEF Inv, TypeOK
  <1>3. BeginsWith(w) \subseteq StepIds
    BY <1>2, WorkflowTyped, BeginsWithSteps, IdsTyped
  <1>4. TypeOK'
    BY <1>1, <1>3, StatusEntered DEF Inv, TypeOK, RunWorkflow
  <1>5. OnlyRunningExecutes'
    BY <1>1, StatusEntered DEF Inv, TypeOK, OnlyRunningExecutes, RunWorkflow
  <1> QED BY <1>4, <1>5 DEF Inv

\* So does the end of a step.
LEMMA InvStepFails ==
    ASSUME Inv, NEW e \in Executions, NEW s \in StepIds, StepFails(e, s)
    PROVE  Inv'
  <1>1. e \in DOMAIN executions
    BY DEF Inv, OnlyRunningExecutes, StepFails
  <1>2. TypeOK'
    BY <1>1 DEF Inv, TypeOK, StepFails
  <1>3. OnlyRunningExecutes'
    BY DEF Inv, TypeOK, OnlyRunningExecutes, StepFails
  <1> QED BY <1>2, <1>3 DEF Inv

\* So does the end of an execution, which waits for its steps.
LEMMA InvEnds ==
    ASSUME Inv, NEW e \in Executions, Fail(e) \/ Complete(e)
    PROVE  Inv'
  <1>1. PICK status \in {"Completed", "Failed"} : SetStatus(e, status)
    BY DEF Fail, Complete
  <1>2. e \in DOMAIN executions /\ status \in Statuses /\ running[e] = {}
    BY DEF Fail, Complete, Statuses
  <1>3. UNCHANGED <<offered, workflows, refused, running, failing>>
    BY DEF Fail, Complete
  <1>4. TypeOK'
    BY <1>1, <1>2, <1>3, StatusEntered DEF Inv, TypeOK
  <1>5. OnlyRunningExecutes'
    BY <1>1, <1>2, <1>3, StatusEntered DEF Inv, OnlyRunningExecutes
  <1> QED BY <1>4, <1>5 DEF Inv

LEMMA InvStep == Inv /\ [Next]_vars => Inv'
  <1> SUFFICES ASSUME Inv, [Next]_vars PROVE Inv'
    OBVIOUS
  <1>1. CASE \E w \in WorkflowIds : CreateWorkflow(w)
    BY <1>1, InvCreateWorkflow
  <1>2. CASE \E w \in WorkflowIds : \E e \in Executions : ExecuteWorkflow(w, e)
    BY <1>2, InvExecuteWorkflow
  <1>3. CASE \E e \in Executions : RunWorkflow(e)
    BY <1>3, InvRunWorkflow
  <1>4. CASE \E e \in Executions : \E s \in StepIds : StepFails(e, s)
    BY <1>4, InvStepFails
  <1>5. CASE \E e \in Executions : Fail(e) \/ Complete(e)
    BY <1>5, InvEnds
  <1>6. CASE UNCHANGED vars
    BY <1>6 DEF Inv, TypeOK, OnlyRunningExecutes, vars
  <1> QED BY <1>1, <1>2, <1>3, <1>4, <1>5, <1>6 DEF Next, Execute

LEMMA InvAlways == Spec => []Inv
  BY InvInit, InvStep, PTL DEF Spec

-----------------------------------------------------------------------------
\* Every execution is of a registered workflow, and only steps of it are
\* executed.
THEOREM WorkflowsTyped == Spec => []TypeOK
  <1>1. Inv => TypeOK
    BY DEF Inv
  <1> QED BY <1>1, InvAlways, PTL

\* No step of an execution that has ended is still being executed, however
\* many steps a level has and in whatever order their tasks end.
THEOREM TasksJoined == Spec => []NoTaskLeftBehind
  <1>1. Inv => NoTaskLeftBehind
    BY DEF Inv, TypeOK, OnlyRunningExecutes, NoTaskLeftBehind, Ended
  <1> QED BY <1>1, InvAlways, PTL

\* The end of an execution is final, whatever else the registry does.
THEOREM EndsStay == Spec => EndedStays
  <1> DEFINE Stays == \A e \in DOMAIN executions :
                         Ended(e) => e \in DOMAIN executions' /\ executions'[e] = executions[e]
  <1>1. Inv /\ [Next]_vars => [Stays]_vars
    <2> SUFFICES ASSUME Inv, Next, NEW e \in DOMAIN executions, Ended(e)
                 PROVE  e \in DOMAIN executions' /\ executions'[e] = executions[e]
      OBVIOUS
    <2>1. e \in Executions
      BY DEF Inv, TypeOK
    <2>2. CASE \E w \in WorkflowIds : CreateWorkflow(w)
      BY <2>2 DEF CreateWorkflow
    <2>3. CASE \E w \in WorkflowIds : \E d \in Executions : ExecuteWorkflow(w, d)
      BY <2>3 DEF ExecuteWorkflow
    <2>4. CASE \E d \in Executions : RunWorkflow(d) \/ Fail(d) \/ Complete(d)
      <3>1. PICK d \in Executions : RunWorkflow(d) \/ Fail(d) \/ Complete(d)
        BY <2>4
      <3>2. executions[d].status \in {"Pending", "Running"}
        BY <3>1 DEF RunWorkflow, Fail, Complete
      <3>3. d # e
        BY <3>2 DEF Ended
      <3>4. \E status \in Statuses : d \in DOMAIN executions /\ SetStatus(d, status)
        BY <3>1 DEF RunWorkflow, Fail, Complete, Statuses
      <3> QED BY <3>3, <3>4, StatusEntered DEF Inv
    <2>5. CASE \E d \in Executions : \E s \in StepIds : StepFails(d, s)
      BY <2>5 DEF StepFails
    <2> QED BY <2>2, <2>3, <2>4, <2>5 DEF Next, Execute
  <1> QED BY <1>1, InvAlways, PTL DEF Spec, EndedStays

-----------------------------------------------------------------------------
(* What is registered, and what is run of it.                              *)

\* Registered is what has been validated.
Validated ==
    /\ \A w \in DOMAIN workflows : Valid(workflows[w].steps)
    /\ \A w \in refused : ~ Valid(offered[w].steps)

LEMMA ValidatedStep == Inv /\ Validated /\ [Next]_vars => Validated'
  <1> SUFFICES ASSUME Inv, Validated, [Next]_vars PROVE Validated'
    OBVIOUS
  <1>1. offered' = offered /\ \A w \in DOMAIN workflows : workflows[w] = offered[w]
    BY DEF Inv, TypeOK, Next, Execute, CreateWorkflow, ExecuteWorkflow, RunWorkflow,
           StepFails, Fail, Complete, vars
  <1>2. CASE \E w \in WorkflowIds : CreateWorkflow(w)
    <2>1. PICK w \in WorkflowIds : CreateWorkflow(w)
      BY <1>2
    <2>2. CASE /\ Valid(offered[w].steps)
               /\ workflows' = [v \in DOMAIN workflows \cup {w} |-> offered[v]]
               /\ UNCHANGED refused
      BY <1>1, <2>2 DEF Validated
    <2>3. CASE /\ ~ Valid(offered[w].steps)
               /\ refused' = refused \cup {w}
               /\ UNCHANGED workflows
      BY <1>1, <2>3 DEF Validated
    <2> QED BY <2>1, <2>2, <2>3 DEF CreateWorkflow
  <1>3. CASE UNCHANGED <<workflows, refused>>
    BY <1>1, <1>3 DEF Validated
  <1> QED BY <1>2, <1>3 DEF Next, Execute, ExecuteWorkflow, RunWorkflow, StepFails,
                            Fail, Complete, vars

LEMMA ValidatedAlways == Spec => []Validated
  <1>1. Init => Validated
    BY DEF Init, Validated
  <1> QED BY <1>1, ValidatedStep, InvAlways, PTL DEF Spec

LEMMA OfferedSteps == Inv => \A w \in WorkflowIds : offered[w].steps \in Seq(Step)
  BY WorkflowTyped DEF Inv, TypeOK

LEMMA RegisteredRunnable ==
    Inv /\ Validated => \A w \in DOMAIN workflows : /\ workflows[w].steps \in Seq(Step)
                                                    /\ Runnable(workflows[w].steps)
  BY OfferedSteps, ValidIsRunnable DEF Inv, TypeOK, Validated

\* create_workflow accepts exactly the workflows whose steps can all be run
\* in some order, whatever the ids, the dependencies and their number.
THEOREM OnlyRunnableAccepted == Spec => []RefusedIffNotRunnable
  <1>1. Inv /\ Validated => RefusedIffNotRunnable
    <2> SUFFICES ASSUME Inv, Validated PROVE RefusedIffNotRunnable
      OBVIOUS
    <2>1. \A w \in refused : ~ Runnable(offered[w].steps)
      BY OfferedSteps, ValidIsRunnable DEF Inv, TypeOK, Validated
    <2> QED BY <2>1, RegisteredRunnable DEF RefusedIffNotRunnable
  <1> QED BY <1>1, InvAlways, ValidatedAlways, PTL

\* The levels of a registered workflow hold every step once, above all its
\* dependencies: get_dependency_levels drops none.
THEOREM LevelsComplete == Spec => []LevelsInOrder
  <1>1. Inv /\ Validated => LevelsInOrder
    <2> SUFFICES ASSUME Inv, Validated, NEW w \in DOMAIN workflows
                 PROVE  LevelsHold(workflows[w].steps)
      BY DEF LevelsInOrder, LevelsHold
    <2> QED BY RegisteredRunnable, RunnableLevels
  <1> QED BY <1>1, InvAlways, ValidatedAlways, PTL

\* A running execution none of whose steps has failed is at the steps it began
\* with, and one that completed had none to begin with.
Begun(e) ==
    LET first == BeginsWith(workflows[executions[e].workflow])
    IN /\ executions[e].status = "Running" /\ e \notin failing => running[e] = first
       /\ executions[e].status = "Completed" => first = {}
AllBegun == \A e \in DOMAIN executions : Begun(e)

\* What an execution was begun with is looked up in a registry that only grows.
LEMMA WorkflowStays ==
    ASSUME Inv, [Next]_vars, NEW w \in DOMAIN workflows
    PROVE  workflows'[w] = workflows[w]
  <1>1. CASE \E v \in WorkflowIds : CreateWorkflow(v)
    BY <1>1 DEF Inv, TypeOK, CreateWorkflow
  <1>2. CASE UNCHANGED workflows
    BY <1>2
  <1> QED BY <1>1, <1>2 DEF Next, Execute, ExecuteWorkflow, RunWorkflow, StepFails,
                            Fail, Complete, vars

LEMMA BegunKept ==
    ASSUME Inv, AllBegun, [Next]_vars, NEW e \in DOMAIN executions,
           executions'[e] = executions[e], running'[e] = running[e], failing \subseteq failing'
    PROVE  Begun(e)'
  <1>1. executions[e].workflow \in DOMAIN workflows
    BY DEF Inv, TypeOK
  <1>2. workflows'[executions[e].workflow] = workflows[executions[e].workflow]
    BY <1>1, WorkflowStays
  <1> QED BY <1>2 DEF AllBegun, Begun

LEMMA BegunStep == Inv /\ AllBegun /\ [Next]_vars => AllBegun'
  <1> SUFFICES ASSUME Inv, AllBegun, [Next]_vars PROVE AllBegun'
    OBVIOUS
  <1>1. CASE \E w \in WorkflowIds : CreateWorkflow(w)
    BY <1>1, BegunKept DEF CreateWorkflow, AllBegun
  <1>2. CASE \E w \in WorkflowIds : \E e \in Executions : ExecuteWorkflow(w, e)
    <2>1. PICK w \in WorkflowIds, e \in Executions : ExecuteWorkflow(w, e)
      BY <1>2
    <2>2. Begun(e)'
      BY <2>1 DEF ExecuteWorkflow, Begun
    <2>3. ASSUME NEW d \in DOMAIN executions
          PROVE  Begun(d)'
      <3>1. d # e /\ executions'[d] = executions[d]
        BY <2>1 DEF ExecuteWorkflow
      <3> QED BY <2>1, <3>1, BegunKept DEF ExecuteWorkflow
    <2>4. DOMAIN executions' = DOMAIN executions \cup {e}
      BY <2>1 DEF ExecuteWorkflow
    <2> QED BY <2>2, <2>3, <2>4 DEF AllBegun
  <1>3. CASE \E e \in Executions : RunWorkflow(e)
    <2>1. PICK e \in Executions : RunWorkflow(e)
      BY <1>3
    <2>2. e \in DOMAIN executions /\ SetStatus(e, "Running") /\ "Running" \in Statuses
      BY <2>1 DEF RunWorkflow, Statuses
    <2>3. executions'[e].workflow = executions[e].workflow
      BY <2>2 DEF SetStatus, Inv, TypeOK
    <2>4. running'[e] = BeginsWith(workflows[executions[e].workflow])
      BY <2>1 DEF RunWorkflow, Inv, TypeOK
    <2>5. Begun(e)'
      BY <2>1, <2>2, <2>3, <2>4, StatusEntered DEF Begun, RunWorkflow, Inv
    <2>6. ASSUME NEW d \in DOMAIN executions, d # e
          PROVE  Begun(d)'
      <3>1. executions'[d] = executions[d]
        BY <2>2, <2>6, StatusEntered DEF Inv
      <3>2. running'[d] = running[d]
        BY <2>1, <2>6 DEF RunWorkflow, Inv, TypeOK
      <3> QED BY <2>1, <3>1, <3>2, BegunKept DEF RunWorkflow
    <2> QED BY <2>2, <2>5, <2>6, StatusEntered DEF AllBegun, Inv
  <1>4. CASE \E e \in Executions : \E s \in StepIds : StepFails(e, s)
    <2>1. PICK e \in Executions, s \in StepIds : StepFails(e, s)
      BY <1>4
    <2>2. e \in DOMAIN executions => executions[e].status = "Running" /\ e \in failing'
      BY <2>1 DEF StepFails, Inv, OnlyRunningExecutes
    <2>3. e \in DOMAIN executions => Begun(e)'
      BY <2>1, <2>2 DEF StepFails, Begun
    <2>4. ASSUME NEW d \in DOMAIN executions, d # e
          PROVE  Begun(d)'
      BY <2>1, <2>4, BegunKept DEF StepFails, Inv, TypeOK
    <2> QED BY <2>1, <2>3, <2>4 DEF AllBegun, StepFails
  <1>5. CASE \E e \in Executions : Fail(e) \/ Complete(e)
    <2>1. PICK e \in Executions : Fail(e) \/ Complete(e)
      BY <1>5
    <2>2. PICK status \in {"Completed", "Failed"} : SetStatus(e, status)
      BY <2>1 DEF Fail, Complete
    <2>3. e \in DOMAIN executions /\ status \in Statuses
      BY <2>1 DEF Fail, Complete, Statuses
    <2>4. executions'[e].workflow = executions[e].workflow /\ executions'[e].status = status
      BY <2>2, <2>3 DEF SetStatus, Inv, TypeOK
    <2>5. UNCHANGED <<workflows, running, failing>>
      BY <2>1 DEF Fail, Complete
    <2>6. Begun(e)'
      <3>1. CASE Complete(e)
        <4>1. BeginsWith(workflows[executions[e].workflow]) = {}
          BY <3>1 DEF Complete, AllBegun, Begun
        <4>2. executions'[e].status = "Completed"
          BY <2>3, <3>1, StatusEntered DEF Complete, Statuses, Inv
        <4> QED BY <2>4, <2>5, <4>1, <4>2 DEF Begun
      <3>2. CASE Fail(e)
        <4>1. executions'[e].status = "Failed"
          BY <2>3, <3>2, StatusEntered DEF Fail, Statuses, Inv
        <4> QED BY <2>4, <2>5, <4>1 DEF Begun
      <3> QED BY <2>1, <3>1, <3>2
    <2>7. ASSUME NEW d \in DOMAIN executions, d # e
          PROVE  Begun(d)'
      <3>1. executions'[d] = executions[d]
        BY <2>2, <2>3, <2>7, StatusEntered DEF Inv
      <3> QED BY <2>5, <3>1, BegunKept
    <2> QED BY <2>2, <2>3, <2>6, <2>7, StatusEntered DEF AllBegun, Inv
  <1>6. CASE UNCHANGED vars
    BY <1>6, BegunKept DEF vars, AllBegun
  <1> QED BY <1>1, <1>2, <1>3, <1>4, <1>5, <1>6 DEF Next, Execute

\* An execution that is reported Completed has a result of each of its steps:
\* as no step comes to a result, it is one of a workflow without steps.
THEOREM CompletedComplete == Spec => []CompletedRanAll
  <1>1. Init => AllBegun
    BY DEF Init, AllBegun
  <1>2. Spec => []AllBegun
    BY <1>1, BegunStep, InvAlways, PTL DEF Spec
  <1>3. Inv /\ Validated /\ AllBegun => CompletedRanAll
    <2> SUFFICES ASSUME Inv, Validated, AllBegun, NEW e \in DOMAIN executions,
                        executions[e].status = "Completed"
                 PROVE  IdsOf(StepsOf(e)) \subseteq StepResults(e)
      BY DEF CompletedRanAll
    <2>1. PICK w \in DOMAIN workflows : w = executions[e].workflow
      BY DEF Inv, TypeOK
    <2>2. workflows[w] \in Workflow /\ Runnable(workflows[w].steps)
      BY RegisteredRunnable DEF Inv, TypeOK
    <2>3. BeginsWith(workflows[w]) = {}
      BY <2>1 DEF AllBegun, Begun
    <2>4. IdsOf(workflows[w].steps) = {}
      BY <2>2, <2>3, RunnableBegins
    <2> QED BY <2>1, <2>4 DEF StepsOf
  <1> QED BY <1>2, <1>3, InvAlways, ValidatedAlways, PTL
=============================================================================
