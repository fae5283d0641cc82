----------------------------- MODULE TrainingPlans -----------------------------
(* A training plan: drafted by rule from a pool of candidates or from a validated *)
(* model answer, then adopted, rescheduled and checked off. A request that does  *)
(* not show the stored plan's content hash changes nothing and is left out.      *)
EXTENDS Naturals, FiniteSets, SequencesExt

CONSTANTS Horizon,       \* days of the plan
          Budget,        \* minutes per day
          MaxTasks,      \* tasks per day a draft may hold
          MaxPool        \* bound: candidates

ASSUME TrainingAssumption == {Horizon, Budget, MaxTasks, MaxPool} \subseteq Nat

VARIABLES
    pool,     \* estimated minutes of the candidates not scheduled yet, best first
    day,      \* the day the rule is filling; above Horizon once the draft is complete
    plan      \* the plan: its tasks, in order, its unmet minutes per day and its status

planningVars == <<pool, day, plan>>

Days == 1..Horizon
Minutes == 1..(Budget + 1)
Tasks == [day : Days, minutes : 1..Budget, status : {"planned", "done", "skipped"}]

PlanStateOK ==
    /\ pool \in BoundedSeq(Minutes, MaxPool)
    /\ day \in 1..(Horizon + 1)
    /\ plan \in [tasks : BoundedSeq(Tasks, MaxPool), unmet : [Days -> 0..Budget],
                 status : {"building", "draft", "adopted"}, source : {"rule", "model"}]

\* Any pool: validated, without duplicates, by priority.
PlanningInit ==
    /\ pool \in BoundedSeq(Minutes, MaxPool)
    /\ day = 1
    /\ plan = [tasks |-> <<>>, unmet |-> [d \in Days |-> 0], status |-> "building", source |-> "rule"]

-----------------------------------------------------------------------------

OnDay(tasks, d) == {i \in DOMAIN tasks : tasks[i].day = d}

\* The minutes planned on a day, counted one by one.
Planned(tasks, d) == Cardinality(UNION {{i} \X (1..tasks[i].minutes) : i \in OnDay(tasks, d)})

\* Defect: only the best candidate is tried in what is left of a day.
BestOnly(left) == {i \in DOMAIN pool : i = 1 /\ pool[i] <= left}

\* Defect: a candidate is compared with the budget of the whole day.
FirstFitOfBudget(left) ==
    {i \in DOMAIN pool : pool[i] <= Budget /\ \A j \in 1..(i - 1) : pool[j] > Budget}

\* The best candidate that fits into what is left of a day.
FirstFit(left) ==
    {i \in DOMAIN pool : pool[i] <= left /\ \A j \in 1..(i - 1) : pool[j] > left}

DayHasRoom == Cardinality(OnDay(plan.tasks, day)) < MaxTasks
Left == Budget - Planned(plan.tasks, day)

Building == plan.status = "building" /\ pool \o plan.tasks # <<>>

\* A candidate leaves the pool when it is scheduled: none is scheduled twice.
ScheduleTask ==
    /\ Building /\ day <= Horizon /\ DayHasRoom
    /\ \E i \in FirstFit(Left) :
          /\ plan' = [plan EXCEPT !.tasks = Append(@, [day |-> day, minutes |-> pool[i], status |-> "planned"])]
          /\ pool' = RemoveAt(pool, i)
    /\ UNCHANGED day

\* The day is full, or nothing fits any more: what is left of it is reported as unmet.
EndDay ==
    /\ Building /\ day <= Horizon
    /\ ~DayHasRoom \/ FirstFit(Left) = {}
    /\ plan' = [plan EXCEPT !.unmet[day] = Left]
    /\ day' = day + 1
    /\ UNCHANGED pool

EndDraft ==
    /\ Building /\ day > Horizon
    /\ plan' = [plan EXCEPT !.status = "draft"]
    /\ UNCHANGED <<pool, day>>

\* Defect: a day that lost its last task is left as it was.
UnmetOfUsedDays(tasks, d) ==
    IF OnDay(tasks, d) = {} THEN plan.unmet[d] ELSE Budget - Planned(tasks, d)

\* What is left of the budget of a day.
Unmet(tasks, d) == Budget - Planned(tasks, d)

Recalculated(tasks) == [d \in Days |-> Unmet(tasks, d)]

Fits(tasks) == \A d \in Days : Planned(tasks, d) <= Budget

\* A model's answer is taken if it schedules candidates of the pool at most once, within
\* the days, the minutes and the tasks a day has.
AcceptModelPlan(tasks) ==
    /\ plan.status = "building" /\ plan.tasks = <<>> /\ day = 1
    /\ tasks # <<>> /\ Len(tasks) <= Len(pool)
    /\ \A i \in DOMAIN tasks : tasks[i].status = "planned"
    /\ \A i, j \in DOMAIN tasks : i < j => tasks[i].day <= tasks[j].day
    /\ Fits(tasks) /\ \A d \in Days : Cardinality(OnDay(tasks, d)) <= MaxTasks
    /\ plan' = [tasks |-> tasks, unmet |-> Recalculated(tasks), status |-> "draft", source |-> "model"]
    /\ day' = Horizon + 1
    /\ pool' = <<>>

-----------------------------------------------------------------------------

\* A plan without a task cannot be adopted.
AdoptPlan ==
    /\ plan.status = "draft" /\ plan.tasks # <<>>
    /\ plan' = [plan EXCEPT !.status = "adopted"]
    /\ UNCHANGED <<pool, day>>

\* Defect: any task can be rescheduled.
EditableAlways(task) == TRUE

\* Only a task nobody has checked off can be rescheduled.
Editable(task) == task.status = "planned"

EditPlanTask(i, d, minutes) ==
    LET tasks == [plan.tasks EXCEPT ![i].day = d, ![i].minutes = minutes]
    IN  /\ plan.status # "building"
        /\ Editable(plan.tasks[i])
        /\ Fits(tasks)
        /\ plan' = [plan EXCEPT !.tasks = tasks, !.unmet = Recalculated(tasks)]
        /\ UNCHANGED <<pool, day>>

\* The user may correct a check, and never takes it back.
CheckOffTask(i, status) ==
    /\ plan.status = "adopted"
    /\ plan.tasks[i].status # status
    /\ plan' = [plan EXCEPT !.tasks[i].status = status]
    /\ UNCHANGED <<pool, day>>

PlanningNext ==
    \/ ScheduleTask \/ EndDay \/ EndDraft \/ AdoptPlan
    \/ \E tasks \in BoundedSeq(Tasks, MaxPool) : AcceptModelPlan(tasks)
    \/ \E i \in DOMAIN plan.tasks :
          \/ \E d \in Days, minutes \in 1..Budget : EditPlanTask(i, d, minutes)
          \/ \E status \in {"done", "skipped"} : CheckOffTask(i, status)

-----------------------------------------------------------------------------

\* What a plan says of a day is true, however its tasks were moved: the planned and the
\* unmet minutes make up the budget, and none of it is exceeded.
DaysAddUp ==
    plan.status # "building" => \A d \in Days : Planned(plan.tasks, d) + plan.unmet[d] = Budget

\* A drafted day leaves minutes unmet only if no candidate that is left would fit.
NoAvoidableGap ==
    plan.status = "building" =>
        \A d \in 1..(day - 1) :
            \/ Cardinality(OnDay(plan.tasks, d)) >= MaxTasks
            \/ \A i \in DOMAIN pool : pool[i] > plan.unmet[d]

\* A checked-off task stays as it was scheduled and stays checked off, and a plan that was
\* adopted stays adopted.
RecordsStayTrue ==
    [][/\ plan.status = "adopted" => plan'.status = "adopted"
       /\ \A i \in DOMAIN plan.tasks :
             plan.tasks[i].status # "planned" =>
                /\ plan'.tasks[i].status # "planned"
                /\ plan'.tasks[i] = [plan.tasks[i] EXCEPT !.status = plan'.tasks[i].status]]_planningVars

=============================================================================
