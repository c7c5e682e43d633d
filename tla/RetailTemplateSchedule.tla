------------------------ MODULE RetailTemplateSchedule ------------------------
(***************************************************************************)
(* One task template with its versions, the schedules that dispatch it,    *)
(* dispatches asked for by hand, and the minutely cron.  A dispatch        *)
(* creates a task, its profile and checklist, and the row of               *)
(* retail_template_dispatches whose unique idempotency key stands for all  *)
(* of them here.  A cron tick runs one transaction per due schedule in a   *)
(* goroutine of its own, so ticks may overlap; as in RetailTaskWorkflow a  *)
(* transaction reads first and commits later.                              *)
(***************************************************************************)
EXTENDS Naturals, Sequences, FiniteSets

CONSTANTS
    Schedules,      \* ids of the schedules that may ever be created, numbers
    Targets,        \* the organization units tasks are dispatched to
    NoTarget,
    Intervals,      \* intervals callers give
    CallerKeys,     \* idempotency keys callers give
    Ticks,          \* slots for cron ticks in flight
    Requests,       \* slots for HTTP requests in flight
    Isolation,      \* "ReadCommitted" or "Serializable"
    BatchLimit,     \* due schedules one tick looks up (100 in the code)
    ManualTimes,    \* times managers dispatch the template for by hand
    ScheduleEdits,  \* whether existing schedules are updated
    MaxTime,        \* bound on the clock
    MaxVersion      \* bound on the template's version

ASSUME SchedulesAssumption == Schedules \subseteq Nat
ASSUME TargetsAssumption == NoTarget \notin Targets
ASSUME SlotsAssumption == Ticks \cap Requests = {}
ASSUME IsolationAssumption == Isolation \in {"ReadCommitted", "Serializable"}
ASSUME EditsAssumption == ManualTimes \subseteq Nat /\ ScheduleEdits \in BOOLEAN
ASSUME BoundsAssumption ==
    /\ Intervals \subseteq Nat \ {0} /\ BatchLimit \in Nat \ {0}
    /\ MaxTime \in Nat /\ MaxVersion \in Nat \ {0}

VARIABLES
    now,          \* the clock
    template,     \* the retail_task_templates row
    schedule,     \* the retail_template_schedules row of each schedule
    anchor,       \* next_run_at as the latest create or update by hand left it,
                  \* kept to state the properties
    eligible,     \* schedules whose creator, project, target and assignee pass
    dispatches,   \* the retail_template_dispatches rows
    removed,      \* keys of the dispatches whose task profile was deleted
    queue,        \* schedules each cron tick has still to look at
    tx            \* the open transaction of each tick and request

data == <<template, schedule, anchor, dispatches, removed>>
vars == <<now, data, eligible, queue, tx>>

-----------------------------------------------------------------------------
(* Values *)

Time == 0..MaxTime
Slots == Ticks \cup Requests

Schedule == [state: {"none", "active", "inactive"}, target: Targets \cup {NoTarget},
             next: Nat, interval: Nat]
NoSchedule == [state |-> "none", target |-> NoTarget, next |-> 0, interval |-> 1]

ScheduleKey(s, time) == <<"schedule", s, time>>
DefaultKey(target, time) == <<"template", template.version, target, time>>

Key == {<<"schedule", s, t>> : s \in Schedules, t \in Nat}
         \cup {<<"template", v, g, t>> : v \in Nat, g \in Targets, t \in Nat}
         \cup {<<"caller", c>> : c \in CallerKeys}
Dispatch == [key: Key, version: Nat, target: Targets, time: Nat]
Keys(ds) == {d.key : d \in ds}

Idle == [op |-> "none", id |-> 0, row |-> NoSchedule, new |-> {}]

TypeOK ==
    /\ now \in Time
    /\ template \in [active: BOOLEAN, version: 1..MaxVersion]
    /\ schedule \in [Schedules -> Schedule]
    /\ anchor \in [Schedules -> Nat]
    /\ eligible \subseteq Schedules
    /\ \A d \in dispatches :
        /\ DOMAIN d = {"key", "version", "target", "time"}
        /\ d.version \in 1..template.version /\ d.target \in Targets /\ d.time \in Nat
    /\ removed \subseteq Keys(dispatches)
    /\ \A t \in Ticks : queue[t] \in Seq(Schedules)
    /\ \A p \in Slots :
        /\ tx[p].op \in {"none", "read", "run", "doomed", "dispatch", "save"}
        /\ tx[p].row \in Schedule

-----------------------------------------------------------------------------
(* Transactions *)

\* The other open transactions once t has committed: where the database is
\* serializable all they can do is fail.
Outdate(t) ==
    IF Isolation = "Serializable"
    THEN [p \in Slots |-> IF p \in Ticks /\ t[p] # Idle
                          THEN [Idle EXCEPT !.op = "doomed"] ELSE Idle]
    ELSE t

Begin(p, op, id, row, new) ==
    tx' = [tx EXCEPT ![p] = [op |-> op, id |-> id, row |-> row, new |-> new]]

Commit(p) == tx' = Outdate([tx EXCEPT ![p] = Idle])

\* The unique index on the idempotency key.
Insert(new) ==
    /\ Keys(new) \cap Keys(dispatches) = {}
    /\ dispatches' = dispatches \cup new

-----------------------------------------------------------------------------
(* DispatchRetailTaskTemplate *)

\* The dispatch of one occurrence under a key, as a set: nothing is created
\* where the key is known.
Missing(key, target, time) ==
    {d \in {[key |-> key, version |-> template.version, target |-> target,
             time |-> time]} : key \notin Keys(dispatches)}

\* A known key leads to the profile made for it, and to an error if that is gone.
Dispatchable(key) == template.active /\ key \notin removed

\* A batch of targets for one time, under their default keys or one caller key.
\* Its reads are one step: a key that turns up after its template was read only
\* makes the request write nothing for it, as the refused insertion does.
DispatchRead(r) ==
    /\ tx[r] = Idle
    /\ \E targets \in (SUBSET Targets) \ {{}}, time \in ManualTimes :
        \E key \in [targets -> {<<"caller", c>> : c \in CallerKeys}
                     \cup {DefaultKey(g, time) : g \in targets}] :
            /\ \A g \in targets : key[g] \in {DefaultKey(g, time)}
                                    \cup {<<"caller", c>> : c \in CallerKeys}
            /\ \A g, h \in targets : key[g] = key[h] => g = h
            /\ \A g \in targets : Dispatchable(key[g])
            /\ Begin(r, "dispatch", 0, NoSchedule,
                     UNION {Missing(key[g], g, time) : g \in targets})
    /\ UNCHANGED <<now, data, eligible, queue>>

DispatchCommit(r) ==
    /\ tx[r].op = "dispatch"
    /\ Insert(tx[r].new)
    /\ Commit(r)
    /\ UNCHANGED <<now, template, schedule, anchor, removed, eligible, queue>>

-----------------------------------------------------------------------------
(* The cron *)

Due(s) == schedule[s].state = "active" /\ schedule[s].next <= now
Before(s, x) ==
    \/ schedule[s].next < schedule[x].next
    \/ schedule[s].next = schedule[x].next /\ s < x

\* The first BatchLimit due schedules in the order of next_run_at and id.
Batch ==
    LET due == {s \in Schedules : Due(s)}
        Rank(s) == Cardinality({x \in due : Before(x, s)}) + 1
    IN  [i \in 1..(IF Cardinality(due) < BatchLimit THEN Cardinality(due)
                                                    ELSE BatchLimit) |->
            CHOOSE s \in due : Rank(s) = i]

TickLookup(t) ==
    /\ queue[t] = <<>> /\ tx[t] = Idle
    /\ Batch # <<>>
    /\ queue' = [queue EXCEPT ![t] = Batch]
    /\ UNCHANGED <<now, data, eligible, tx>>

\* The dispatch of an occurrence passes its checks.
MayDispatch(s, time) == s \in eligible /\ Dispatchable(ScheduleKey(s, time))

MayRun(s) == Due(s) /\ MayDispatch(s, schedule[s].next)

\* Mutant: a schedule that cannot be dispatched stays in front.
TickSkip_Stays(t) ==
    /\ \/ tx[t] = Idle /\ queue[t] # <<>> /\ ~Due(Head(queue[t]))
       \/ tx[t].op = "read" /\ ~MayDispatch(tx[t].id, tx[t].row.next)
    /\ tx' = [tx EXCEPT ![t] = Idle]
    /\ UNCHANGED <<now, data, eligible, queue>>

\* The next schedule of the tick is not due any more, or its dispatch ends with an
\* error, which is logged.
TickSkip(t) ==
    /\ \/ tx[t] = Idle /\ queue[t] # <<>> /\ ~Due(Head(queue[t]))
       \/ tx[t].op = "read" /\ ~MayDispatch(tx[t].id, tx[t].row.next)
    /\ queue' = [queue EXCEPT ![t] = Tail(@)]
    /\ tx' = [tx EXCEPT ![t] = Idle]
    /\ UNCHANGED <<now, data, eligible>>

\* Mutant: the schedule is not looked at again.
TickRead_Looked(t) ==
    /\ tx[t] = Idle /\ queue[t] # <<>>
    /\ \E s \in Schedules : s = Head(queue[t]) /\ Begin(t, "read", s, schedule[s], {})
    /\ UNCHANGED <<now, data, eligible, queue>>

\* dispatchRetailTemplateSchedule reads the schedule again.
TickRead(t) ==
    /\ tx[t] = Idle /\ queue[t] # <<>>
    /\ \E s \in Schedules :
        s = Head(queue[t]) /\ Due(s) /\ Begin(t, "read", s, schedule[s], {})
    /\ UNCHANGED <<now, data, eligible, queue>>

\* The dispatch reads the template and looks up the key of the occurrence that was
\* read; where the database is not serializable, another tick may have dispatched
\* it since, and then there is nothing to insert.
TickFind(t) ==
    LET s == tx[t].id  row == tx[t].row
    IN  /\ tx[t].op = "read"
        /\ MayDispatch(s, row.next)
        /\ Begin(t, "run", s, row,
                 Missing(ScheduleKey(s, row.next), row.target, row.next))
        /\ UNCHANGED <<now, data, eligible, queue>>

\* Mutant: the next run is counted from now.
NextRun_FromNow(row) == now + row.interval

\* nextRetailScheduleRun; the calendar is in RetailScheduleCalendar.
NextRun(row) == row.next + row.interval

\* The schedule is set to one period after the occurrence that was read, which is
\* back where other ticks have advanced it further since.
TickCommit(t) ==
    /\ tx[t].op = "run"
    /\ Insert(tx[t].new)
    /\ schedule' = [schedule EXCEPT ![tx[t].id].next = NextRun(tx[t].row)]
    /\ queue' = [queue EXCEPT ![t] = Tail(@)]
    /\ Commit(t)
    /\ UNCHANGED <<now, template, anchor, removed, eligible>>

\* Mutant: the schedule advances although its run failed.
TickFail_Advances(t) ==
    /\ tx[t].op = "run"
    /\ schedule' = [schedule EXCEPT ![tx[t].id].next = NextRun(tx[t].row)]
    /\ queue' = [queue EXCEPT ![t] = Tail(@)]
    /\ tx' = [tx EXCEPT ![t] = Idle]
    /\ UNCHANGED <<now, template, anchor, dispatches, removed, eligible>>

\* The run is rolled back: the unique index or the database refuses it, or it
\* was outdated.  The tick goes on with the next schedule.
TickFail(t) ==
    /\ tx[t].op \in {"run", "doomed"}
    /\ queue' = [queue EXCEPT ![t] = Tail(@)]
    /\ tx' = [tx EXCEPT ![t] = Idle]
    /\ UNCHANGED <<now, data, eligible>>

-----------------------------------------------------------------------------
(* RetailTemplateSchedule.Create, Update and Delete *)

\* Creating and updating validate by a preview of the first dispatch.
SaveRead(r, s) ==
    /\ tx[r] = Idle
    /\ template.active
    /\ schedule[s].state = "none" \/ ScheduleEdits
    /\ \E state \in {"active", "inactive"}, target \in Targets,
          next \in Time, interval \in Intervals :
        Begin(r, "save", s,
              [state |-> state, target |-> target, next |-> next,
               interval |-> interval], {})
    /\ UNCHANGED <<now, data, eligible, queue>>

\* Without updates all saves are of new schedules, and an id is given once.
SaveCommit(r) ==
    /\ tx[r].op = "save"
    /\ schedule[tx[r].id].state = "none" \/ ScheduleEdits
    /\ schedule' = [schedule EXCEPT ![tx[r].id] = tx[r].row]
    /\ anchor' = [anchor EXCEPT ![tx[r].id] = tx[r].row.next]
    /\ Commit(r)
    /\ UNCHANGED <<now, template, dispatches, removed, eligible, queue>>

DeleteSchedule(s) ==
    /\ schedule[s].state = "active"
    /\ schedule' = [schedule EXCEPT ![s].state = "inactive"]
    /\ tx' = Outdate(tx)
    /\ UNCHANGED <<now, template, anchor, dispatches, removed, eligible, queue>>

\* A request is rolled back.
Fail(r) ==
    /\ tx[r] # Idle
    /\ tx' = [tx EXCEPT ![r] = Idle]
    /\ UNCHANGED <<now, data, eligible, queue>>

-----------------------------------------------------------------------------
(* RetailTaskTemplate.Update and Delete *)

\* Mutant: the schedules of an inactive template stay active.
Deactivated_NoSchedules == schedule

Deactivated == [s \in Schedules |->
    IF schedule[s].state = "active" THEN [schedule[s] EXCEPT !.state = "inactive"]
                                    ELSE schedule[s]]

\* A new version each time; of two at once the unique index on (template,
\* version) refuses the second.
UpdateTemplate(active) ==
    /\ template.version < MaxVersion
    /\ template' = [active |-> active, version |-> template.version + 1]
    /\ schedule' = IF active THEN schedule ELSE Deactivated
    /\ tx' = Outdate(tx)
    /\ UNCHANGED <<now, anchor, dispatches, removed, eligible, queue>>

DeleteTemplate ==
    /\ template.active
    /\ template' = [template EXCEPT !.active = FALSE]
    /\ schedule' = Deactivated
    /\ tx' = Outdate(tx)
    /\ UNCHANGED <<now, anchor, dispatches, removed, eligible, queue>>

-----------------------------------------------------------------------------
(* What happens around the template *)

\* The profile of a dispatched task is deleted (RetailTaskProfile.Delete).
RemoveProfile ==
    /\ \E k \in Keys(dispatches) \ removed : removed' = removed \cup {k}
    /\ tx' = Outdate(tx)
    /\ UNCHANGED <<now, template, schedule, anchor, dispatches, eligible, queue>>

\* Memberships, rights or the target change so that runs of s start or cease to
\* fail.
ToggleEligible(s) ==
    /\ eligible' = IF s \in eligible THEN eligible \ {s} ELSE eligible \cup {s}
    /\ tx' = Outdate(tx)
    /\ UNCHANGED <<now, data, queue>>

Elapse ==
    /\ now < MaxTime
    /\ now' = now + 1
    /\ UNCHANGED <<data, eligible, queue, tx>>

Init ==
    /\ now = 0
    /\ template = [active |-> TRUE, version |-> 1]
    /\ schedule = [s \in Schedules |-> NoSchedule]
    /\ anchor = [s \in Schedules |-> 0]
    /\ eligible = Schedules
    /\ dispatches = {} /\ removed = {}
    /\ queue = [t \in Ticks |-> <<>>]
    /\ tx = [p \in Slots |-> Idle]

TickStep(t) ==
    \/ TickLookup(t) \/ TickSkip(t) \/ TickRead(t) \/ TickFind(t)
    \/ TickCommit(t) \/ TickFail(t)

RequestStep(r) ==
    \/ DispatchRead(r) \/ DispatchCommit(r)
    \/ \E s \in Schedules : SaveRead(r, s)
    \/ SaveCommit(r)
    \/ Fail(r)

Next ==
    \/ \E t \in Ticks : TickStep(t)
    \/ \E r \in Requests : RequestStep(r)
    \/ \E s \in Schedules : DeleteSchedule(s) \/ ToggleEligible(s)
    \/ \E active \in BOOLEAN : UpdateTemplate(active)
    \/ DeleteTemplate
    \/ RemoveProfile
    \/ Elapse

Spec == Init /\ [][Next]_vars

\* The scheduler starts a tick every minute and a tick works its list off.  A run
\* that fails is tried again by every later tick, and not all of them fail.
FairSpec ==
    /\ Spec
    /\ \A t \in Ticks : WF_vars(TickStep(t))
    /\ \A s \in Schedules : SF_vars(\E t \in Ticks : TickCommit(t) /\ tx[t].id = s)
-----------------------------------------------------------------------------
(* Properties *)

\* No occurrence of a schedule is skipped: each one between the time it was last
\* set to by hand and its next run has been dispatched, across failed and
\* overlapping ticks (dispatchRetailTemplateSchedule).
NoOccurrenceSkipped ==
    \A s \in Schedules, t \in 0..(2 * MaxTime) :
        /\ schedule[s].state # "none"
        /\ anchor[s] <= t /\ t < schedule[s].next
        /\ (t - anchor[s]) % schedule[s].interval = 0
        => ScheduleKey(s, t) \in Keys(dispatches)

\* The times a schedule is meant to run at.
Occurs(s, t) == anchor[s] <= t /\ (t - anchor[s]) % schedule[s].interval = 0

\* However ticks overlap and fail, a schedule nobody updates is dispatched once for
\* each of its occurrences in their order, none left out, none before its time
\* and always to its target, and its next run is an occurrence that has nothing
\* missing before it.  A late tick may set next_run_at back (TickCommit), but only
\* to an occurrence, where the key is found again.
SchedulesAreExact ==
    \A s \in Schedules :
        LET Dispatched(t) == ScheduleKey(s, t) \in Keys(dispatches)
        IN  schedule[s].state # "none" =>
              /\ Occurs(s, schedule[s].next)
              /\ \A d \in dispatches, t \in 0..(2 * MaxTime) :
                    d.key = ScheduleKey(s, t) =>
                        /\ Occurs(s, t) /\ d.target = schedule[s].target /\ t <= now
                        /\ \A e \in dispatches : e.key = d.key => e = d
              /\ \A t, u \in 0..(2 * MaxTime) :
                    /\ Occurs(s, t) /\ t < u
                    /\ u = schedule[s].next \/ Dispatched(u)
                    => Dispatched(t)

\* QA_PLAN.md section 3: a cancelled template generates no further tasks.  What
\* is dispatched has the template's version of that moment, the template is
\* active, and a schedule's occurrence is due and for a schedule still active.
DispatchIsCurrent ==
    [][ \A d \in dispatches' \ dispatches :
          /\ template.active /\ d.version = template.version
          /\ \A s \in Schedules :
                d.key = ScheduleKey(s, d.time) =>
                    /\ schedule[s].state = "active"
                    /\ schedule[s].next = d.time /\ d.time <= now ]_vars

\* An active schedule belongs to an active template, so that a template that is
\* activated again does not bring its old schedules back.
SchedulesFollowTemplate ==
    \A s \in Schedules : schedule[s].state = "active" => template.active

\* A schedule that stays active, eligible and due is run, other schedules that
\* keep failing notwithstanding, as long as one lookup holds them all.
DueIsDispatched ==
    \A s \in Schedules : []<>~MayRun(s)

=============================================================================
