# A verified model of the retail task system

The repository is a fork of Vikunja, a to-do application written in Go with a
Vue client. What the fork adds, and what its documents
(`docs/product/PRD.md`, `docs/engineering/ARCHITECTURE.md`,
`docs/engineering/QA_PLAN.md`) make promises about, is the *retail task system*:
tasks of shops and warehouses that are assigned, worked on, submitted with
evidence, reviewed and escalated, and the organization that decides who may do
what. This directory models that part in TLA+, and of the application below it
the parts that keep state between requests: a browser's session, the connection
that updates the page, and the positions of tasks in a list. It checks the models
with TLC and proves the most important results with TLAPS.

## 1. The system

One server process answers HTTP requests and runs cron jobs. Every request, and
every run of a job, opens a database session, reads, decides, writes and commits
(`pkg/web/handler/core.go`, `pkg/routes/api/v2/retail_task_workflow.go`). There
are no locks in the application. Components meet in the database, and the server
meets the page in HTTP answers, cookies and one WebSocket.

| Component | State it keeps | Operations that change it | Where |
|---|---|---|---|
| Task workflow | `retail_task_profiles`, `retail_checklist_items`, `retail_submissions` and files, `retail_reviews`, `retail_task_transitions`, `tasks.done` | create, update and delete a profile; start, tick, submit, review, cancel; checklist edits | `retail_task_workflow.go`, `retail_task_profiles.go`, `retail_checklist_items.go` |
| Organization and memberships | `retail_org_units`, `retail_memberships`, `team_members` | create and delete units; create, update and delete memberships; expiry cron; account deletion | `retail_org_units.go`, `retail_memberships.go`, `retail_membership_cron.go` |
| Templates and schedules | `retail_task_templates`, `retail_template_versions`, `retail_template_schedules`, `retail_template_dispatches` | edit and delete templates and schedules; dispatch by hand; schedule cron | `retail_task_templates.go`, `retail_template_schedules.go`, `retail_template_schedule_cron.go` |
| Schedule calendar | `next_run_at`, `anchor_day` | `nextRetailScheduleRun` | `retail_template_schedules.go` |
| Escalation | `retail_notification_deliveries`, `notifications` | escalation cron | `retail_escalation_cron.go` |
| Sessions and tokens | session rows; cookie jar and local storage of a browser; token, epoch and shared refresh of each tab | refresh on a timer, on focus, on navigation, after a refused request; logout, login | `sessions.go`, `helpers/auth.ts`, `stores/auth.ts`, `helpers/fetcher.ts` |
| Live updates | server connections and subscriptions; the page's socket, timer and callbacks; the notifications list | connect, authenticate, subscribe, push, close, reconnect, load, poll | `pkg/websocket`, `useWebSocket.ts`, `Notifications.vue` |
| Positions | `task_positions`; the list a page shows | drag, conflict resolution, recalculation, opening a saved filter | `task_position.go`, `calculateItemPosition.ts`, `ProjectList.vue` |
| Workload, capacity | `retail_staff_capacity` | set the capacity of a day | `retail_staff_workload.go` |
| Dashboard | none | none (aggregation) | `retail_dashboard.go` |
| The rest of Vikunja | tasks, projects, teams, users, files ... | see `components` in `PROJECT.json` | `pkg/`, `frontend/`, `veans/`, `desktop/` |

How they interact: membership decides access (`inheritedAccess`,
`isActiveRetailMember`) in every other retail component; schedules dispatch
templates, which creates a task, its profile and its checklist; the workflow writes
the done flag of the upstream task, and the generic task API writes it too;
escalation reads profiles, due dates, memberships and teams and creates the
notifications that live updates carry to the page; live updates need the token that
the session renews; account deletion removes team rows and leaves memberships.

What is hard about it:

* **Check, then act.** All guards are plain reads, and all updates go by primary
  key (`UPDATE ... WHERE id = ?`). What stands between two requests that read the
  same status is the database alone. SQLite in WAL mode (the default) refuses the
  write of a transaction whose snapshot another commit has outdated; PostgreSQL and
  MySQL at their default levels do not.
* **Cron jobs.** `robfig/cron` starts each job in a goroutine of its own every
  minute, also while the last run of it is still busy.
* **Two tables for one fact**: memberships and team rows; profile status and the
  done flag; dispatch rows and schedules; notifications and deliveries.
* **Dates** at the ends of months.
* **Tabs.** All tabs of a browser share a cookie whose refresh token is good for
  one use, and each has a token, timers and promises of its own.
* **Late answers.** A refresh, a load of the list or a close handler may end after
  the sign-out, the mount or the socket it belonged to is gone.
* **Row locks.** A drag writes a row before it may have to lock the view.
* **Numbers that run out** between two positions.

What makes each component correct is listed in section 4; the `hazards` of
`PROJECT.json` name the lines where it can go wrong.

## 2. The databases

`RetailTaskWorkflow`, `RetailMembership` and `RetailTemplateSchedule` share one
way of modelling a transaction. A request is a `...Read` action, which evaluates
the guards and remembers in `tx` what it read (or is going to write), and a
`...Commit` action, which writes. Anything may happen in between. `Rollback`
(`Fail`, `TickFail`) is the error path: a failing late guard, a database error
or a conflict. The constant `Isolation` selects the database:

* `"Serializable"`: a commit outdates every other open transaction
  (`Outdate`), which can then only fail. This is SQLite's
  `SQLITE_BUSY_SNAPSHOT` (`pkg/db/db.go` opens it with `_journal_mode=WAL`, and a
  transaction takes its snapshot with its first read).
* `"ReadCommitted"`: a commit goes through whatever was committed since. Unique
  indexes still refuse duplicates. Later reads of the same transaction see newer
  rows, which is why `SubmitRetailTask` has a third action, `SubmitCheck`, and
  a schedule's run two reads, of the schedule (`TickRead`) and of its key (`TickFind`).

`RetailEscalation` and `TaskPositions` go down to the statement, because what they
are about happens between two statements of a transaction: a tick reads and writes
escalation by escalation and its insert waits for the same unique key in another
tick, a drag waits for rows and for the view. Both take part in deadlocks, which
the database ends by undoing one of the transactions.
`RetailEscalation` runs on either kind of database (`Isolations`), `TaskPositions`
on ReadCommitted, of which a single writer as in SQLite is a special case.

Requests with a single read next to their write (deleting a profile, editing a
checklist item) are one atomic action.

## 3. Modules

* **RetailTaskWorkflow**: one profile from creation to removal. `profile` is the
  row, with the status `"none"` before and `"deleted"` after its life;
  `submissions`, `reviews`, `history` are the rows of the three tables in order;
  `checklist`, `required`, `attachment` the state of items and files; `done`,
  `trashed` the underlying task; `members`, `admins` the outcome of the access
  functions; `tx` the requests in flight. `drifted` is a history variable: a
  generic edit has changed `done` since the workflow set it.
* **RetailTaskLifecycle**: the abstract specification, the state machine of
  ARCHITECTURE.md section 4 plus the cancellations the code allows, with atomic
  steps and no requests. `RetailTaskWorkflow!RefinesLifecycle` maps `status` to
  `profile.status`, `submitted` to the number of submissions and `verdicts` to the
  decisions of the reviews.
* **RetailMembership**: units below fixed parents, the membership row and the team
  role of each user in each unit, the expiry cron as one more transaction, account
  deletion, and the passing of time as the end of a temporary membership. The team
  of a unit is changed by no other code: the generic team handlers refuse teams of
  units (`isManagedByRetailOrg`).
* **RetailTemplateSchedule**: one template, its schedules, dispatches by hand and
  overlapping cron ticks. A dispatch row stands for the task, profile and checklist
  created with it. `removed` are the keys whose profile was deleted since: such a
  key makes every later dispatch under it fail. `eligible` stands for the checks of
  `prepareRetailTemplateDispatch` on rights and target; `anchor` is a history
  variable, the time a schedule was last set to by hand. A tick that reads its schedule,
  is overtaken and then finds its key in the table (`Reused`) writes nothing but the
  next run, one period after the one it read: it sets `next_run_at` back.
* **RetailScheduleCalendar**: the dates themselves, months with their lengths and
  the anchor day. RetailTemplateSchedule counts periods instead.
* **RetailEscalation**: ticks that look the overdue tasks up, work out the
  recipients at each level (`retailEscalationRecipients`), and for each escalation
  without a delivery row insert a notification and the row. Around them the rest of
  the program edits tasks, people and accounts, and the server crashes. `notified`
  counts notifications per escalation, so that a second one would show.
* **RetailEscalationDelivery**: the abstract specification, each escalation
  delivered once and for good, a set of them at a time. `RefinesDelivery` maps what
  is delivered to the delivery rows.
* **SessionTokens**: the tabs of a browser and the server's session rows. A token
  is a number, a refresh token has the number of the access token it came with,
  tokens expire in order. `call` are the refreshes of each tab with their phase on
  the way (waiting for the Web Lock, at the server before and after its lookup,
  answered), `wait` says which refresh each caller awaits, since `refreshToken`
  shares one promise. `secure` is whether `navigator.locks` exists. Some operators
  take and return a *view*, a tab with its refreshes and callers, because one
  function of the code calls the next within one step. `user` is a tab that waits for
  its user info, on whose arrival `checkAuth` counts it as signed in and on whose refusal
  it signs out; `exit` are its logouts and logins, of which several may be under way.
  `asked` is the time at which
  `checkAuth` took `ts`, with which it compares the renewed token too. `cut` and
  `disturbed` are history variables.
* **LiveUpdates**: `ws` is the module state of `useWebSocket.ts`, `sock` each
  socket with both queues and the server's connection behind it, `page`, `listed`
  and `load` the notifications component, `created` and `queue` the database and
  the event listener. A socket's close handler runs some time after its close, and
  acts on the module's state, not on the socket's, as in the code.
* **TaskPositions**: position rows of a saved filter's list, row locks, the
  statements of a drag (write, resolve a conflict, recalculate the view) and of
  opening the filter (find tasks without a row, place them), and the page that
  computes the position to send. Positions are whole numbers: the resolution of
  a float is 1, `MinSpacing` stands for 0.01 and `MaxPosition` for 2^32.
* **RetailTaskWorkflowProofs**, **RetailMembershipProofs**,
  **RetailTemplateScheduleProofs**, **RetailScheduleCalendarProofs**,
  **RetailEscalationProofs**, **SessionTokensProofs**, **LiveUpdatesProofs**,
  **TaskPositionsProofs**: theorems (section 6).
* The **MC...** modules give the constants small values. The workflow's starts
  with a worker and a manager who are both members, the escalation's with an
  overdue task whose assignee is the worker and a bot as everybody's manager; the
  hierarchy of MCRetailMembership is a company, a region and a store; the
  calendar's months lie before the leap year 2096 and the year 2100, which is none.

Definitions called `X_Something`, with the comment "Mutant", are not part of the
model. Each is `X` as a plausible bug would have it, and putting it in the place of
`X` must violate the property named for it under `mutants` in `PROJECT.json`.

## 4. What is checked

| Run | Instance | Shows |
|---|---|---|
| workflow_strict | two requests, a worker who loses and regains access, generic edits, one item, one file, 2 submissions, 6 transitions, Serializable | `HistoryChains`, `OneFinalResult`, `ReviewBalance`, `SubmittedComplete`, `DoneMirrorsCompletion`, and that the requests implement the lifecycle (`RefinesLifecycle`) |
| workflow_postgres | two requests, generic edits, 2 submissions, 4 transitions, ReadCommitted | `AuditIsComplete`, `StatusWasOnceReached`: what survives without conflicts |
| workflow_review_race | the same without generic edits, 5 transitions | *violated*: `OneFinalReview` |
| membership_unit | one unit, three users (one may be deleted), one request and the cron, Serializable | `TeamMirrorsMembership`, `UnitsKeepAdmin`, `ManagersBelong`, `RenewedAreSpared`, and the liveness property `EndedAccessIsRevoked` |
| membership_tree | company, region, store, two users, two requests, Serializable | `HierarchyIntact`, with a create racing a delete |
| schedule_strict | one schedule, one tick, one request, edits, a caller's key, Serializable | `NoOccurrenceSkipped`, `SchedulesFollowTemplate`, `DispatchIsCurrent` |
| schedule_overlap | two schedules nobody edits, two overlapping ticks, one request, ReadCommitted | `SchedulesAreExact`, through keys that are found again and next runs that are set back, and the liveness property `DueIsDispatched` |
| schedule_calendar | every day of three months, intervals 1, 2, 3, 12, up to 13 runs | `MonthlyRunsAsSet` (the day and the pace) |
| escalation | one task, two people (one a bot), two overlapping ticks, one edit or crash, both kinds of database | `DeliveryMatchesNotification`, `TicksAreExact`, the refinement `RefinesDelivery`, and the liveness property `OverdueIsEscalated` |
| session_tokens | two tabs, two refreshes each, two callers or logouts at a time, one logout, closed tab, lost answer, error or session that ends of itself, one new login, with and without locks | `RotatedOnce`, `OneRefreshPerTab`, `LogoutSticks`, `NoSpuriousLogout`, and the liveness property `TabsCatchUp` |
| live_updates | two sockets, two loads, one notification, a buffer of two, one sign-out and in | `NeverStranded`, `SubscriptionsAgree`, and the liveness properties `ConnectedIsSubscribed`, `MissedIsLoaded` |
| task_positions | three tasks of which two are placed at first, two requests at a time, four in all, drags to any index, the task's own included | `SerialRequestsKeepDistinct`, `DropLands`, `RecalculationKeepsItsOrder`, `RecalculationsNeverDeadlock`, and the liveness property `RequestsEnd` |

Each property is stated in words where it is defined. The type invariant `TypeOK` of
every module says which values its variables take; it is part of the runs of the
workflow and of the escalation, where proofs build on it. `CHECK_DEADLOCK FALSE` is in
every configuration because the bounds end every behaviour: when the history is
full, the clock has reached `MaxTime` or nobody signs in any more, nothing need
happen. That requests do not wait for each other for ever is `RequestsEnd` and
`OverdueIsEscalated` instead.

**Bounds.** These bound what would grow for ever or be too much at a time:

* `MaxSubmissions`, `MaxHistory` (workflow). Two submissions and six transitions
  hold a rejected and resubmitted task up to its review (create, start, submit,
  reject, start, submit, review); a lost update needs two requests, and a third
  would only repeat the pattern; one item and one file are enough for "one is
  missing".
* `MaxTime`, `MaxVersion` (schedules), `MaxRuns` (calendar). Two ticks are enough for
  one to work off a list the other has outdated, and two schedules for one to fail in
  front of the other; thirteen monthly runs pass through every month length. In
  membership_unit one request races the cron, and three users let two leave while a
  third remains.
* `MaxTime`, `MaxChanges` (escalation). With delays of 0, 0 and 2 units the clock
  passes from the first two levels to all three; one change races two ticks.
* `MaxIssued`, `MaxBusy`, `MaxLogins`, `MaxEvents` and the sets `Slots`, `Doors` and
  `EventTabs` (sessions). Two tokens are one spent and one to adopt; once
  `MaxIssued` are out no further one expires, though refreshes under way still add
  theirs. A renewed token that expires in its turn takes a third; the theorems of
  section 6 have no bound. Two waiting callers race in one tab or in two. `Slots` bounds the
  refreshes a tab has open: the second is the one after a sign-out. `Doors` bounds its
  logouts and logins. One tab of the two signs in and out, closes or meets an error, and
  one at a time asks for its user info on navigation.
* `Sockets`, `Loads`, `MaxLogins` (live updates). Two sockets are an old one whose
  close handler is late and the next; two loads may be answered in either order.
* `Highest`, `MaxRequests` (positions). Between 0 and 16 with a gap of 4 and a least
  spacing of 2 there is soon no room, so conflicts and recalculations are common;
  four requests squeeze, resolve, recalculate and drag once more.

Symmetry is used in workflow_strict, workflow_postgres and membership_tree, whose requests
(and users, in the last) are interchangeable and whose properties are about states and
single steps; it would be
unsound for the liveness runs.

**Fairness.** The workflow has no liveness property: people need not go on.

* RetailMembership: weak fairness of `CronRead` (the job runs every minute)
  and strong fairness of `CronCommit`: a tick that loses to another commit is undone
  and comes again, and requests do not hit every tick for ever.
* RetailTemplateSchedule: weak fairness of each tick slot (a tick works its
  list off, and a new one starts every minute), and for each schedule strong fairness of
  the commit of its run by some tick, for the same reason.
* RetailEscalation: weak fairness of each tick slot. `OverdueIsEscalated` assumes
  further that ticks do not deadlock again and again.
* SessionTokens: strong fairness of the steps of a refresh (the server answers, the
  browser serves its lock queue in order) and of navigation (a user who is signed in
  uses the tab), weak fairness of the interceptor's second attempt, of
  a logout or login under way, and of the answer to a request for the user info.
* LiveUpdates: weak fairness of each side of each socket, of the reconnect timer
  and of the poll; strong fairness of the server's answer to a load, which may be
  lost any number of times but not always. That the browser's side goes on includes that
  it notices in the end that a socket is dead, for which the client has no heartbeat of
  its own: where it did not, a page would stay unsubscribed on a half-open connection.
* TaskPositions: weak fairness of the next statement of each request; the database
  detects deadlocks and undoes one of the transactions.

Beyond that none is assumed of what people decide to do (edits, logouts, drags), of time,
of failures, or of an expired member being replaceable. `EndedAccessIsRevoked`
therefore excepts the last administrator of a unit.

## 5. Where the code and its documents part

**Two reviews, two results** (workflow_review_race). QA_PLAN.md asks that
concurrent reviews produce one valid final result. Under PostgreSQL or MySQL both
reviewers read `pending_review` and both commit. On SQLite it holds, and is
proved (`ResultIsFinal`).

Noticed while modelling, without a run of their own.

In the retail rules:

* A file cited by a submission can be deleted before the review, which does not look
  at files: a task that requires evidence is then approved without any, which
  PRD.md:104 excludes.
* The last-admin guard counts team rows, and access also looks at the membership.
  A sole administrator may be given an end date; the cron then keeps the row, and
  nobody has the right to change anything.
* Schedules and dispatches by hand use different idempotency keys, so that one
  occurrence can become two tasks.
* Under ReadCommitted an update of a profile writes a status back that it read
  earlier (`StatusWasOnceReached` only says that it was reached once); two administrators
  can leave at the same time.
* A generic edit of the underlying task changes its done flag, and the workflow sets it
  again only at a completion, a review or a cancellation. `DoneMirrorsCompletion` is
  about tasks that nobody has edited so since (`drifted`).
* Under ReadCommitted a late tick sets `next_run_at` back to an occurrence that has been
  dispatched (`retail_template_schedule_cron.go:75`). The ticks after it find the keys
  and catch up without a second task (`SchedulesAreExact`). Where the profile of that
  occurrence has been deleted in between they fail instead, each of them, until somebody
  sets the schedule anew.
* The code allows cancelling from `pending_review` and `rejected`, which the diagram
  in ARCHITECTURE.md does not have.
* Deleting an account may leave a unit without an administrator, and its membership
  rows can then be neither deleted nor expired. A user who creates two companies has
  two primary memberships.
* A schedule whose time is set back to an occurrence whose profile was deleted fails
  at every tick, and a hundred such schedules take all places of the lookup.
* Escalation: the PRD (FR-08) speaks of 2 and 24 hours, the code of 30 and 120
  minutes. The delivery key has no due date, so a task that gets a new one is not
  escalated again at levels already delivered. Deleted tasks are not left out of the
  lookup. Recipients are not asked whether their membership has ended. A
  disabled reviewer or manager means that nobody is told at that level. Bots get a
  delivery row and no notification. Levels are sent in the random order of a Go map,
  so two overlapping ticks can deadlock.
* `RetailOperations.vue` shows whichever answer comes last, reads its form after an
  `await` (lines 920-923), leaves its buttons enabled meanwhile, and after a partial
  failure creates a second schedule when the user tries again.

In sessions and live updates:

* A login while another tab's refresh is open can sign that tab out or have the
  cookie overwritten; a logout can be undone for the browser by a refresh of
  another tab (the comment at `auth.ts:49-51` speaks of one tab, and so does
  `LogoutSticks`). Without locks two lost races sign a tab out.
* `renewToken` signs out after an answer of whatever status (`stores/auth.ts:541-542`), a
  500 or 503 of the server or of a proxy too, when the expiry the tab shows has passed, and
  `refreshUserInfo` after any 4xx (438-441), a 429 too. The session lives in both cases and the
  logout ends it. `NoSpuriousLogout` therefore excepts these answers.
* `checkAuth` compares a renewed token with the time before the refresh (`auth.ts`,
  `ts`), so that one which has expired meanwhile counts as valid until the next check.
* The timer for the next renewal is not set again when `checkAuth` is throttled or
  after a network failure; navigation makes up for it.
* A close handler that runs late takes the present socket for its own, and the page
  opens a second one; `disconnect` then does not know of the first.
* After `invalid_token` or `auth_required` the page has no socket until it mounts
  again. A session that ends without `disconnect` leaves its socket open, and the
  next sign-in uses it.
* A notification created between the first load and the subscription is missed as
  long as the connection lasts, and a late answer to a load overwrites one that was
  pushed meanwhile. This is why `MissedIsLoaded` is about pages that lose their
  connection again.
* A component unmounted during its first load leaves its callback and its poll.
* The running timer of time tracking is loaded on mount only, although the comment at
  `stores/timeTracking.ts:63` says "(re)connect".

In positions:

* The page keeps the position it sent and not the one the server gave the task
  (`ProjectList.vue:275`), so that drags after a recalculation may land elsewhere.
  `DropLands` is about a page that shows the stored positions. The answer is written
  at the index of whatever list is shown by then.
* When no number is left between the two neighbours of a drop, as after some fifty drops
  right behind the same task, the page sends the position of one of the two.
  `resolveTaskPositionConflicts` then spreads the tasks at that position by their ids
  (856-863), and a recalculation sorts them by id as well, so the dragged task may land on
  the other side of that neighbour. `DropLands` says that this is all: between the two the
  lower id comes first, and every other pair keeps the order the page shows.
* Concurrent requests can leave two tasks at one position, which the next drag or
  recalculation repairs. Two drags that swap neighbours can deadlock.
  A recalculation may overwrite a drag committed between its search and its delete.
* Between equal neighbours the page places the task after both
  (`calculateItemPosition.ts:12`), and a conflict that needs a full recalculation is
  returned to the user as an error.

## 6. What is proved

RetailTaskWorkflowProofs, for all constants that satisfy the ASSUMEs of the module
(any users, items, files, requests and bounds):

* `TypeCorrect`: `Spec => []TypeOK`, on either database. TypeOK alone is not
  inductive: a commit records the status it read as the origin of a transition, so
  `TypeInv` adds that a request which will record one holds a status of the
  workflow (`HoldsStatus`).
* With `Isolation = "Serializable"`: `HistoryIsAChain`, `SubmissionsAreAnswered`,
  `ResultIsFinal`. The inductive invariant is
  `SafetyInv == TypeInv /\ Fresh /\ HistoryInv /\ BalanceInv`. `Fresh` is the
  heart of it: what a request in flight has read is still true of the rows.
  A commit keeps it because it resets the others; `HistoryInv` and `BalanceInv`
  then follow as if the operations were atomic. Without `Isolation` it is false, as
  workflow_review_race shows.
* With the same assumption `WorkflowImplementsLifecycle`:
  `Spec => RefinesLifecycle`. Each commit is one step of the lifecycle under
  the refinement mapping; reads, checks, rollbacks and the steps of others stutter.
  `Fresh` gives the guard of the abstract step.

Two theorems hold on either database: `EveryAnswerIsOnRecord`
(`Spec => []AuditIsComplete`) and `ShownStatusWasReached`
(`Spec => []StatusWasOnceReached`). There `Fresh` is of no use: by the time it commits,
what a request has read may be gone. The invariant `AuditInv` says less of the requests
instead: the origin that each will record is one its operation accepts (`Origins`), and
the row a profile update is going to write shows a status that was reached (`StatusInv`).
Every commit then adds one transition of the kind that is counted with its row, or of a
kind that is not counted (`StepKinds`, `CountAppend`). With `Isolation = "Serializable"`
there are also `NothingIncompleteIsSubmitted` (`Spec => SubmittedComplete`) and
`DoneFollowsTheProfile` (`Spec => []DoneMirrorsCompletion`), from `SafetyInv` and from
`Checks`, that what a request has checked is still so.

RetailMembershipProofs, for any users, units, parents and bounds: `TypeCorrect` on either
database, and with `Isolation = "Serializable"` `TeamNeverDrifts`, `AnAdminRemains`,
`HierarchyStaysWhole`, `ManagersNeverDangle` and `RenewalsPrevail`. The five are proved
together, since each needs the others: `Agreement` is their conjunction, and `SafetyInv`
adds to it and the types what a request in flight has read (`FreshRequest`: the role it
found, that an administrator remains, that there are no children) and what the cron
has (`FreshCron`). A commit makes the others start again; time, which no commit goes with,
only ends memberships, and neither a request nor the cron depends on one not having
ended.

RetailTemplateScheduleProofs, for any schedules, intervals, versions, requests, ticks and
bounds, with `Isolation = "Serializable"`: `EveryOccurrenceIsDispatched`,
`SchedulesEndWithTemplate` and `DispatchesAreCurrent`. The occurrences that a schedule may
not skip are those before its next run, so the invariant says where that is: a whole
number of periods past the time that was set by hand, each of them dispatched
(`Stepped`). A tick that dispatches the next run and advances the schedule by one
period keeps this because no occurrence lies between (`NoMultipleBetween`).

With `ScheduleEdits = FALSE`, on either database and for any number of overlapping
ticks, `TicksDispatchExactly`
(`Spec => []SchedulesAreExact`). A tick may hold a row that is outdated in either
direction, and one that found its key commits and writes the next run back. What holds of
the row a tick works on (`Underway`) is therefore not said of the schedule's present next run:
it is an occurrence, due, and every occurrence before it has been dispatched (`Complete`). That
is never undone, since no dispatch is. So it still holds at the commit, when the
occurrence itself is dispatched too, and the next run, wherever it is set, is again an
occurrence with none missing before it.

RetailEscalationProofs, for any tasks, users, ticks, delays and bounds, on either
database: `TypeCorrect`, `NotifiedOnce` (`Spec => []DeliveryMatchesNotification`)
and `EscalationImplementsPromise` (`Spec => RefinesDelivery`). The inductive
invariant adds to the types that the rows a tick holds are new (`RowsAreNew`, none is
delivered yet) and its own (`RowsAreOwn`, no two ticks hold the same key), and that a
tick inserts one key at a time. The unique index is what keeps this: an insert waits
for whoever holds its key and gives up when the key has been taken. So a commit adds
new deliveries only and counts each of their notifications for the first time.

Where the database is serializable, `TicksDeliverExactly` (`Spec => TicksAreExact`):
a tick that is not outdated works on the state it will commit in. So its invariant
(`Current`) says in terms of the present state, not of the one it began with, that nothing
the tick has done is uncalled for, and that what is called for is delivered, done, pending
or among the tasks ahead (`Exact`). Whatever changes that state outdates the tick
(`OutdatedIsCurrent`).

RetailScheduleCalendarProofs, for any starting month, interval and number of runs:
`MonthlyRunsKept`. The invariant adds that the anchor day is the day the schedule was
set to, which is what the code has the column for; the only fact about the calendar
used is that months have 28 to 31 days.

SessionTokensProofs, for any number of tabs, refreshes, sessions and events, with or
without locks: `TypeCorrect`, `RefreshTokensRotateOnce`, `OneRefreshAtATime` and
`RemovedTokensStayAway`. That a token is accepted once needs `SpentIsReplaced`, that a
session does not accept what was spent on it, and `AllIssued`, that whatever a browser
holds or presents was issued before: a session is given new tokens only, so a token that
it accepts was never spent. That one refresh is under way needs that it is the one new
callers share (`Sharing`), and across tabs that who has sent a request holds the lock
(`LockInv`). That a logout sticks needs that the refreshes it cut off are outdated as long
as they go on (`CutInv`). The functions of the browser call each other within a step, so
each is followed by itself, in whatever state of the tab it is called: it brings in no
token that was not issued (`Known`), leaves alone the refreshes that it does not end, and
starts one only where none is shared (`Follows`).

There is also `NobodyIsForcedOut` (`Spec => NoSpuriousLogout`). A tab signs out by itself
when a refresh is refused or answered by an error, when its user info is refused, or when
its `checkAuth` ends without a token it takes for valid.
`RequestInv` says that under the lock the one request that is out carries the cookie of the
jar, and that a session which does not accept it has ended; so a refusal says that it has.
`CheckInv` says of a `checkAuth` that waits for a refresh that has given way to a logout
that what it will find is newer than the tokens which had expired when it began, and of a
refresh in the lock's queue that what it may adopt has not expired. Neither survives a
lost answer, an answer with another error (`AnswerLost`, of the server or of what is in
front of it), a tab closed or a login in the middle of a refresh, or a token that expires
before the tabs that wait for it have it; and a user info that is refused signs out a tab
whose session lives. These set `disturbed`, up to which the property speaks: after them
the code does sign tabs out (section 5), and nothing is claimed. A session that ends of
itself, too old or of a disabled user (`SessionExpires`), is within the property.

LiveUpdatesProofs, for any number of sockets, loads, notifications and sign-ins, and any
size of the buffer: `TypeCorrect`, `PageNeverStranded` and `SubscriptionsAgreeAtRest`.
That both sides agree when nothing is under way is not inductive, since subscriptions,
authentications and refusals overtake each other in two directions. The invariant
(`CurrentInv`) says where the messages that are under way on the current socket lead: the
server will want to send (`Wanted`) exactly when the page listens, unless an answer that
makes the page subscribe again (`Succeeds`) or give the socket up (`Doomed`) is on its
way. `SocketInv` says what a connection that is closed or not authenticated cannot
have, `Held` is `NeverStranded` over a pair of page and sockets. Each function of
`useWebSocket.ts` is shown to keep them whatever state it is called in, and so handlers
that call one another in one step need no argument of their own.

TaskPositionsProofs, for any tasks, requests, spacings and gaps with room for the tasks
of the view: `TypeCorrect`, and the four safety properties of the run.
* `RecalculationsDeadlockFree`: a recalculation holds the view from its search on, and
  waits for it before it has written a row (`LockInv`, with the steps each kind of
  request can be at, `PathInv`). So in a circle of recalculations everybody but the
  holder of the view would wait with nothing written, and nobody would wait for them.
* `RecalculationIsAuthoritative`: each task a drag's recalculation saw has its new
  position in the plan or in a row it has written (`OrderInv`), and new positions
  grow with the order, because there is at least 1 between them.
* `SerialDistinct`: of a request that is alone, the rows it will leave are known at every
  step (`Final`) and are distinct (`SerialInv`). Spreading conflicts between their
  neighbours, putting new rows on top and recalculating each need an argument why the
  quotients differ from each other and from the rest.
* `DragLands`: the position computed between two neighbours orders the list as the page
  shows it, but for the neighbour whose position it is when no number is left between
  the two (`MovedKeeps`, `AsShown`). No step of the write, of spreading a conflict or of
  a recalculation changes the order of two tasks at different positions, and two at one
  position end up ordered by id (`DropInv`, `PutsApart`).

`RoomAssumption`, `n * (n + 1) <= MaxPosition` for n tasks, is what these need of the
sizes: a recalculation then puts its first task above n, which leaves room for the rows
that are put on top. In the code a view ends at 2^32 and positions are float64, whose
resolution there is 2^-20: `MaxPosition` is 2^52 units of it, enough for tens of millions
of tasks in one view. Order and quotients of positions are those of whole numbers in units
of the resolution.

Only model-checked: the liveness properties, since fairness and ENABLED are out of the
prover's reach. No theorem says of a ReadCommitted workflow what does not
hold there; the run workflow_review_race shows the case.

## 7. Abstractions

* Texts, minutes, categories and projects are left out; validations of
  them can only fail, and a failure is a rollback. Reading and listing change
  nothing.
* The final read of a workflow operation (`GetRetailTaskWorkflow` may refuse
  the answer and roll everything back) is a conjunct of the commit.
* Ids of items and files are not reused. A profile created anew for the same task
  is another instance.
* Access is a pair of sets in the workflow and a computed thing in RetailMembership.
  The two are not composed: any change of access is possible at any time in the
  workflow, which includes those RetailMembership allows. For the same reason
  RetailEscalation takes managers and admins as rows that edits change.
* In RetailMembership the parent of a unit is fixed (`Update` does not change it),
  tasks and templates that forbid deleting a unit are a refusal, one expiry tick
  runs at a time, and its rows go in any order. `Elapse` writes no row: it stands
  for `ends_at` having passed.
* RetailTemplateSchedule counts time in periods; a schedule's creator, project and
  target are `eligible` or not. A batch dispatch by hand is one transaction for a
  set of targets.
* The calendar leaves out the time of day, and with it time zones with changing
  offsets (the default, Asia/Shanghai, has none).
* RetailEscalation has one unit and one unit above it, and PostgreSQL's answer to a
  duplicate key (the transaction is lost); MySQL undoes the statement only. The mail
  of a notification is left out.
* SessionTokens leaves out the desktop application's refresh by IPC and link shares.
  The user info's expiry is the token's. Also left out: `refreshUserInfo` where others
  call it (`App.vue:112`, `router/index.ts:573`, `Deletion.vue:135`), the logout of `checkAuth` at a token
  it cannot parse, a login that fails, the cookie that the server clears for a disabled user,
  and the redirect to an OpenID provider. `checkAuth`, with what it reads and asks for, is
  one step up to each of its two `await`s.
* LiveUpdates takes the page to be visible and leaves out time tracking, whose events
  go the same way. A socket is followed until its close handler has run. Two details are
  left out: the answer to an authentication on a connection that is authenticated
  (`connection.go:169-171`), which the page ignores, and a `WebSocket` constructor that
  throws (`useWebSocket.ts:131-137`), which sets the reconnect timer as a close does.
* TaskPositions leaves out what else writes positions: creating tasks, the
  listener of saved filters and the repair command. Tasks only join the filter. The two
  neighbours of a conflict are read in one step (`findNeighbours`), two statements in the
  code (`task_position.go:821-837`); and a page whose drop would be above `Highest` does
  not drop.
* RetailTemplateSchedule reads a request's dispatch in one step (`DispatchRead`): a key
  found in between would make it write less, as the refused insertion does.

## 8. Not modelled

`components` in `PROJECT.json` lists every part with its reason. In short:

* Workload and dashboard are aggregations and one upsert behind a unique index:
  there is no sequence of steps to check.
* Handlers, events, cron and database sessions are frames; the modules model them as
  their transactions, queues, fairness and isolation.
* Tasks, teams, projects, kanban, CalDAV, imports and plugins are upstream's and
  unchanged by the fork. They are read, and their code goes by single requests, but
  keeps none of the state the promises of the fork's documents are about.
* The views of the web client (task detail, editor, kanban, Gantt, the retail
  page) load, edit and save single values. Vendored scripts
  (`scalar.standalone.js`, `redoc.standalone.js`) are not the program's own.

A count of mapped lines over the JavaScript and TypeScript files is therefore low:
the rules are in Go, and of the client only what keeps state across requests is
modelled.

What would come next: ReadCommitted instances of RetailMembership with the weaker
properties that hold there; the workflow's access as an instance of RetailMembership;
an abstract specification of schedules that RetailTemplateSchedule implements; and kanban
buckets with their limits.
