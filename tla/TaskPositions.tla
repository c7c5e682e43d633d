---------------------------- MODULE TaskPositions ----------------------------
(***************************************************************************)
(* The order of the tasks in the list view of a saved filter: the position *)
(* rows of the view, the requests that change them, and the page on which  *)
(* tasks are dragged.  A request is one transaction on a Read Committed    *)
(* database; each of its statements is a step, which reads the rows        *)
(* committed so far under its own and waits for rows somebody else has     *)
(* written.  Positions are floating point numbers in the code and whole    *)
(* numbers here, so the resolution of a float is 1 and a division rounds   *)
(* down; MinSpacing is a multiple of it.  SQLite has one writer at a time, *)
(* which is the case of a single request here.                             *)
(***************************************************************************)
EXTENDS Naturals, Sequences, FiniteSets, SequencesExt

CONSTANTS
    Tasks,        \* their numbers are their ids
    FirstTasks,   \* those that match the filter and have a position at first
    Requests,     \* requests that may be under way at a time
    Nobody,
    NoPosition,   \* no row
    Unwritten,    \* a row the transaction has not touched
    MinSpacing,   \* MinPositionSpacing, 0.01 in the code
    Gap,          \* the 2^16 added to the last position
    MaxPosition,  \* 2^32, the end of a recalculated view
    Highest,      \* bound on the positions
    MaxRequests   \* bound on the requests

ASSUME TasksAssumption == Tasks \subseteq Nat \ {0} /\ FirstTasks \subseteq Tasks
ASSUME NamesAssumption ==
    /\ Nobody \notin Requests
    /\ NoPosition \notin Nat /\ Unwritten \notin Nat /\ NoPosition # Unwritten
ASSUME BoundsAssumption ==
    /\ MinSpacing \in Nat \ {0} /\ Gap \in Nat \ {0} /\ MaxPosition \in Nat \ {0}
    /\ Highest \in Nat /\ Highest >= MaxPosition /\ MaxRequests \in Nat
ASSUME RoomAssumption ==
    /\ IsFiniteSet(Tasks)
    /\ Cardinality(Tasks) * (Cardinality(Tasks) + 1) <= MaxPosition

VARIABLES
    matching,  \* tasks that match the filter
    pos,       \* the committed rows of the view
    viewLock,  \* who holds the row lock on the view
    tx,        \* the transactions
    shown,     \* the list on the page, each task with the position it has there
    requests,  \* requests so far
    contended  \* whether two were ever under way together, kept for a property

vars == <<matching, pos, viewLock, tx, shown, requests, contended>>

-----------------------------------------------------------------------------
(* Values *)

Untouched == [t \in Tasks |-> Unwritten]

\* `wrote' are the rows written and so locked, `plan' those it is about to write,
\* `todo' rows or tasks the next statements are for, `heal' tasks it found without a
\* row and `added' those of them the recalculation gave their first.  `seen', `want'
\* and `clean' are kept to state properties.
Idle == [op |-> "none", step |-> "none", task |-> 0, to |-> 0, at |-> 0,
         wrote |-> Untouched, plan |-> Untouched, todo |-> {}, heal |-> {}, added |-> {},
         seen |-> <<>>, want |-> <<>>, clean |-> FALSE]

\* What a transaction reads.
Rows(w) == [t \in Tasks |-> IF tx[w].wrote[t] # Unwritten THEN tx[w].wrote[t] ELSE pos[t]]

Placed(rows) == {t \in Tasks : rows[t] # NoPosition}
Locked(w, t) == \E v \in Requests \ {w} : tx[v].wrote[t] # Unwritten
Planned(w) == {t \in Tasks : tx[w].plan[t] # Unwritten}

\* By position, tasks without one last, and by id.
Precedes(rows, t, u) ==
    \/ rows[t] # NoPosition /\ rows[u] = NoPosition
    \/ rows[t] # NoPosition /\ rows[u] # NoPosition /\ rows[t] < rows[u]
    \/ rows[t] = rows[u] /\ t < u
Ordered(rows, S) ==
    CHOOSE s \in SetToSeqs(S) : \A i, j \in DOMAIN s : i < j => Precedes(rows, s[i], s[j])
ById(S) == Ordered([t \in Tasks |-> NoPosition], S)

Least(S) == CHOOSE n \in S : \A m \in S : n <= m
Greatest(S) == CHOOSE n \in S : \A m \in S : n >= m

\* n positions between two others.
Between(lower, upper, i, n) == lower + ((upper - lower) * i) \div (n + 1)

\* Rows for a set of tasks: the i-th task gets the i-th position.
Assign(order, at(_)) ==
    [t \in Tasks |-> IF t \in Range(order)
                     THEN at(CHOOSE i \in DOMAIN order : order[i] = t) ELSE Unwritten]

Distinct(rows) ==
    \A t, u \in Placed(rows) : t # u => rows[t] # rows[u]

-----------------------------------------------------------------------------
(* The page *)

\* Mutant: one missing neighbour always means the end of the list.
calculateItemPosition_AtEnd(before, after) ==
    CASE before = NoPosition /\ after = NoPosition -> 0
      [] before = NoPosition /\ after # NoPosition -> after + Gap
      [] before # NoPosition /\ after = NoPosition -> before + Gap
      [] OTHER -> before + (after - before) \div 2

\* The neighbours are the page's; one position for both is nudged.
calculateItemPosition(before, after) ==
    CASE before = NoPosition /\ after = NoPosition -> 0
      [] before = NoPosition /\ after # NoPosition -> after \div 2
      [] before # NoPosition /\ after = NoPosition -> before + Gap
      [] before # NoPosition /\ before = after -> after + MinSpacing
      [] OTHER -> IF after > before THEN before + (after - before) \div 2
                  ELSE before - (before - after) \div 2

Ids(list) == [i \in DOMAIN list |-> list[i].task]
At(list, i) == IF i \in DOMAIN list THEN list[i].position ELSE NoPosition

\* The list after a drag from i to j.
Moved(list, i, j) == InsertAt(RemoveAt(list, i), j, list[i])

\* What a load of the list shows.
Loaded(rows) ==
    LET order == Ordered(rows, matching)
    IN  [i \in DOMAIN order |->
            [task |-> order[i],
             position |-> IF rows[order[i]] = NoPosition THEN 0 ELSE rows[order[i]]]]

\* The page has the stored positions, and the tasks in their order.
Shows(rows) ==
    /\ \A k \in DOMAIN shown : shown[k].position = rows[shown[k].task]
    /\ Ordered(rows, Range(Ids(shown))) = Ids(shown)

Table == [Tasks -> Nat \cup {NoPosition}]

Transaction ==
    [op : {"none", "drag", "open"},
     step : {"none", "lock", "upsert", "check", "bounds", "respace", "search", "scan",
             "delete", "insert", "missing", "lowest", "place", "fill", "commit"},
     task : Nat, to : Nat, at : Nat,
     wrote : [Tasks -> Nat \cup {NoPosition, Unwritten}],
     plan : [Tasks -> Nat \cup {Unwritten}],
     todo : SUBSET Tasks, heal : SUBSET Tasks, added : SUBSET Tasks,
     seen : Seq(Tasks), want : Seq(Tasks), clean : BOOLEAN]

TypeOK ==
    /\ matching \subseteq Tasks
    /\ pos \in Table
    /\ viewLock \in Requests \cup {Nobody}
    /\ tx \in [Requests -> Transaction]
    /\ \A w \in Requests :
          /\ tx[w].op = "drag" => tx[w].task \in Tasks
          /\ tx[w].op = "none" \/ tx[w].step = "none" => tx[w] = Idle
    /\ shown \in Seq([task : Tasks, position : Nat])
    /\ requests \in Nat /\ contended \in BOOLEAN

Init ==
    /\ matching = FirstTasks
    /\ LET order == ById(FirstTasks)
           rows == Assign(order, LAMBDA i : (MaxPosition * i) \div Len(order))
       IN  pos = [t \in Tasks |-> IF t \in FirstTasks THEN rows[t] ELSE NoPosition]
    /\ viewLock = Nobody
    /\ tx = [w \in Requests |-> Idle]
    /\ shown = Loaded(pos)
    /\ requests = 0 /\ contended = FALSE

-----------------------------------------------------------------------------
(* Requests begin and end *)

Begin(w, record) ==
    /\ tx[w] = Idle /\ requests < MaxRequests
    /\ requests' = requests + 1
    /\ contended' = (contended \/ \E v \in Requests : tx[v] # Idle)
    /\ tx' = [v \in Requests |-> IF v = w THEN record ELSE [tx[v] EXCEPT !.clean = FALSE]]

\* Mutant: the view is locked only when the recalculation begins.
FirstStep_LateLock(position) == "upsert"

\* A position that will make the view be recalculated takes its lock first.
FirstStep(position) == IF position < MinSpacing THEN "lock" ELSE "upsert"

\* A task is dragged.  The page shows it at its place at once, with the old position.
Drag(w) ==
    \E i \in DOMAIN shown, j \in DOMAIN shown :
        LET list == Moved(shown, i, j)
            at == calculateItemPosition(At(list, j - 1), At(list, j + 1))
        IN  /\ at <= Highest
            /\ shown' = list
            /\ Begin(w, [Idle EXCEPT
                   !.op = "drag", !.step = FirstStep(at), !.task = shown[i].task,
                   !.to = j, !.at = at, !.want = Ids(list),
                   !.clean = /\ \A v \in Requests : tx[v] = Idle
                             /\ Shows(pos) /\ Distinct(pos)])
            /\ UNCHANGED <<matching, pos, viewLock>>

\* The list is loaded, which first gives a position to tasks without one.
Open(w) ==
    /\ Begin(w, [Idle EXCEPT !.op = "open", !.step = "missing"])
    /\ UNCHANGED <<matching, pos, viewLock, shown>>

\* Mutant: the lock on the view outlives the transaction.
Release_Never(w) == UNCHANGED viewLock

Release(w) == viewLock' = IF viewLock = w THEN Nobody ELSE viewLock

\* The answer of a drag puts the dragged task, with the position sent, at the index it
\* was dropped at, whatever the list is by then.
Commit(w) ==
    /\ tx[w].step = "commit"
    /\ pos' = Rows(w)
    /\ shown' = IF tx[w].op = "open" THEN Loaded(Rows(w))
                ELSE [shown EXCEPT ![tx[w].to] = [task |-> tx[w].task, position |-> tx[w].at]]
    /\ tx' = [tx EXCEPT ![w] = Idle]
    /\ Release(w)
    /\ UNCHANGED <<matching, requests, contended>>

RollBack(w) ==
    /\ tx' = [tx EXCEPT ![w] = Idle]
    /\ Release(w)
    /\ UNCHANGED <<matching, pos, shown, requests, contended>>

Step(w, record) ==
    /\ tx' = [tx EXCEPT ![w] = record]
    /\ UNCHANGED <<matching, pos, viewLock, shown, requests, contended>>

\* Another user edits a task, which then matches the filter.
Match(t) ==
    /\ t \notin matching
    /\ matching' = matching \cup {t}
    /\ UNCHANGED <<pos, viewLock, tx, shown, requests, contended>>

-----------------------------------------------------------------------------
(* updateTaskPosition *)

lockPositionsForViewUpdate(w) ==
    /\ tx[w].step = "lock"
    /\ viewLock \in {Nobody, w}
    /\ viewLock' = w
    /\ tx' = [tx EXCEPT ![w].step =
                 IF tx[w].op = "drag" /\ tx[w].wrote[tx[w].task] = Unwritten
                 THEN "upsert" ELSE "search"]
    /\ UNCHANGED <<matching, pos, shown, requests, contended>>

upsertTaskPosition(w) ==
    /\ tx[w].step = "upsert"
    /\ ~Locked(w, tx[w].task)
    /\ Step(w, [tx[w] EXCEPT !.wrote[tx[w].task] = tx[w].at,
                             !.step = IF tx[w].at < MinSpacing THEN "lock" ELSE "check"])

\* Mutant: conflicts are not looked for.
findPositionConflicts_None(w) ==
    /\ tx[w].step = "check"
    /\ Step(w, [tx[w] EXCEPT !.step = "commit"])

findPositionConflicts(w) ==
    /\ tx[w].step = "check"
    /\ LET conflicts == {t \in Tasks : Rows(w)[t] = tx[w].at}
       IN  Step(w, IF Cardinality(conflicts) > 1
                   THEN [tx[w] EXCEPT !.todo = conflicts, !.step = "bounds"]
                   ELSE [tx[w] EXCEPT !.step = "commit"])

\* The first half of resolveTaskPositionConflicts, both neighbours in one step.
\* Without room between them the drag ends in an error.
findNeighbours(w) ==
    /\ tx[w].step = "bounds"
    /\ LET taken == {Rows(w)[t] : t \in Placed(Rows(w))}
           lower == Greatest({0} \cup {n \in taken : n < tx[w].at})
           above == {n \in taken : n > tx[w].at}
           upper == IF above = {} THEN MaxPosition ELSE Least(above)
           order == ById(tx[w].todo)
           n == Len(order)
       IN  IF upper < lower + MinSpacing * (n + 1)
           THEN RollBack(w)
           ELSE Step(w, [tx[w] EXCEPT !.step = "respace", !.todo = {},
                             !.plan = Assign(order, LAMBDA i : Between(lower, upper, i, n))])

-----------------------------------------------------------------------------
(* RecalculateTaskPositions *)

\* Every matching task gets a new position, in the order they have.
searchTasks(w) ==
    /\ tx[w].step = "search"
    /\ LET order == Ordered(Rows(w), matching)
       IN  Step(w, [tx[w] EXCEPT !.step = "scan", !.seen = order,
                        !.plan = Assign(order, LAMBDA i : (MaxPosition * i) \div Len(order))])

\* The delete: the rows it saw when it began, one after the other.
scanRows(w) ==
    /\ tx[w].step = "scan"
    /\ Step(w, [tx[w] EXCEPT !.step = "delete", !.todo = Placed(Rows(w))])

deleteRow(w) ==
    /\ tx[w].step = "delete"
    /\ \E t \in tx[w].todo :
          /\ ~Locked(w, t)
          /\ Step(w, [tx[w] EXCEPT !.wrote[t] = NoPosition, !.todo = @ \ {t},
                                   !.step = IF tx[w].todo = {t} THEN "insert" ELSE @])

-----------------------------------------------------------------------------
(* ensureTaskPositionsForSavedFilterView *)

findMissing(w) ==
    /\ tx[w].step = "missing"
    /\ LET missing == {t \in matching : Rows(w)[t] = NoPosition}
       IN  Step(w, [tx[w] EXCEPT !.heal = missing,
                                 !.step = IF missing = {} THEN "commit" ELSE "lowest"])

\* On top of the view, or at the default positions of an empty one.
OnTop(w, rows) ==
    LET order == ById(tx[w].heal)
        taken == {rows[t] : t \in Placed(rows)}
    IN  IF taken = {} THEN Assign(order, LAMBDA i : i * Gap)
        ELSE Assign(order, LAMBDA i : Between(0, Least(taken), i, Len(order)))

Crowded(w) ==
    LET taken == {Rows(w)[t] : t \in Placed(Rows(w))}
    IN  taken # {} /\ Least(taken) < MinSpacing * (Cardinality(tx[w].heal) + 1)

\* calculateNewPositionsForTasks; without room the view is recalculated first.
findLowest(w) ==
    /\ tx[w].step = "lowest"
    /\ Step(w, IF Crowded(w)
               THEN [tx[w] EXCEPT !.step = "lock",
                                  !.added = {t \in tx[w].heal : Rows(w)[t] = NoPosition}]
               ELSE [tx[w] EXCEPT !.step = "fill", !.plan = OnTop(w, Rows(w))])

\* After a recalculation: the rows it added are dropped again and put on top.
placeAdded(w) ==
    /\ tx[w].step = "place"
    /\ LET rows == [t \in Tasks |-> IF t \in tx[w].added THEN NoPosition ELSE Rows(w)[t]]
       IN  Step(w, [tx[w] EXCEPT !.step = "fill", !.plan = OnTop(w, rows),
                        !.wrote = [t \in Tasks |-> IF t \in tx[w].added THEN NoPosition
                                                   ELSE @[t]]])

-----------------------------------------------------------------------------
(* Rows written one after the other *)

\* Mutant: a recalculation keeps a row that is there already.
RowWritten_Keep(w, t) ==
    CASE Rows(w)[t] = NoPosition /\ tx[w].step = "respace" -> Unwritten
      [] Rows(w)[t] # NoPosition /\ tx[w].step # "respace" -> tx[w].wrote[t]
      [] OTHER -> tx[w].plan[t]

\* An update finds no row to change, a recalculation overwrites the row it finds, and
\* a row that was only missing is left to whoever has added it.
RowWritten(w, t) ==
    CASE Rows(w)[t] = NoPosition /\ tx[w].step = "respace" -> tx[w].wrote[t]
      [] Rows(w)[t] # NoPosition /\ tx[w].step = "fill" -> tx[w].wrote[t]
      [] OTHER -> tx[w].plan[t]

NextRow(w) == CHOOSE t \in Planned(w) : \A u \in Planned(w) : tx[w].plan[t] <= tx[w].plan[u]

writeRow(w) ==
    /\ tx[w].step \in {"respace", "insert", "fill"}
    /\ LET t == NextRow(w)
       IN  /\ ~Locked(w, t)
           /\ Step(w, [tx[w] EXCEPT
                  !.wrote[t] = RowWritten(w, t), !.plan[t] = Unwritten,
                  !.step = IF Planned(w) # {t} THEN @
                           ELSE IF @ = "insert" /\ tx[w].op = "open" THEN "place"
                           ELSE "commit"])

-----------------------------------------------------------------------------
(* Waiting *)

\* The rows a request waits for.
Needs(w) ==
    CASE tx[w].step = "upsert" -> {tx[w].task}
      [] tx[w].step = "delete" -> tx[w].todo
      [] tx[w].step \in {"respace", "insert", "fill"} -> {NextRow(w)}
      [] OTHER -> {}

WaitsFor(w, v) ==
    \/ tx[w].step = "lock" /\ viewLock = v
    \/ /\ Needs(w) # {} /\ \A t \in Needs(w) : Locked(w, t)
       /\ \E t \in Needs(w) : tx[v].wrote[t] # Unwritten

DeadlockedSets ==
    {S \in (SUBSET Requests) \ {{}} : \A w \in S : \E v \in S \ {w} : WaitsFor(w, v)}

\* The database undoes a request of a deadlock.
DeadlockVictim(w) ==
    /\ w \in UNION DeadlockedSets
    /\ RollBack(w)

Progress(w) ==
    \/ lockPositionsForViewUpdate(w) \/ upsertTaskPosition(w)
    \/ findPositionConflicts(w) \/ findNeighbours(w)
    \/ searchTasks(w) \/ scanRows(w) \/ deleteRow(w)
    \/ findMissing(w) \/ findLowest(w) \/ placeAdded(w)
    \/ writeRow(w) \/ Commit(w) \/ DeadlockVictim(w)

Next ==
    \/ \E w \in Requests : Drag(w) \/ Open(w) \/ Progress(w)
    \/ \E t \in Tasks : Match(t)

Spec == Init /\ [][Next]_vars

\* The server runs its requests to the end and the database breaks deadlocks.
FairSpec == Spec /\ \A w \in Requests : WF_vars(Progress(w))

-----------------------------------------------------------------------------
(* Properties *)

\* Requests that follow one another never leave two tasks at one position.
SerialRequestsKeepDistinct == ~contended => Distinct(pos)

Recalculates(w) ==
    \/ tx[w].step \in {"lock", "search", "scan", "delete", "insert", "place"}
    \/ tx[w].op = "drag" /\ tx[w].at < MinSpacing

\* Recalculations of a view take its lock before any row, so they never wait for each
\* other in a circle.
RecalculationsNeverDeadlock ==
    \A S \in DeadlockedSets : \E w \in S : ~Recalculates(w)

\* There was no number between the neighbours a task was dropped between: it was sent
\* with the position of one of them.
NoRoom(w, t, u) ==
    /\ tx[w].task \in {t, u}
    /\ \E v \in {t, u} \ {tx[w].task} : pos[v] = tx[w].at

\* A task dragged on a page that shows the view as it is, while nothing else happens, is
\* afterwards where it was dropped, and the others keep their order.  Of two tasks that
\* share a position for want of room the lower id comes first, whichever way round they
\* were dropped (resolveTaskPositionConflicts, and the order a recalculation goes by).
DropLands ==
    [][\A w \in Requests :
          tx[w].clean /\ tx[w].step = "commit" /\ tx'[w] = Idle
              => \A i, j \in DOMAIN tx[w].want :
                    LET t == tx[w].want[i]
                        u == tx[w].want[j]
                    IN  i < j => IF NoRoom(w, t, u) /\ u < t THEN pos'[u] < pos'[t]
                                 ELSE pos'[t] < pos'[u]]_vars

\* A recalculation is authoritative: the tasks it saw are committed in the order it saw
\* them, whatever rows slipped in.
RecalculationKeepsItsOrder ==
    [][\A w \in Requests :
          tx[w].op = "drag" /\ tx[w].seen # <<>> /\ tx[w].step = "commit" /\ tx'[w] = Idle
              => /\ Ordered(pos', Range(tx[w].seen)) = tx[w].seen
                 /\ \A t, u \in Range(tx[w].seen) : t # u => pos'[t] # pos'[u]]_vars

\* Every request ends.
RequestsEnd == \A w \in Requests : tx[w] # Idle ~> tx[w] = Idle

=============================================================================
