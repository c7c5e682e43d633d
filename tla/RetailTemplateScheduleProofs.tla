--------------------- MODULE RetailTemplateScheduleProofs ---------------------
(***************************************************************************)
(* On a serializable database no occurrence of a schedule is skipped, what *)
(* is dispatched is current, and an inactive template has no active        *)
(* schedule, for any number of schedules, ticks, requests, targets and     *)
(* versions and any limit on a batch.  The argument is that of the         *)
(* workflow: what an open transaction has read is still so at its commit.  *)
(***************************************************************************)
EXTENDS RetailTemplateSchedule, Integers, TLAPS

\* The rows as far as the arguments need their types.
Typed ==
    /\ now \in Nat
    /\ template \in [active: BOOLEAN, version: Nat]
    /\ DOMAIN schedule = Schedules /\ DOMAIN anchor = Schedules
    /\ \A s \in Schedules :
        /\ schedule[s] \in Schedule /\ schedule[s].interval # 0 /\ anchor[s] \in Nat
    /\ eligible \subseteq Schedules
    /\ DOMAIN tx = Slots

\* What an open transaction has read is still so.
Fresh(p) ==
    LET s == tx[p].id  row == tx[p].row
    IN  /\ tx[p].op \in {"run", "save", "dispatch"} => template.active
        /\ tx[p].op \in {"read", "run"} => s \in Schedules /\ row = schedule[s] /\ Due(s)
        /\ tx[p].op = "run" =>
              tx[p].new = Missing(ScheduleKey(s, row.next), row.target, row.next)
        /\ tx[p].op = "save" => s \in Schedules /\ row \in Schedule /\ row.interval # 0
        /\ tx[p].op = "dispatch" =>
              \A d \in tx[p].new : /\ d.version = template.version
                                   /\ \A x \in Schedules : d.key # ScheduleKey(x, d.time)

\* A schedule is a whole number of periods past its anchor, and has been
\* dispatched for each of them.
Stepped(s) ==
    /\ anchor[s] <= schedule[s].next
    /\ (schedule[s].next - anchor[s]) % schedule[s].interval = 0
    /\ \A t \in Nat :
        /\ anchor[s] <= t /\ t < schedule[s].next
        /\ (t - anchor[s]) % schedule[s].interval = 0
        => ScheduleKey(s, t) \in Keys(dispatches)

SafetyInv ==
    /\ Typed
    /\ \A p \in Slots : Fresh(p)
    /\ SchedulesFollowTemplate
    /\ \A s \in Schedules : Stepped(s)

-----------------------------------------------------------------------------
(* Counting in periods *)

LEMMA Quotient ==
  ASSUME NEW a \in Nat, NEW i \in Nat \ {0}
  PROVE  a \div i \in Int /\ a = i * (a \div i) + (a % i) /\ a % i \in 0..(i - 1)
  BY SMT

LEMMA TimesMonotone ==
  ASSUME NEW i \in Nat, NEW x \in Int, NEW y \in Int, x <= y PROVE i * x <= i * y
  <1>1. i * (y - x) >= 0 /\ i * (y - x) = i * y - i * x
    BY SMT
  <1>2. QED
    BY <1>1

\* One period on there is a multiple again.
LEMMA NextMultiple ==
  ASSUME NEW a \in Nat, NEW i \in Nat \ {0}, a % i = 0 PROVE (a + i) % i = 0
  <1> DEFINE q == a \div i
             p == (a + i) \div i
             rest == (a + i) % i
  <1>1. q \in Int /\ a = i * q
    BY Quotient
  <1>2. p \in Int /\ a + i = i * p + rest /\ rest \in 0..(i - 1)
    BY Quotient
  <1> HIDE DEF q, p, rest
  <1>3. p <= q => i * p <= i * q
    BY <1>1, <1>2, TimesMonotone
  <1>4. p >= q + 2 => i * (q + 2) <= i * p
    BY <1>1, <1>2, TimesMonotone
  <1>5. i * (q + 2) = i * q + i + i /\ i * (q + 1) = i * q + i
    BY <1>1
  <1>6. i * q \in Int /\ i * p \in Int
    BY <1>1, <1>2
  <1>7. p = q + 1
    BY <1>1, <1>2, <1>3, <1>4, <1>5, <1>6
  <1>8. rest = 0
    BY <1>1, <1>2, <1>5, <1>6, <1>7
  <1>9. QED
    BY <1>8 DEF rest

\* Between a multiple and the next there is none.
LEMMA NoMultipleBetween ==
  ASSUME NEW a \in Nat, NEW i \in Nat \ {0}, NEW t \in Nat,
         a % i = 0, t % i = 0, a <= t, t < a + i
  PROVE  t = a
  <1> DEFINE q == a \div i
             p == t \div i
  <1>1. q \in Int /\ p \in Int /\ a = i * q /\ t = i * p
    BY Quotient
  <1> HIDE DEF q, p
  <1>2. p <= q - 1 => i * p <= i * (q - 1)
    BY <1>1, TimesMonotone
  <1>3. p >= q + 1 => i * (q + 1) <= i * p
    BY <1>1, TimesMonotone
  <1>4. i * (q - 1) = i * q - i /\ i * (q + 1) = i * q + i
    BY <1>1
  <1>5. p = q
    BY <1>1, <1>2, <1>3, <1>4
  <1>6. QED
    BY <1>1, <1>5

\* Advanced by one period and dispatched, a schedule is still stepped.
LEMMA OnePeriod ==
  ASSUME NEW from \in Nat, NEW next \in Nat, NEW i \in Nat \ {0}, NEW t \in Nat,
         from <= next, (next - from) % i = 0
  PROVE  /\ (next + i - from) % i = 0
         /\ next <= t /\ t < next + i /\ (t - from) % i = 0 => t = next
  <1> DEFINE a == next - from
  <1>1. a \in Nat /\ a % i = 0 /\ next + i - from = a + i
    OBVIOUS
  <1>2. (next + i - from) % i = 0
    BY <1>1, NextMultiple
  <1>3. ASSUME next <= t, t < next + i, (t - from) % i = 0 PROVE t = next
    <2> DEFINE b == t - from
    <2>1. b \in Nat /\ b % i = 0 /\ a <= b /\ b < a + i
      BY <1>3
    <2> HIDE DEF a, b
    <2>2. b = a
      BY <1>1, <2>1, NoMultipleBetween
    <2>3. QED
      BY <2>2 DEF a, b
  <1>4. QED
    BY <1>2, <1>3

-----------------------------------------------------------------------------
(* Transactions *)

\* Changing a field of a schedule leaves the others as they were.
LEMMA ScheduleChanges ==
  ASSUME NEW m \in Schedule, NEW n \in Nat
  PROVE  /\ LET new == [m EXCEPT !.next = n]
            IN  new \in Schedule /\ new.next = n /\ new.state = m.state /\ new.interval = m.interval
         /\ LET new == [m EXCEPT !.state = "inactive"]
            IN  /\ new \in Schedule /\ new.next = m.next /\ new.state = "inactive"
                /\ new.interval = m.interval
  BY DEF Schedule

\* What nobody has changed is as fresh as it was, and time only makes more due.
LEMMA FreshStays ==
  ASSUME SafetyInv, UNCHANGED <<template, schedule, dispatches>>, now' \in Nat, now <= now',
         NEW p \in Slots, tx'[p] = tx[p]
  PROVE  Fresh(p)'
  <1>1. Fresh(p) /\ now \in Nat
    BY DEF SafetyInv, Typed
  <1>2. tx[p].op \in {"read", "run"} => schedule[tx[p].id].next \in Nat
    BY <1>1 DEF Fresh, SafetyInv, Typed, Schedule
  <1>3. QED
    BY <1>1, <1>2 DEF Fresh, Due, Missing, ScheduleKey, Keys

LEMMA IdleIsFresh == ASSUME NEW p, tx'[p].op \in {"none", "doomed"} PROVE Fresh(p)'
  BY DEF Fresh

\* A commit dooms whatever else is open, so that nothing stale is left.
LEMMA CommitDooms ==
  ASSUME Isolation = "Serializable", NEW t, tx' = Outdate(t)
  PROVE  DOMAIN tx' = Slots /\ (\A p \in Slots : Fresh(p))'
  <1>1. tx' = [p \in Slots |-> IF p \in Ticks /\ t[p] # Idle
                               THEN [Idle EXCEPT !.op = "doomed"] ELSE Idle]
    BY DEF Outdate
  <1>2. [Idle EXCEPT !.op = "doomed"].op = "doomed" /\ Idle.op = "none"
    BY DEF Idle
  <1>3. ASSUME NEW p \in Slots PROVE Fresh(p)'
    <2>1. tx'[p].op \in {"none", "doomed"}
      BY <1>1, <1>2
    <2>2. QED
      BY <2>1, IdleIsFresh
  <1>4. QED
    BY <1>1, <1>3

\* A step that writes no rows needs to show what its own transaction has read.
LEMMA NothingWritten ==
  ASSUME SafetyInv, UNCHANGED data, eligible' \subseteq Schedules, now' \in Nat, now <= now',
         DOMAIN tx' = Slots,
         \A p \in Slots : tx'[p] = tx[p] \/ Fresh(p)'
  PROVE  SafetyInv'
  <1>1. UNCHANGED <<template, schedule, anchor, dispatches>>
    BY DEF data
  <1>2. Typed'
    BY <1>1 DEF SafetyInv, Typed
  <1>3. \A p \in Slots : Fresh(p)'
    BY <1>1, FreshStays
  <1>4. SchedulesFollowTemplate' /\ \A s \in Schedules : Stepped(s)'
    BY <1>1 DEF SafetyInv, SchedulesFollowTemplate, Stepped, Keys
  <1>5. QED
    BY <1>2, <1>3, <1>4 DEF SafetyInv

LEMMA Opened ==
  ASSUME SafetyInv, NEW p \in Slots, NEW op, NEW id, NEW row, NEW new, Begin(p, op, id, row, new)
  PROVE  /\ DOMAIN tx' = Slots /\ \A q \in Slots : q # p => tx'[q] = tx[q]
         /\ tx'[p].op = op /\ tx'[p].id = id /\ tx'[p].row = row /\ tx'[p].new = new
  BY DEF SafetyInv, Typed, Begin

LEMMA Closed ==
  ASSUME SafetyInv, NEW p \in Slots, tx' = [tx EXCEPT ![p] = Idle]
  PROVE  DOMAIN tx' = Slots /\ \A q \in Slots : tx'[q] = tx[q] \/ Fresh(q)'
  <1>1. DOMAIN tx' = Slots /\ \A q \in Slots : tx'[q] = tx[q] \/ tx'[q].op = "none"
    BY DEF SafetyInv, Typed, Idle
  <1>2. QED
    BY <1>1, IdleIsFresh

-----------------------------------------------------------------------------
(* Steps that write no rows *)

LEMMA TimeAndSlots ==
  ASSUME SafetyInv
  PROVE  now \in Nat /\ eligible \subseteq Schedules /\ DOMAIN tx = Slots
         /\ Ticks \subseteq Slots /\ Requests \subseteq Slots
  BY DEF SafetyInv, Typed, Slots

LEMMA TickReadStep ==
  ASSUME SafetyInv, NEW t \in Ticks, TickRead(t) PROVE SafetyInv'
  <1>1. PICK s \in Schedules : Due(s) /\ Begin(t, "read", s, schedule[s], {})
    BY DEF TickRead
  <1>0. UNCHANGED <<now, data, eligible>>
    BY DEF TickRead
  <1>2. /\ DOMAIN tx' = Slots /\ \A q \in Slots : q # t => tx'[q] = tx[q]
        /\ tx'[t].op = "read" /\ tx'[t].id = s /\ tx'[t].row = schedule[s]
    BY <1>1, TimeAndSlots, Opened
  <1>3. Fresh(t)'
    BY <1>0, <1>1, <1>2 DEF Fresh, Due, data
  <1>4. QED
    BY <1>0, <1>2, <1>3, TimeAndSlots, NothingWritten

LEMMA TickFindStep ==
  ASSUME SafetyInv, NEW t \in Ticks, TickFind(t) PROVE SafetyInv'
  <1> DEFINE s == tx[t].id
             row == tx[t].row
             new == Missing(ScheduleKey(s, row.next), row.target, row.next)
  <1>1. /\ Begin(t, "run", s, row, new) /\ UNCHANGED <<now, data, eligible>>
        /\ tx[t].op = "read" /\ template.active
    BY DEF TickFind, MayDispatch, Dispatchable
  <1>2. s \in Schedules /\ row = schedule[s] /\ Due(s)
    BY <1>1, TimeAndSlots DEF SafetyInv, Fresh
  <1> HIDE DEF s, row
  <1>3. /\ DOMAIN tx' = Slots /\ \A q \in Slots : q # t => tx'[q] = tx[q]
        /\ tx'[t].op = "run" /\ tx'[t].id = s /\ tx'[t].row = row /\ tx'[t].new = new
    BY <1>1, TimeAndSlots, Opened
  <1>4. Fresh(t)'
    BY <1>1, <1>2, <1>3 DEF Fresh, Due, Missing, ScheduleKey, Keys, data
  <1>5. QED
    BY <1>1, <1>3, <1>4, TimeAndSlots, NothingWritten

LEMMA SaveReadStep ==
  ASSUME SafetyInv, NEW r \in Requests, NEW s \in Schedules, SaveRead(r, s) PROVE SafetyInv'
  <1>1. PICK state \in {"active", "inactive"}, target \in Targets,
             next \in Time, interval \in Intervals :
          Begin(r, "save", s, [state |-> state, target |-> target, next |-> next,
                               interval |-> interval], {})
    BY DEF SaveRead
  <1> DEFINE row == [state |-> state, target |-> target, next |-> next, interval |-> interval]
  <1>2. row \in Schedule /\ row.interval # 0
    BY BoundsAssumption DEF Schedule, Time
  <1>3. Begin(r, "save", s, row, {}) /\ template.active /\ UNCHANGED <<now, data, eligible>>
    BY <1>1 DEF SaveRead
  <1> HIDE DEF row
  <1>4. /\ DOMAIN tx' = Slots /\ \A q \in Slots : q # r => tx'[q] = tx[q]
        /\ tx'[r].op = "save" /\ tx'[r].id = s /\ tx'[r].row = row
    BY <1>3, TimeAndSlots, Opened
  <1>5. Fresh(r)'
    BY <1>2, <1>3, <1>4 DEF Fresh, data
  <1>6. QED
    BY <1>3, <1>4, <1>5, TimeAndSlots, NothingWritten

LEMMA DispatchReadStep ==
  ASSUME SafetyInv, NEW r \in Requests, DispatchRead(r) PROVE SafetyInv'
  <1>1. PICK targets \in (SUBSET Targets) \ {{}}, time \in ManualTimes :
          \E key \in [targets -> {<<"caller", c>> : c \in CallerKeys}
                                   \cup {DefaultKey(g, time) : g \in targets}] :
            /\ \A g \in targets : key[g] \in {DefaultKey(g, time)}
                                    \cup {<<"caller", c>> : c \in CallerKeys}
            /\ \A g, h \in targets : key[g] = key[h] => g = h
            /\ \A g \in targets : Dispatchable(key[g])
            /\ Begin(r, "dispatch", 0, NoSchedule,
                     UNION {Missing(key[g], g, time) : g \in targets})
    BY Zenon DEF DispatchRead
  <1>2. PICK key \in [targets -> {<<"caller", c>> : c \in CallerKeys}
                                   \cup {DefaultKey(g, time) : g \in targets}] :
            /\ \A g \in targets : key[g] \in {DefaultKey(g, time)}
                                    \cup {<<"caller", c>> : c \in CallerKeys}
            /\ \A g, h \in targets : key[g] = key[h] => g = h
            /\ \A g \in targets : Dispatchable(key[g])
            /\ Begin(r, "dispatch", 0, NoSchedule,
                     UNION {Missing(key[g], g, time) : g \in targets})
    BY <1>1
  <1> DEFINE new == UNION {Missing(key[g], g, time) : g \in targets}
  <1>3. template.active /\ UNCHANGED <<now, data, eligible>>
    BY <1>1, <1>2 DEF DispatchRead, Dispatchable
  <1>4. ASSUME NEW d \in new
        PROVE  /\ d.version = template.version
               /\ \A x \in Schedules : d.key # ScheduleKey(x, d.time)
    <2>1. PICK g \in targets : d \in Missing(key[g], g, time)
      OBVIOUS
    <2>2. d.version = template.version /\ d.key = key[g]
      BY <2>1 DEF Missing
    <2>3. d.key = DefaultKey(g, time) \/ \E c \in CallerKeys : d.key = <<"caller", c>>
      BY <1>2, <2>2
    <2>4. ASSUME NEW x \in Schedules PROVE d.key # ScheduleKey(x, d.time)
      BY <2>3 DEF DefaultKey, ScheduleKey
    <2>5. QED
      BY <2>2, <2>4
  <1>5. Begin(r, "dispatch", 0, NoSchedule, new)
    BY <1>2
  <1> HIDE DEF new
  <1>6. /\ DOMAIN tx' = Slots /\ \A q \in Slots : q # r => tx'[q] = tx[q]
        /\ tx'[r].op = "dispatch" /\ tx'[r].new = new
    BY <1>5, TimeAndSlots, Opened
  <1>7. Fresh(r)'
    BY <1>3, <1>4, <1>6 DEF Fresh, data, ScheduleKey
  <1>8. QED
    BY <1>3, <1>6, <1>7, TimeAndSlots, NothingWritten

LEMMA NoCommitStep ==
  ASSUME SafetyInv,
         \/ \E t \in Ticks : \/ TickLookup(t) \/ TickSkip(t) \/ TickFail(t)
                             \/ TickRead(t) \/ TickFind(t)
         \/ \E r \in Requests : \/ DispatchRead(r) \/ Fail(r)
                                \/ \E s \in Schedules : SaveRead(r, s)
         \/ Elapse
         \/ UNCHANGED vars
  PROVE  SafetyInv'
  <1>1. ASSUME NEW t \in Ticks, TickLookup(t) PROVE SafetyInv'
    <2>1. UNCHANGED <<now, data, eligible, tx>>
      BY <1>1 DEF TickLookup
    <2>2. QED
      BY <2>1, TimeAndSlots, NothingWritten
  <1>2. ASSUME NEW p \in Slots, tx' = [tx EXCEPT ![p] = Idle], UNCHANGED <<now, data, eligible>>
        PROVE  SafetyInv'
    <2>1. DOMAIN tx' = Slots /\ \A q \in Slots : tx'[q] = tx[q] \/ Fresh(q)'
      BY <1>2, Closed
    <2>2. now' \in Nat /\ now <= now' /\ eligible' \subseteq Schedules
      BY <1>2, TimeAndSlots
    <2>3. QED
      BY <1>2, <2>1, <2>2, NothingWritten
  <1>3. ASSUME NEW t \in Ticks, TickSkip(t) \/ TickFail(t) PROVE SafetyInv'
    BY <1>2, <1>3, TimeAndSlots DEF TickSkip, TickFail
  <1>4. ASSUME NEW r \in Requests, Fail(r) PROVE SafetyInv'
    BY <1>2, <1>4, TimeAndSlots DEF Fail
  <1>5. CASE Elapse
    <2>1. now' = now + 1 /\ UNCHANGED <<data, eligible, tx>>
      BY <1>5 DEF Elapse
    <2>2. now' \in Nat /\ now <= now'
      BY <2>1, TimeAndSlots
    <2>3. QED
      BY <2>1, <2>2, TimeAndSlots, NothingWritten
  <1>6. CASE UNCHANGED vars
    <2>1. UNCHANGED <<now, data, eligible, tx>>
      BY <1>6 DEF vars
    <2>2. QED
      BY <2>1, TimeAndSlots, NothingWritten
  <1>7. QED
    BY <1>1, <1>3, <1>4, <1>5, <1>6, TickReadStep, TickFindStep, SaveReadStep,
       DispatchReadStep

-----------------------------------------------------------------------------
(* Commits *)

\* A commit that leaves the schedules alone, dispatches included or not.
LEMMA SchedulesStay ==
  ASSUME SafetyInv, UNCHANGED <<schedule, anchor>>, Keys(dispatches) \subseteq Keys(dispatches')
  PROVE  \A s \in Schedules : Stepped(s)'
  BY DEF SafetyInv, Stepped, Keys, ScheduleKey

LEMMA CommitKeeps ==
  ASSUME Isolation = "Serializable", SafetyInv, NEW t, tx' = Outdate(t),
         now' = now, eligible' \subseteq Schedules,
         template' \in [active: BOOLEAN, version: Nat],
         DOMAIN schedule' = Schedules, DOMAIN anchor' = Schedules,
         \A s \in Schedules :
            schedule'[s] \in Schedule /\ schedule'[s].interval # 0 /\ anchor'[s] \in Nat,
         SchedulesFollowTemplate', \A s \in Schedules : Stepped(s)'
  PROVE  SafetyInv'
  BY CommitDooms DEF SafetyInv, Typed

\* The parts of the invariant for a commit.
LEMMA Rows ==
  ASSUME SafetyInv
  PROVE  /\ eligible \subseteq Schedules /\ template \in [active: BOOLEAN, version: Nat]
         /\ DOMAIN schedule = Schedules /\ DOMAIN anchor = Schedules
         /\ \A s \in Schedules :
              /\ schedule[s] \in Schedule /\ schedule[s].interval # 0 /\ anchor[s] \in Nat
              /\ schedule[s].next \in Nat /\ schedule[s].interval \in Nat \ {0}
              /\ Stepped(s)
         /\ SchedulesFollowTemplate
  BY DEF SafetyInv, Typed, Schedule

LEMMA KeysGrow ==
  ASSUME NEW new, Insert(new)
  PROVE  Keys(dispatches') = Keys(dispatches) \cup Keys(new)
  BY DEF Insert, Keys

\* With what is missing the key is there.
LEMMA MissingKey ==
  ASSUME NEW key, NEW target, NEW time
  PROVE  key \in Keys(dispatches) \cup Keys(Missing(key, target, time))
  <1> DEFINE d == [key |-> key, version |-> template.version, target |-> target, time |-> time]
  <1>1. d.key = key
    OBVIOUS
  <1>2. key \notin Keys(dispatches) => d \in Missing(key, target, time)
    BY DEF Missing
  <1>3. QED
    BY <1>1, <1>2 DEF Keys

LEMMA DispatchCommitStep ==
  ASSUME Isolation = "Serializable", SafetyInv, NEW r \in Requests, DispatchCommit(r)
  PROVE  SafetyInv'
  <1>1. /\ tx' = Outdate([tx EXCEPT ![r] = Idle])
        /\ UNCHANGED <<now, template, schedule, anchor, eligible>>
        /\ Keys(dispatches) \subseteq Keys(dispatches')
    BY KeysGrow DEF DispatchCommit, Commit
  <1>2. \A s \in Schedules : Stepped(s)'
    BY <1>1, SchedulesStay
  <1>3. SchedulesFollowTemplate'
    BY <1>1, Rows DEF SchedulesFollowTemplate
  <1>4. QED
    BY <1>1, <1>2, <1>3, Rows, CommitKeeps

LEMMA TickCommitStep ==
  ASSUME Isolation = "Serializable", SafetyInv, NEW t \in Ticks, TickCommit(t)
  PROVE  SafetyInv'
  <1> DEFINE s == tx[t].id
             row == tx[t].row
             next == NextRun(row)
             new == [schedule[s] EXCEPT !.next = next]
  <1>1. /\ s \in Schedules /\ row = schedule[s] /\ Due(s) /\ template.active
        /\ tx[t].new = Missing(ScheduleKey(s, row.next), row.target, row.next)
    BY TimeAndSlots DEF SafetyInv, Fresh, TickCommit
  <1>2. /\ Insert(tx[t].new) /\ schedule' = [schedule EXCEPT ![s] = new]
        /\ tx' = Outdate([tx EXCEPT ![t] = Idle])
        /\ UNCHANGED <<now, template, anchor, eligible>>
    BY DEF TickCommit, Commit
  <1>3. row.next \in Nat /\ row.interval \in Nat \ {0} /\ next = row.next + row.interval
    BY <1>1, Rows DEF NextRun
  <1>4. /\ new \in Schedule /\ new.next = next /\ new.state = schedule[s].state
        /\ new.interval = row.interval
    <2>1. schedule[s] \in Schedule /\ next \in Nat
      BY <1>1, <1>3, Rows
    <2> HIDE DEF s, next
    <2>2. /\ new \in Schedule /\ new.next = next /\ new.state = schedule[s].state
          /\ new.interval = schedule[s].interval
      BY <2>1, ScheduleChanges, Zenon
    <2>3. QED
      BY <1>1, <2>2
  <1>5. Keys(dispatches') = Keys(dispatches) \cup Keys(tx[t].new)
    BY <1>2, KeysGrow
  <1>6. ScheduleKey(s, row.next) \in Keys(dispatches')
    BY <1>1, <1>5, MissingKey
  <1> HIDE DEF s, row, next, new
  <1>7. \A x \in Schedules : schedule'[x] = IF x = s THEN new ELSE schedule[x]
    BY <1>2, Rows
  <1>8. ASSUME NEW x \in Schedules PROVE Stepped(x)'
    <2>1. CASE x # s
      BY <1>2, <1>5, <1>7, <2>1, Rows DEF Stepped, ScheduleKey
    <2>2. CASE x = s
      <3>1. /\ anchor'[s] = anchor[s] /\ anchor[s] \in Nat
            /\ schedule'[s].next = next /\ schedule'[s].interval = row.interval
        BY <1>1, <1>2, <1>4, <1>7, Rows
      <3>2. anchor[s] <= row.next /\ (row.next - anchor[s]) % row.interval = 0
        BY <1>1, Rows DEF Stepped
      <3>3. anchor[s] <= next /\ (next - anchor[s]) % row.interval = 0
        BY <1>3, <3>1, <3>2, OnePeriod
      <3>4. ASSUME NEW time \in Nat, anchor[s] <= time, time < next,
                   (time - anchor[s]) % row.interval = 0
            PROVE  ScheduleKey(s, time) \in Keys(dispatches')
        <4>1. CASE time < row.next
          BY <1>1, <1>5, <3>4, <4>1, Rows DEF Stepped
        <4>2. CASE row.next <= time
          <5>1. time = row.next
            BY <1>3, <3>1, <3>2, <3>4, <4>2, OnePeriod
          <5>2. QED
            BY <1>6, <5>1
        <4>3. QED
          BY <1>3, <4>1, <4>2
      <3>5. QED
        BY <2>2, <3>1, <3>3, <3>4 DEF Stepped, ScheduleKey
    <2>3. QED
      BY <2>1, <2>2
  <1>9. SchedulesFollowTemplate'
    BY <1>1, <1>2, <1>4, <1>7, Rows DEF SchedulesFollowTemplate
  <1>10. \A x \in Schedules :
           schedule'[x] \in Schedule /\ schedule'[x].interval # 0 /\ anchor'[x] \in Nat
    BY <1>2, <1>3, <1>4, <1>7, Rows
  <1>11. DOMAIN schedule' = Schedules
    BY <1>2, Rows
  <1>12. QED
    BY <1>2, <1>8, <1>9, <1>10, <1>11, Rows, CommitKeeps

LEMMA SaveCommitStep ==
  ASSUME Isolation = "Serializable", SafetyInv, NEW r \in Requests, SaveCommit(r)
  PROVE  SafetyInv'
  <1> DEFINE s == tx[r].id
             row == tx[r].row
  <1>1. s \in Schedules /\ row \in Schedule /\ row.interval # 0 /\ template.active
    BY TimeAndSlots DEF SafetyInv, Fresh, SaveCommit
  <1>2. /\ schedule' = [schedule EXCEPT ![s] = row] /\ anchor' = [anchor EXCEPT ![s] = row.next]
        /\ tx' = Outdate([tx EXCEPT ![r] = Idle])
        /\ UNCHANGED <<now, template, dispatches, eligible>>
    BY DEF SaveCommit, Commit
  <1> HIDE DEF s, row
  <1>3. row.next \in Nat /\ row.interval \in Nat \ {0}
    BY <1>1 DEF Schedule
  <1>4. /\ DOMAIN schedule' = Schedules /\ DOMAIN anchor' = Schedules
        /\ \A x \in Schedules : /\ schedule'[x] = IF x = s THEN row ELSE schedule[x]
                                /\ anchor'[x] = IF x = s THEN row.next ELSE anchor[x]
    BY <1>2, Rows
  <1>5. ASSUME NEW x \in Schedules PROVE Stepped(x)'
    <2>1. CASE x # s
      BY <1>2, <1>4, <2>1, Rows DEF Stepped, ScheduleKey, Keys
    <2>2. CASE x = s
      <3>1. 0 % row.interval = 0 /\ row.next - row.next = 0
        BY <1>3, SMT
      <3>2. QED
        BY <1>3, <1>4, <2>2, <3>1 DEF Stepped
    <2>3. QED
      BY <2>1, <2>2
  <1>6. SchedulesFollowTemplate'
    BY <1>1, <1>2, <1>4, Rows DEF SchedulesFollowTemplate
  <1>7. \A x \in Schedules :
           schedule'[x] \in Schedule /\ schedule'[x].interval # 0 /\ anchor'[x] \in Nat
    BY <1>1, <1>3, <1>4, Rows
  <1>8. QED
    BY <1>2, <1>4, <1>5, <1>6, <1>7, Rows, CommitKeeps

\* Schedules that are at most switched off stay as they were otherwise.
LEMMA SwitchedOff ==
  ASSUME SafetyInv, UNCHANGED <<anchor, dispatches>>, DOMAIN schedule' = Schedules,
         \A s \in Schedules : schedule'[s] \in {schedule[s],
                                               [schedule[s] EXCEPT !.state = "inactive"]}
  PROVE  /\ \A s \in Schedules :
              schedule'[s] \in Schedule /\ schedule'[s].interval # 0 /\ anchor'[s] \in Nat
         /\ \A s \in Schedules : Stepped(s)'
         /\ \A s \in Schedules : schedule'[s].state = "active" => schedule[s].state = "active"
  <1>1. ASSUME NEW s \in Schedules
        PROVE  /\ schedule'[s] \in Schedule /\ schedule'[s].next = schedule[s].next
               /\ schedule'[s].interval = schedule[s].interval
               /\ schedule'[s].state = "active" => schedule[s].state = "active"
    <2> DEFINE off == [schedule[s] EXCEPT !.state = "inactive"]
    <2>1. schedule[s] \in Schedule /\ 0 \in Nat
      BY Rows
    <2>2. /\ off \in Schedule /\ off.next = schedule[s].next /\ off.state = "inactive"
          /\ off.interval = schedule[s].interval
      BY <2>1, ScheduleChanges, Zenon
    <2>3. schedule'[s] = schedule[s] \/ schedule'[s] = off
      OBVIOUS
    <2> HIDE DEF off
    <2>4. QED
      BY <2>1, <2>2, <2>3
  <1>2. ASSUME NEW s \in Schedules PROVE Stepped(s)'
    <2>1. Stepped(s)
      BY Rows
    <2>2. QED
      BY <1>1, <2>1 DEF Stepped, ScheduleKey, Keys
  <1>3. QED
    BY <1>1, <1>2, Rows

LEMMA SwitchStep ==
  ASSUME Isolation = "Serializable", SafetyInv,
         \/ \E s \in Schedules : DeleteSchedule(s)
         \/ \E active \in BOOLEAN : UpdateTemplate(active)
         \/ DeleteTemplate
  PROVE  SafetyInv'
  <1>1. tx' = Outdate(tx) /\ UNCHANGED <<now, anchor, dispatches, eligible>>
    BY DEF DeleteSchedule, UpdateTemplate, DeleteTemplate
  <1>2. \/ /\ template' = template
           /\ \E s \in Schedules : schedule' = [schedule EXCEPT ![s].state = "inactive"]
        \/ /\ template' \in [active: BOOLEAN, version: Nat]
           /\ schedule' = Deactivated \/ (template'.active /\ schedule' = schedule)
    <2>1. template \in [active: BOOLEAN, version: Nat]
      BY Rows
    <2>2. CASE \E s \in Schedules : DeleteSchedule(s)
      BY <2>2 DEF DeleteSchedule
    <2>3. ASSUME NEW active \in BOOLEAN, UpdateTemplate(active)
          PROVE  /\ template' \in [active: BOOLEAN, version: Nat]
                 /\ schedule' = Deactivated \/ (template'.active /\ schedule' = schedule)
      BY <2>1, <2>3 DEF UpdateTemplate
    <2>4. CASE DeleteTemplate
      BY <2>1, <2>4 DEF DeleteTemplate
    <2>5. QED
      BY <2>2, <2>3, <2>4
  <1>3. ASSUME NEW s \in Schedules
        PROVE  schedule'[s] \in {schedule[s], [schedule[s] EXCEPT !.state = "inactive"]}
    <2> DEFINE off(x) == [schedule[x] EXCEPT !.state = "inactive"]
    <2>1. DOMAIN schedule = Schedules
      BY Rows
    <2>2. ASSUME NEW x \in Schedules, schedule' = [schedule EXCEPT ![x].state = "inactive"]
          PROVE  schedule'[s] \in {schedule[s], off(s)}
      <3>1. schedule' = [schedule EXCEPT ![x] = off(x)]
        BY <2>2
      <3> HIDE DEF off
      <3>2. QED
        BY <2>1, <3>1
    <2>3. ASSUME schedule' = Deactivated PROVE schedule'[s] \in {schedule[s], off(s)}
      <3>1. schedule' = [x \in Schedules |-> IF schedule[x].state = "active" THEN off(x)
                                             ELSE schedule[x]]
        BY <2>3 DEF Deactivated
      <3> HIDE DEF off
      <3>2. QED
        BY <3>1
    <2> HIDE DEF off
    <2>4. schedule'[s] \in {schedule[s], off(s)}
      BY <1>2, <2>2, <2>3
    <2>5. QED
      BY <2>4, Zenon DEF off
  <1>4. DOMAIN schedule' = Schedules
    BY <1>2, Rows DEF Deactivated
  <1>5. ASSUME NEW s \in Schedules, schedule' = Deactivated PROVE schedule'[s].state # "active"
    <2> DEFINE off == [schedule[s] EXCEPT !.state = "inactive"]
    <2>1. schedule[s] \in Schedule /\ 0 \in Nat
      BY Rows
    <2>2. off.state = "inactive"
      BY <2>1, ScheduleChanges, Zenon
    <2>3. schedule'[s] = IF schedule[s].state = "active" THEN off ELSE schedule[s]
      BY <1>5 DEF Deactivated
    <2> HIDE DEF off
    <2>4. QED
      BY <2>2, <2>3
  <1>6. SchedulesFollowTemplate'
    BY <1>1, <1>2, <1>3, <1>4, <1>5, Rows, SwitchedOff DEF SchedulesFollowTemplate
  <1>7. template' \in [active: BOOLEAN, version: Nat]
    BY <1>2, Rows
  <1>8. QED
    BY <1>1, <1>3, <1>4, <1>6, <1>7, Rows, SwitchedOff, CommitKeeps

LEMMA AroundStep ==
  ASSUME Isolation = "Serializable", SafetyInv,
         RemoveProfile \/ \E s \in Schedules : ToggleEligible(s)
  PROVE  SafetyInv'
  <1>1. tx' = Outdate(tx) /\ UNCHANGED <<now, template, schedule, anchor, dispatches>>
    BY DEF RemoveProfile, ToggleEligible, data
  <1>2. eligible' \subseteq Schedules
    BY Rows DEF RemoveProfile, ToggleEligible
  <1>3. (\A s \in Schedules : Stepped(s)') /\ SchedulesFollowTemplate'
    BY <1>1, Rows, SchedulesStay DEF SchedulesFollowTemplate
  <1>4. QED
    BY <1>1, <1>2, <1>3, Rows, CommitKeeps

-----------------------------------------------------------------------------
(* The invariant, and what follows from it *)

LEMMA SafetyStep ==
  ASSUME Isolation = "Serializable", SafetyInv, [Next]_vars PROVE SafetyInv'
  BY NoCommitStep, DispatchCommitStep, TickCommitStep, SaveCommitStep, SwitchStep, AroundStep
     DEF Next, TickStep, RequestStep

LEMMA SafetyInit == Init => SafetyInv
  <1> SUFFICES ASSUME Init PROVE SafetyInv
    OBVIOUS
  <1>1. NoSchedule \in Schedule /\ NoSchedule.interval = 1 /\ NoSchedule.next = 0
    BY DEF NoSchedule, Schedule
  <1>2. Typed
    BY <1>1 DEF Init, Typed
  <1>3. \A p \in Slots : Fresh(p)
    BY DEF Init, Fresh, Idle
  <1>4. SchedulesFollowTemplate
    BY DEF Init, SchedulesFollowTemplate
  <1>5. 0 % 1 = 0
    BY SMT
  <1>6. \A s \in Schedules : Stepped(s)
    BY <1>1, <1>5 DEF Init, Stepped
  <1>7. QED
    BY <1>2, <1>3, <1>4, <1>6 DEF SafetyInv

LEMMA SafetyInvariant == ASSUME Isolation = "Serializable" PROVE Spec => []SafetyInv
  BY SafetyInit, SafetyStep, PTL DEF Spec

\* On a serializable database no occurrence of a schedule is skipped, however ticks
\* overlap, fail and race with edits and dispatches by hand.
THEOREM EveryOccurrenceIsDispatched ==
  ASSUME Isolation = "Serializable" PROVE Spec => []NoOccurrenceSkipped
  <1>1. SafetyInv => NoOccurrenceSkipped
    BY BoundsAssumption DEF SafetyInv, Stepped, NoOccurrenceSkipped
  <1>2. QED
    BY <1>1, SafetyInvariant, PTL

\* On a serializable database no schedule is active under an inactive template.
THEOREM SchedulesEndWithTemplate ==
  ASSUME Isolation = "Serializable" PROVE Spec => []SchedulesFollowTemplate
  <1>1. SafetyInv => SchedulesFollowTemplate
    BY DEF SafetyInv
  <1>2. QED
    BY <1>1, SafetyInvariant, PTL

\* On a serializable database a cancelled template generates no tasks, and neither
\* does a cancelled or advanced schedule, whatever was read before.
THEOREM DispatchesAreCurrent ==
  ASSUME Isolation = "Serializable" PROVE Spec => DispatchIsCurrent
  <1> DEFINE Current ==
        \A d \in dispatches' \ dispatches :
          /\ template.active /\ d.version = template.version
          /\ \A s \in Schedules :
                d.key = ScheduleKey(s, d.time) =>
                    /\ schedule[s].state = "active"
                    /\ schedule[s].next = d.time /\ d.time <= now
  <1>1. ASSUME SafetyInv, NEW r \in Requests, DispatchCommit(r) PROVE Current
    <2>1. dispatches' = dispatches \cup tx[r].new /\ tx[r].op = "dispatch" /\ Fresh(r)
      BY <1>1, TimeAndSlots DEF DispatchCommit, Insert, SafetyInv
    <2>2. QED
      BY <2>1 DEF Fresh
  <1>2. ASSUME SafetyInv, NEW t \in Ticks, TickCommit(t) PROVE Current
    <2>1. dispatches' = dispatches \cup tx[t].new /\ tx[t].op = "run" /\ Fresh(t)
      BY <1>2, TimeAndSlots DEF TickCommit, Insert, SafetyInv
    <2> DEFINE s == tx[t].id
               row == schedule[s]
    <2>2. /\ template.active /\ s \in Schedules /\ row.state = "active" /\ row.next <= now
          /\ tx[t].new = Missing(ScheduleKey(s, row.next), row.target, row.next)
      BY <2>1 DEF Fresh, Due
    <2> HIDE DEF s
    <2>3. ASSUME NEW d \in tx[t].new
          PROVE  /\ d.version = template.version /\ d.time = row.next
                 /\ d.key = ScheduleKey(s, row.next)
      BY <2>2 DEF Missing
    <2>4. ASSUME NEW x \in Schedules, NEW time, ScheduleKey(s, row.next) = ScheduleKey(x, time)
          PROVE  x = s
      BY <2>4 DEF ScheduleKey
    <2>5. QED
      BY <2>1, <2>2, <2>3, <2>4
  <1>3. ASSUME dispatches' = dispatches PROVE Current
    BY <1>3
  <1>4. ASSUME SafetyInv, [Next]_vars PROVE Current
    BY <1>1, <1>2, <1>3, <1>4 DEF Next, TickStep, RequestStep, TickLookup, TickSkip, TickRead,
       TickFind, TickFail, DispatchRead, SaveRead, SaveCommit, Fail, DeleteSchedule, ToggleEligible,
       UpdateTemplate, DeleteTemplate, RemoveProfile, Elapse, data, vars
  <1>5. SafetyInv /\ [Next]_vars => [Current]_vars
    BY <1>4
  <1>6. QED
    BY <1>5, SafetyInvariant, PTL DEF DispatchIsCurrent, Spec

-----------------------------------------------------------------------------
(***************************************************************************)
(* Schedules that nobody updates are dispatched for their occurrences in    *)
(* order, once each, on either database.  A tick that holds an outdated row *)
(* may set the schedule back to the occurrence after the one it read.  What *)
(* it has read is an occurrence with nothing missing before it, and that    *)
(* stays so whatever else is dispatched, so the schedule never goes back to *)
(* a time before which something is missing.                                *)
(***************************************************************************)

RowsTyped ==
    /\ DOMAIN schedule = Schedules /\ DOMAIN anchor = Schedules /\ DOMAIN tx = Slots
    /\ eligible \subseteq Schedules
    /\ \A s \in Schedules :
        schedule[s] \in Schedule /\ schedule[s].interval # 0 /\ anchor[s] \in Nat

Dispatched(s, t) == ScheduleKey(s, t) \in Keys(dispatches)

\* Nothing is missing before time.
Complete(s, time) ==
    \A t \in Nat : Occurs(s, t) /\ t < time => Dispatched(s, t)

\* The next run is an occurrence with nothing missing before it.
Aligned(s) == Occurs(s, schedule[s].next) /\ Complete(s, schedule[s].next)

\* What was dispatched for a schedule is for its occurrences, to its target, not
\* before its time and with nothing missing before it.
OwnOnly(s) == \A d \in dispatches, t \in Nat :
    d.key = ScheduleKey(s, t) =>
        /\ schedule[s].state # "none" /\ d.target = schedule[s].target
        /\ Occurs(s, t) /\ t <= now /\ Complete(s, t)

\* The unique index.
OneEach == \A d, e \in dispatches : d.key = e.key => d = e

\* A run in flight is for an occurrence with nothing missing before it, and has
\* something to insert or found it dispatched.
Underway(p) ==
    LET s == tx[p].id  row == tx[p].row
    IN  /\ tx[p].op \in {"read", "run"} =>
              /\ s \in Schedules /\ schedule[s].state # "none"
              /\ row.next \in Nat /\ row.next <= now /\ row.interval = schedule[s].interval
              /\ row.target = schedule[s].target
              /\ Occurs(s, row.next) /\ Complete(s, row.next)
        /\ tx[p].op = "run" =>
              /\ \A d \in tx[p].new : d.key = ScheduleKey(s, row.next) /\ d.target = row.target
              /\ \A d, e \in tx[p].new : d = e
              /\ tx[p].new # {} \/ Dispatched(s, row.next)
        /\ tx[p].op = "save" =>
              s \in Schedules /\ row \in Schedule /\ row.interval # 0 /\ row.state # "none"
        /\ tx[p].op = "dispatch" =>
              /\ \A d \in tx[p].new, x \in Schedules, t \in Nat : d.key # ScheduleKey(x, t)
              /\ \A d, e \in tx[p].new : d.key = e.key => d = e

ExactInv ==
    /\ RowsTyped /\ now \in Nat /\ OneEach
    /\ \A p \in Slots : Underway(p)
    /\ \A s \in Schedules : Aligned(s) /\ OwnOnly(s)

-----------------------------------------------------------------------------
(* Steps that write no rows *)

LEMMA RowsOf ==
  ASSUME ExactInv
  PROVE  /\ Ticks \subseteq Slots /\ Requests \subseteq Slots /\ eligible \subseteq Schedules
         /\ \A s \in Schedules :
              /\ schedule[s].next \in Nat /\ schedule[s].interval \in Nat \ {0}
              /\ anchor[s] \in Nat /\ Aligned(s) /\ OwnOnly(s)
         /\ now \in Nat /\ OneEach
  BY DEF ExactInv, RowsTyped, Schedule, Slots

LEMMA IdleIsUnderway == ASSUME NEW p, tx'[p].op \in {"none", "doomed"} PROVE Underway(p)'
  BY DEF Underway

\* A schedule that keeps its anchor and interval keeps its occurrences, and what is
\* complete before a time stays complete.
LEMMA CompleteStays ==
  ASSUME NEW s \in Schedules, schedule'[s].interval = schedule[s].interval,
         anchor'[s] = anchor[s], Keys(dispatches) \subseteq Keys(dispatches')
  PROVE  \A t \in Nat : /\ Occurs(s, t)' <=> Occurs(s, t)
                        /\ Dispatched(s, t) => Dispatched(s, t)'
                        /\ Complete(s, t) => Complete(s, t)'
  BY DEF Occurs, Complete, Dispatched, ScheduleKey

\* A schedule whose rows are as before is as sound as before, and so is what was
\* dispatched for it.
LEMMA OthersStay ==
  ASSUME ExactInv, NEW x \in Schedules, schedule'[x] = schedule[x], anchor'[x] = anchor[x],
         now' \in Nat, now <= now', dispatches \subseteq dispatches',
         \A d \in dispatches' \ dispatches, t \in Nat : d.key # ScheduleKey(x, t)
  PROVE  Aligned(x)' /\ OwnOnly(x)'
  <1>1. Keys(dispatches) \subseteq Keys(dispatches')
    BY DEF Keys
  <1>2. \A t \in Nat : (Occurs(x, t)' <=> Occurs(x, t)) /\ (Complete(x, t) => Complete(x, t)')
    BY <1>1, CompleteStays
  <1>3. Aligned(x) /\ OwnOnly(x) /\ schedule[x].next \in Nat /\ now \in Nat
    BY RowsOf
  <1>4. Aligned(x)'
    BY <1>2, <1>3 DEF Aligned
  <1>5. ASSUME NEW d \in dispatches', NEW t \in Nat, d.key = ScheduleKey(x, t)
        PROVE  /\ schedule'[x].state # "none" /\ d.target = schedule'[x].target
               /\ Occurs(x, t)' /\ t <= now' /\ Complete(x, t)'
    BY <1>2, <1>3, <1>5 DEF OwnOnly
  <1>6. OwnOnly(x)'
    BY <1>5 DEF OwnOnly, ScheduleKey
  <1>7. QED
    BY <1>4, <1>6

\* Schedules that are there stay, with their target, interval and anchor, and so do
\* dispatches.
Forward ==
    /\ now' \in Nat /\ now <= now' /\ dispatches \subseteq dispatches'
    /\ \A s \in Schedules : schedule[s].state # "none" =>
        /\ schedule'[s].state # "none"
        /\ schedule'[s].target = schedule[s].target
        /\ schedule'[s].interval = schedule[s].interval
        /\ anchor'[s] = anchor[s]

LEMMA UnderwayStays ==
  ASSUME ExactInv, Forward, NEW p \in Slots, tx'[p] = tx[p] PROVE Underway(p)'
  <1>0. Keys(dispatches) \subseteq Keys(dispatches')
    BY DEF Forward, Keys
  <1>1. Underway(p) /\ now \in Nat
    BY DEF ExactInv
  <1>2. tx[p].op \notin {"read", "run"} => Underway(p)'
    BY <1>1 DEF Underway, ScheduleKey
  <1>3. ASSUME tx[p].op \in {"read", "run"} PROVE Underway(p)'
    <2>1. PICK s \in Schedules, time \in Nat :
            s = tx[p].id /\ time = tx[p].row.next /\ schedule[s].state # "none"
      BY <1>1, <1>3 DEF Underway
    <2>2. /\ schedule'[s].state # "none" /\ schedule'[s].target = schedule[s].target
          /\ schedule'[s].interval = schedule[s].interval /\ anchor'[s] = anchor[s]
          /\ now <= now' /\ now' \in Nat
      BY <2>1 DEF Forward
    <2>3. /\ Occurs(s, time)' <=> Occurs(s, time)
          /\ Dispatched(s, time) => Dispatched(s, time)'
          /\ Complete(s, time) => Complete(s, time)'
      BY <1>0, <2>2, CompleteStays
    <2>4. QED
      BY <1>1, <1>3, <2>1, <2>2, <2>3 DEF Underway, ScheduleKey
  <1>4. QED
    BY <1>2, <1>3

LEMMA RowsKept ==
  ASSUME ExactInv, UNCHANGED <<schedule, anchor, dispatches>>, DOMAIN tx' = Slots,
         eligible' \subseteq Schedules, now' \in Nat, now <= now',
         \A p \in Slots : tx'[p] = tx[p] \/ Underway(p)'
  PROVE  ExactInv'
  <1>1. RowsTyped' /\ OneEach'
    BY DEF ExactInv, RowsTyped, OneEach
  <1>2. Forward
    BY DEF Forward
  <1>3. \A s \in Schedules : Aligned(s)' /\ OwnOnly(s)'
    BY OthersStay
  <1>4. QED
    BY <1>1, <1>2, <1>3, UnderwayStays DEF ExactInv

LEMMA Opens ==
  ASSUME ExactInv, NEW p \in Slots, NEW op, NEW id, NEW row, NEW new, Begin(p, op, id, row, new)
  PROVE  /\ DOMAIN tx' = Slots /\ \A q \in Slots : q # p => tx'[q] = tx[q]
         /\ tx'[p].op = op /\ tx'[p].id = id /\ tx'[p].row = row /\ tx'[p].new = new
  BY DEF ExactInv, RowsTyped, Begin

LEMMA Closes ==
  ASSUME ExactInv, NEW p \in Slots, tx' = [tx EXCEPT ![p] = Idle],
         UNCHANGED <<now, schedule, anchor, dispatches, eligible>>
  PROVE  ExactInv'
  <1>1. DOMAIN tx' = Slots /\ \A q \in Slots : tx'[q] = tx[q] \/ tx'[q].op = "none"
    BY DEF ExactInv, RowsTyped, Idle
  <1>2. QED
    BY <1>1, RowsOf, IdleIsUnderway, RowsKept

LEMMA RowIsRead ==
  ASSUME ExactInv, NEW t \in Ticks, TickRead(t) PROVE ExactInv'
  <1>1. PICK s \in Schedules : Due(s) /\ Begin(t, "read", s, schedule[s], {})
    BY DEF TickRead
  <1>2. UNCHANGED <<now, schedule, anchor, dispatches, eligible>>
    BY DEF TickRead, data
  <1>3. /\ DOMAIN tx' = Slots /\ \A q \in Slots : q # t => tx'[q] = tx[q]
        /\ tx'[t].op = "read" /\ tx'[t].id = s /\ tx'[t].row = schedule[s]
    BY <1>1, RowsOf, Opens
  <1>4. /\ schedule[s].state # "none" /\ schedule[s].next \in Nat /\ schedule[s].next <= now
        /\ Occurs(s, schedule[s].next) /\ Complete(s, schedule[s].next)
    BY <1>1, RowsOf DEF Due, Aligned
  <1>5. \A u \in Nat : Occurs(s, u)' <=> Occurs(s, u)
    BY <1>2 DEF Occurs
  <1>6. \A u \in Nat : Complete(s, u) => Complete(s, u)'
    BY <1>2 DEF Complete, Occurs, Dispatched, Keys, ScheduleKey
  <1>7. Underway(t)'
    BY <1>2, <1>3, <1>4, <1>5, <1>6 DEF Underway
  <1>8. QED
    BY <1>2, <1>3, <1>7, RowsOf, RowsKept

\* What is found is for the occurrence that was read, or it is there already.
LEMMA KeyIsFound ==
  ASSUME ExactInv, NEW t \in Ticks, TickFind(t) PROVE ExactInv'
  <1>1. /\ Begin(t, "run", tx[t].id, tx[t].row,
                 Missing(ScheduleKey(tx[t].id, tx[t].row.next), tx[t].row.target, tx[t].row.next))
        /\ tx[t].op = "read" /\ UNCHANGED <<now, schedule, anchor, dispatches, eligible>>
    BY DEF TickFind, data
  <1>2. Underway(t) /\ t \in Slots
    BY RowsOf DEF ExactInv
  <1>0. PICK row : row = tx[t].row
    OBVIOUS
  <1>3. PICK s \in Schedules, time \in Nat :
          /\ s = tx[t].id /\ time = row.next
          /\ schedule[s].state # "none" /\ time <= now /\ row.interval = schedule[s].interval
          /\ row.target = schedule[s].target
          /\ Occurs(s, time) /\ Complete(s, time)
    BY <1>0, <1>1, <1>2 DEF Underway
  <1>4. PICK new : new = Missing(ScheduleKey(s, time), row.target, time)
    OBVIOUS
  <1>5. /\ \A d \in new : d.key = ScheduleKey(s, time) /\ d.target = row.target
        /\ \A d, e \in new : d = e
        /\ new # {} \/ Dispatched(s, time)
    <2> DEFINE d0 == [key |-> ScheduleKey(s, time), version |-> template.version,
                      target |-> row.target, time |-> time]
    <2>1. new = {d \in {d0} : ScheduleKey(s, time) \notin Keys(dispatches)}
      BY <1>4 DEF Missing
    <2>2. d0.key = ScheduleKey(s, time) /\ d0.target = row.target
      OBVIOUS
    <2> HIDE DEF d0
    <2>3. QED
      BY <2>1, <2>2 DEF Dispatched
  <1>6. Begin(t, "run", s, row, new)
    BY <1>0, <1>1, <1>3, <1>4
  <1>7. /\ DOMAIN tx' = Slots /\ \A q \in Slots : q # t => tx'[q] = tx[q]
        /\ tx'[t].op = "run" /\ tx'[t].id = s /\ tx'[t].row = row /\ tx'[t].new = new
    BY <1>2, <1>6, Opens
  <1>8. /\ Occurs(s, time)' <=> Occurs(s, time)
        /\ Complete(s, time) => Complete(s, time)'
        /\ Dispatched(s, time) => Dispatched(s, time)'
    BY <1>1, CompleteStays
  <1>9. Underway(t)'
    BY <1>1, <1>3, <1>5, <1>7, <1>8 DEF Underway, ScheduleKey
  <1>10. QED
    BY <1>1, <1>7, <1>9, RowsOf, RowsKept

LEMMA SaveIsRead ==
  ASSUME ExactInv, NEW r \in Requests, NEW s \in Schedules, SaveRead(r, s) PROVE ExactInv'
  <1>1. PICK state \in {"active", "inactive"}, target \in Targets,
             next \in Time, interval \in Intervals :
          Begin(r, "save", s, [state |-> state, target |-> target, next |-> next,
                               interval |-> interval], {})
    BY DEF SaveRead
  <1> DEFINE row == [state |-> state, target |-> target, next |-> next, interval |-> interval]
  <1>2. row \in Schedule /\ row.interval # 0 /\ row.state # "none"
    BY BoundsAssumption DEF Schedule, Time
  <1>3. /\ Begin(r, "save", s, row, {})
        /\ UNCHANGED <<now, schedule, anchor, dispatches, eligible>>
    BY <1>1 DEF SaveRead, data
  <1> HIDE DEF row
  <1>4. /\ DOMAIN tx' = Slots /\ \A q \in Slots : q # r => tx'[q] = tx[q]
        /\ tx'[r].op = "save" /\ tx'[r].id = s /\ tx'[r].row = row
    BY <1>3, RowsOf, Opens
  <1>5. Underway(r)'
    BY <1>2, <1>4 DEF Underway
  <1>6. QED
    BY <1>3, <1>4, <1>5, RowsOf, RowsKept

LEMMA DispatchIsRead ==
  ASSUME ExactInv, NEW r \in Requests, DispatchRead(r) PROVE ExactInv'
  <1>1. PICK targets \in (SUBSET Targets) \ {{}}, time \in ManualTimes :
          \E key \in [targets -> {<<"caller", c>> : c \in CallerKeys}
                                   \cup {DefaultKey(g, time) : g \in targets}] :
            /\ \A g \in targets : key[g] \in {DefaultKey(g, time)}
                                    \cup {<<"caller", c>> : c \in CallerKeys}
            /\ \A g, h \in targets : key[g] = key[h] => g = h
            /\ \A g \in targets : Dispatchable(key[g])
            /\ Begin(r, "dispatch", 0, NoSchedule,
                     UNION {Missing(key[g], g, time) : g \in targets})
    BY Zenon DEF DispatchRead
  <1>2. PICK key \in [targets -> {<<"caller", c>> : c \in CallerKeys}
                                   \cup {DefaultKey(g, time) : g \in targets}] :
            /\ \A g \in targets : key[g] \in {DefaultKey(g, time)}
                                    \cup {<<"caller", c>> : c \in CallerKeys}
            /\ \A g, h \in targets : key[g] = key[h] => g = h
            /\ \A g \in targets : Dispatchable(key[g])
            /\ Begin(r, "dispatch", 0, NoSchedule,
                     UNION {Missing(key[g], g, time) : g \in targets})
    BY <1>1
  <1> DEFINE new == UNION {Missing(key[g], g, time) : g \in targets}
  <1>3. ASSUME NEW d \in new, NEW x \in Schedules, NEW t \in Nat
        PROVE  d.key # ScheduleKey(x, t)
    <2>1. PICK g \in targets : d \in Missing(key[g], g, time)
      OBVIOUS
    <2>2. d.key = key[g]
      BY <2>1 DEF Missing
    <2>3. d.key = DefaultKey(g, time) \/ \E c \in CallerKeys : d.key = <<"caller", c>>
      BY <1>2, <2>2
    <2>4. QED
      BY <2>3 DEF DefaultKey, ScheduleKey
  <1>4. Begin(r, "dispatch", 0, NoSchedule, new)
    BY <1>2
  <1>5. UNCHANGED <<now, schedule, anchor, dispatches, eligible>>
    BY DEF DispatchRead, data
  <1>9. ASSUME NEW d \in new, NEW e \in new, d.key = e.key PROVE d = e
    <2>1. PICK g \in targets : d \in Missing(key[g], g, time)
      OBVIOUS
    <2>2. PICK h \in targets : e \in Missing(key[h], h, time)
      OBVIOUS
    <2>3. d.key = key[g] /\ e.key = key[h]
      BY <2>1, <2>2 DEF Missing
    <2>4. g = h
      BY <1>2, <1>9, <2>3
    <2>5. QED
      BY <2>1, <2>2, <2>4 DEF Missing
  <1> HIDE DEF new
  <1>6. /\ DOMAIN tx' = Slots /\ \A q \in Slots : q # r => tx'[q] = tx[q]
        /\ tx'[r].op = "dispatch" /\ tx'[r].new = new
    BY <1>4, RowsOf, Opens
  <1>7. Underway(r)'
    BY <1>3, <1>6, <1>9 DEF Underway, ScheduleKey
  <1>8. QED
    BY <1>5, <1>6, <1>7, RowsOf, RowsKept

LEMMA QuietStep ==
  ASSUME ExactInv,
         \/ \E t \in Ticks : \/ TickLookup(t) \/ TickSkip(t) \/ TickFail(t)
                             \/ TickRead(t) \/ TickFind(t)
         \/ \E r \in Requests : \/ DispatchRead(r) \/ Fail(r)
                                \/ \E s \in Schedules : SaveRead(r, s)
         \/ Elapse
         \/ UNCHANGED vars
  PROVE  ExactInv'
  <1>1. ASSUME UNCHANGED <<schedule, anchor, dispatches, eligible, tx>>, now' \in Nat, now <= now'
        PROVE  ExactInv'
    <2>1. DOMAIN tx' = Slots
      BY <1>1 DEF ExactInv, RowsTyped
    <2>2. QED
      BY <1>1, <2>1, RowsOf, RowsKept
  <1>2. ASSUME NEW t \in Ticks, TickLookup(t) PROVE ExactInv'
    BY <1>1, <1>2, RowsOf DEF TickLookup, data
  <1>3. ASSUME NEW t \in Ticks, TickSkip(t) \/ TickFail(t) PROVE ExactInv'
    BY <1>3, RowsOf, Closes DEF TickSkip, TickFail, data
  <1>4. ASSUME NEW r \in Requests, Fail(r) PROVE ExactInv'
    BY <1>4, RowsOf, Closes DEF Fail, data
  <1>5. CASE Elapse \/ UNCHANGED vars
    BY <1>1, <1>5, RowsOf DEF Elapse, vars, data
  <1>6. QED
    BY <1>2, <1>3, <1>4, <1>5, RowIsRead, KeyIsFound, SaveIsRead, DispatchIsRead

-----------------------------------------------------------------------------
(* Commits *)

\* Whatever the isolation, an open transaction is kept, closed or doomed.
LEMMA OutdateSlots ==
  ASSUME ExactInv, NEW t, DOMAIN t = Slots, \A q \in Slots : t[q] \in {tx[q], Idle},
         tx' = Outdate(t)
  PROVE  DOMAIN tx' = Slots
         /\ \A q \in Slots : tx'[q] = tx[q] \/ tx'[q].op \in {"none", "doomed"}
  <1>1. [Idle EXCEPT !.op = "doomed"].op = "doomed" /\ Idle.op = "none"
    BY DEF Idle
  <1>2. CASE Isolation = "Serializable"
    <2>1. tx' = [p \in Slots |-> IF p \in Ticks /\ t[p] # Idle
                                 THEN [Idle EXCEPT !.op = "doomed"] ELSE Idle]
      BY <1>2 DEF Outdate
    <2> DEFINE gone == [Idle EXCEPT !.op = "doomed"]
    <2>2. \A q \in Slots : tx'[q] \in {gone, Idle}
      BY <2>1
    <2> HIDE DEF gone
    <2>3. gone.op = "doomed"
      BY <1>1 DEF gone
    <2>4. QED
      BY <1>1, <2>1, <2>2, <2>3
  <1>3. CASE Isolation # "Serializable"
    BY <1>1, <1>3 DEF Outdate
  <1>4. QED
    BY <1>2, <1>3

LEMMA CommitSlots ==
  ASSUME ExactInv, NEW p \in Slots, Commit(p) \/ tx' = Outdate(tx)
  PROVE  DOMAIN tx' = Slots
         /\ \A q \in Slots : tx'[q] = tx[q] \/ tx'[q].op \in {"none", "doomed"}
  <1> DEFINE t == [tx EXCEPT ![p] = Idle]
  <1>1. DOMAIN tx = Slots /\ DOMAIN t = Slots /\ \A q \in Slots : t[q] \in {tx[q], Idle}
    BY DEF ExactInv, RowsTyped
  <1>2. tx' = Outdate(t) \/ tx' = Outdate(tx)
    BY DEF Commit
  <1> HIDE DEF t
  <1>3. QED
    BY <1>1, <1>2, OutdateSlots

LEMMA ForwardStep ==
  ASSUME ExactInv, Forward, RowsTyped', OneEach',
         \A q \in Slots : tx'[q] = tx[q] \/ tx'[q].op \in {"none", "doomed"},
         \A s \in Schedules : Aligned(s)' /\ OwnOnly(s)'
  PROVE  ExactInv'
  <1>1. \A p \in Slots : Underway(p)'
    BY UnderwayStays, IdleIsUnderway
  <1>2. QED
    BY <1>1 DEF ExactInv, Forward

\* Changing a field of a schedule leaves the others as they were.
LEMMA FieldChanges ==
  ASSUME NEW m \in Schedule, NEW n \in Nat
  PROVE  /\ LET new == [m EXCEPT !.next = n]
            IN  /\ new \in Schedule /\ new.next = n /\ new.state = m.state
                /\ new.interval = m.interval /\ new.target = m.target
         /\ LET new == [m EXCEPT !.state = "inactive"]
            IN  /\ new \in Schedule /\ new.next = m.next /\ new.state = "inactive"
                /\ new.interval = m.interval /\ new.target = m.target
  BY DEF Schedule

\* The unique index: no key comes twice.
LEMMA InsertKeeps ==
  ASSUME NEW new, Insert(new), OneEach, \A d, e \in new : d.key = e.key => d = e
  PROVE  OneEach'
  <1>1. dispatches' = dispatches \cup new /\ Keys(new) \cap Keys(dispatches) = {}
    BY DEF Insert
  <1>2. \A d \in new, e \in dispatches : d.key # e.key
    BY <1>1 DEF Keys
  <1>3. QED
    BY <1>1, <1>2 DEF OneEach

LEMMA DispatchCommits ==
  ASSUME ExactInv, NEW r \in Requests, DispatchCommit(r) PROVE ExactInv'
  <1>1. /\ Insert(tx[r].new) /\ UNCHANGED <<now, schedule, anchor, eligible>> /\ r \in Slots
        /\ Commit(r)
    BY RowsOf DEF DispatchCommit
  <1>2. /\ DOMAIN tx' = Slots
        /\ \A q \in Slots : tx'[q] = tx[q] \/ tx'[q].op \in {"none", "doomed"}
    BY <1>1, CommitSlots
  <1>3. dispatches' = dispatches \cup tx[r].new
    BY <1>1 DEF Insert
  <1>4. Forward
    BY RowsOf, <1>1, <1>3 DEF Forward
  <1>5. RowsTyped'
    BY <1>1, <1>2 DEF ExactInv, RowsTyped
  <1>6. /\ \A d \in tx[r].new, x \in Schedules, t \in Nat : d.key # ScheduleKey(x, t)
        /\ \A d, e \in tx[r].new : d.key = e.key => d = e
    BY <1>1 DEF ExactInv, Underway, DispatchCommit
  <1>7. OneEach'
    BY <1>1, <1>6, RowsOf, InsertKeeps
  <1>8. \A s \in Schedules : Aligned(s)' /\ OwnOnly(s)'
    BY <1>1, <1>3, <1>6, RowsOf, OthersStay
  <1>9. QED
    BY <1>2, <1>4, <1>5, <1>7, <1>8, ForwardStep

\* The run that commits is for an occurrence with nothing missing before it; with
\* it dispatched nothing is missing before the next one.
LEMMA TickCommits ==
  ASSUME ExactInv, NEW t \in Ticks, TickCommit(t) PROVE ExactInv'
  <1>1. /\ Insert(tx[t].new) /\ Commit(t) /\ UNCHANGED <<now, anchor, eligible>>
        /\ schedule' = [schedule EXCEPT ![tx[t].id].next = NextRun(tx[t].row)]
        /\ t \in Slots /\ tx[t].op = "run"
    BY RowsOf DEF TickCommit
  <1>2. Underway(t)
    BY <1>1 DEF ExactInv
  <1>0. PICK row : row = tx[t].row
    OBVIOUS
  <1>3. PICK s \in Schedules, time \in Nat :
          /\ s = tx[t].id /\ time = row.next
          /\ schedule[s].state # "none" /\ time <= now /\ row.interval = schedule[s].interval
          /\ row.target = schedule[s].target
          /\ Occurs(s, time) /\ Complete(s, time)
    BY <1>0, <1>1, <1>2 DEF Underway
  <1>4. PICK new : new = tx[t].new
    OBVIOUS
  <1>5. /\ \A d \in new : d.key = ScheduleKey(s, time) /\ d.target = row.target
        /\ \A d, e \in new : d = e
        /\ new # {} \/ Dispatched(s, time)
    BY <1>0, <1>1, <1>2, <1>3, <1>4 DEF Underway
  <1>6. PICK i : i = schedule[s].interval
    OBVIOUS
  <1>7. i \in Nat \ {0} /\ anchor[s] \in Nat /\ NextRun(row) = time + i /\ time + i \in Nat
    BY <1>3, <1>6, RowsOf DEF NextRun
  <1>8. PICK moved : moved = [schedule[s] EXCEPT !.next = time + i]
    OBVIOUS
  <1>9. /\ moved \in Schedule /\ moved.next = time + i /\ moved.state = schedule[s].state
        /\ moved.interval = i /\ moved.target = schedule[s].target
    <2>1. schedule[s] \in Schedule
      BY DEF ExactInv, RowsTyped
    <2>2. QED
      BY <1>6, <1>7, <1>8, <2>1, FieldChanges, Zenon
  <1>10. schedule' = [schedule EXCEPT ![s] = moved]
    BY <1>0, <1>1, <1>3, <1>7, <1>8
  <1>11. DOMAIN schedule' = Schedules
         /\ \A x \in Schedules : schedule'[x] = IF x = s THEN moved ELSE schedule[x]
    BY <1>10 DEF ExactInv, RowsTyped
  <1>12. /\ DOMAIN tx' = Slots
         /\ \A q \in Slots : tx'[q] = tx[q] \/ tx'[q].op \in {"none", "doomed"}
    BY <1>1, CommitSlots
  <1>13. dispatches' = dispatches \cup new /\ Keys(dispatches) \subseteq Keys(dispatches')
    BY <1>1, <1>4 DEF Insert, Keys
  <1>14. Forward
    BY RowsOf, <1>1, <1>6, <1>9, <1>11, <1>13 DEF Forward
  <1>15. RowsTyped'
    BY <1>1, <1>7, <1>9, <1>11, <1>12 DEF ExactInv, RowsTyped
  <1>16. OneEach'
    BY <1>1, <1>4, <1>5, RowsOf, InsertKeeps
  <1>17. ASSUME NEW x \in Schedules, x # s PROVE Aligned(x)' /\ OwnOnly(x)'
    <2>1. \A d \in new, u \in Nat : d.key # ScheduleKey(x, u)
      BY <1>5, <1>17 DEF ScheduleKey
    <2>2. QED
      BY <1>1, <1>11, <1>13, <1>17, <2>1, RowsOf, OthersStay
  <1>18. schedule'[s].interval = schedule[s].interval /\ anchor'[s] = anchor[s]
    BY <1>1, <1>6, <1>9, <1>11
  <1>19. \A u \in Nat : /\ Occurs(s, u)' <=> Occurs(s, u)
                        /\ Dispatched(s, u) => Dispatched(s, u)'
                        /\ Complete(s, u) => Complete(s, u)'
    BY <1>13, <1>18, CompleteStays
  <1>20. Dispatched(s, time)'
    <2>1. CASE new # {}
      BY <1>5, <1>13, <2>1 DEF Dispatched, Keys, ScheduleKey
    <2>2. CASE Dispatched(s, time)
      BY <1>19, <2>2
    <2>3. QED
      BY <1>5, <2>1, <2>2
  <1>21. anchor[s] <= time /\ (time - anchor[s]) % i = 0
    BY <1>3, <1>6 DEF Occurs
  <1>22. Occurs(s, time + i)
    <2>1. (time + i - anchor[s]) % i = 0
      BY <1>7, <1>21, OnePeriod
    <2>2. anchor[s] <= time + i
      BY <1>7, <1>21
    <2>3. QED
      BY <1>6, <1>7, <2>1, <2>2 DEF Occurs
  <1>23. ASSUME NEW u \in Nat, Occurs(s, u), u < time + i PROVE Dispatched(s, u)'
    <2>1. CASE u < time
      BY <1>3, <1>19, <1>23, <2>1 DEF Complete
    <2>2. CASE time <= u
      <3>1. (u - anchor[s]) % i = 0
        BY <1>6, <1>23 DEF Occurs
      <3>2. u = time
        BY <1>7, <1>21, <1>23, <2>2, <3>1, OnePeriod
      <3>3. QED
        BY <1>20, <3>2
    <2>3. QED
      BY <2>1, <2>2
  <1>24. Complete(s, time + i)'
    BY <1>19, <1>23 DEF Complete
  <1>25. Aligned(s)'
    <2>1. schedule'[s].next = time + i
      BY <1>9, <1>11
    <2>2. Occurs(s, time + i)'
      BY <1>7, <1>19, <1>22
    <2>3. QED
      BY <1>24, <2>1, <2>2 DEF Aligned
  <1>26. OwnOnly(s)'
    <2>1. ASSUME NEW d \in dispatches', NEW u \in Nat, d.key = ScheduleKey(s, u)
          PROVE  /\ schedule'[s].state # "none" /\ d.target = schedule'[s].target
                 /\ Occurs(s, u)' /\ u <= now' /\ Complete(s, u)'
      <3>1. schedule'[s].state # "none" /\ schedule'[s].target = schedule[s].target
        BY <1>3, <1>9, <1>11
      <3>2. CASE d \in dispatches
        <4>1. OwnOnly(s)
          BY RowsOf
        <4>2. QED
          BY <1>1, <1>19, <2>1, <3>1, <3>2, <4>1 DEF OwnOnly
      <3>3. CASE d \in new
        <4>1. u = time /\ d.target = schedule[s].target
          BY <1>3, <1>5, <2>1, <3>3 DEF ScheduleKey
        <4>2. QED
          BY <1>1, <1>3, <1>19, <3>1, <4>1
      <3>4. QED
        BY <1>13, <3>2, <3>3
    <2>2. QED
      BY <2>1 DEF OwnOnly, ScheduleKey
  <1>27. \A x \in Schedules : Aligned(x)' /\ OwnOnly(x)'
    BY <1>17, <1>25, <1>26
  <1>28. QED
    BY <1>12, <1>14, <1>15, <1>16, <1>27, ForwardStep

\* Without updates a save is of a new schedule.
LEMMA SaveCommits ==
  ASSUME ~ScheduleEdits, ExactInv, NEW r \in Requests, SaveCommit(r) PROVE ExactInv'
  <1> DEFINE s == tx[r].id
             row == tx[r].row
  <1>1. /\ schedule' = [schedule EXCEPT ![s] = row] /\ anchor' = [anchor EXCEPT ![s] = row.next]
        /\ Commit(r) /\ UNCHANGED <<now, dispatches, eligible>> /\ r \in Slots
        /\ schedule[s].state = "none"
    BY RowsOf DEF SaveCommit
  <1>2. s \in Schedules /\ row \in Schedule /\ row.interval # 0 /\ row.state # "none"
    BY <1>1 DEF ExactInv, Underway, SaveCommit
  <1>3. /\ DOMAIN tx' = Slots
        /\ \A q \in Slots : tx'[q] = tx[q] \/ tx'[q].op \in {"none", "doomed"}
    BY <1>1, CommitSlots
  <1> HIDE DEF s, row
  <1>4. row.next \in Nat /\ row.interval \in Nat \ {0}
    BY <1>2 DEF Schedule
  <1>5. /\ DOMAIN schedule' = Schedules /\ DOMAIN anchor' = Schedules
        /\ \A x \in Schedules : /\ schedule'[x] = IF x = s THEN row ELSE schedule[x]
                                /\ anchor'[x] = IF x = s THEN row.next ELSE anchor[x]
    BY <1>1 DEF ExactInv, RowsTyped
  <1>6. Forward
    BY RowsOf, <1>1, <1>5 DEF Forward
  <1>7. RowsTyped'
    BY <1>1, <1>2, <1>3, <1>4, <1>5 DEF ExactInv, RowsTyped
  <1>8. ASSUME NEW x \in Schedules PROVE Aligned(x)' /\ OwnOnly(x)'
    <2>1. CASE x # s
      <3>1. schedule'[x] = schedule[x] /\ anchor'[x] = anchor[x] /\ dispatches' = dispatches
        BY <1>1, <1>5, <2>1
      <3>2. QED
        BY <1>1, <3>1, RowsOf, OthersStay
    <2>2. CASE x = s
      <3>1. 0 % row.interval = 0 /\ row.next - row.next = 0
        BY <1>4, SMT
      <3>2. Aligned(x)'
        BY <1>4, <1>5, <2>2, <3>1 DEF Aligned, Occurs, Complete
      <3>3. \A d \in dispatches', t \in Nat : d.key # ScheduleKey(s, t)
        <4>1. OwnOnly(s)
          BY <1>2, RowsOf
        <4>2. QED
          BY <1>1, <4>1 DEF OwnOnly
      <3>4. QED
        BY <2>2, <3>2, <3>3 DEF OwnOnly, ScheduleKey
    <2>3. QED
      BY <2>1, <2>2
  <1>9. OneEach'
    BY <1>1, RowsOf DEF OneEach
  <1>10. QED
    BY <1>3, <1>6, <1>7, <1>8, <1>9, ForwardStep

\* A step after which each schedule is as before or switched off.
LEMMA Switched ==
  ASSUME ExactInv, UNCHANGED <<now, anchor, dispatches>>, eligible' \subseteq Schedules,
         tx' = Outdate(tx), DOMAIN schedule' = Schedules,
         \A s \in Schedules :
            \/ schedule'[s] = schedule[s]
            \/ schedule[s].state = "active" /\ schedule'[s] = [schedule[s] EXCEPT !.state = "inactive"]
  PROVE  ExactInv'
  <1>1. /\ DOMAIN tx' = Slots
        /\ \A q \in Slots : tx'[q] = tx[q] \/ tx'[q].op \in {"none", "doomed"}
    BY OutdateSlots DEF ExactInv, RowsTyped
  <1>2. ASSUME NEW s \in Schedules
        PROVE  /\ schedule'[s] \in Schedule /\ schedule'[s].next = schedule[s].next
               /\ schedule'[s].interval = schedule[s].interval
               /\ schedule'[s].target = schedule[s].target
               /\ schedule[s].state # "none" => schedule'[s].state # "none"
               /\ schedule[s].interval # 0 /\ anchor'[s] \in Nat
    <2> DEFINE off == [schedule[s] EXCEPT !.state = "inactive"]
    <2>1. schedule[s] \in Schedule /\ 0 \in Nat /\ schedule[s].interval # 0 /\ anchor'[s] \in Nat
      BY DEF ExactInv, RowsTyped
    <2>2. /\ off \in Schedule /\ off.next = schedule[s].next /\ off.state = "inactive"
          /\ off.interval = schedule[s].interval /\ off.target = schedule[s].target
      BY <2>1, FieldChanges, Zenon
    <2>3. schedule'[s] = schedule[s] \/ schedule'[s] = off
      OBVIOUS
    <2> HIDE DEF off
    <2>4. QED
      BY <2>1, <2>2, <2>3
  <1>3. Forward
    BY RowsOf, <1>2 DEF Forward
  <1>4. RowsTyped'
    BY <1>1, <1>2 DEF ExactInv, RowsTyped
  <1>5. ASSUME NEW s \in Schedules PROVE Aligned(s)' /\ OwnOnly(s)'
    <2>1. Aligned(s) /\ OwnOnly(s) /\ schedule[s].next \in Nat
      BY RowsOf
    <2>2. \A t \in Nat : (Occurs(s, t)' <=> Occurs(s, t)) /\ (Complete(s, t) => Complete(s, t)')
      BY <1>2, CompleteStays DEF Keys
    <2>3. Aligned(s)'
      BY <1>2, <2>1, <2>2 DEF Aligned
    <2>4. OwnOnly(s)'
      BY <1>2, <2>1, <2>2 DEF OwnOnly, ScheduleKey
    <2>5. QED
      BY <2>3, <2>4
  <1>6. OneEach'
    BY RowsOf DEF OneEach
  <1>7. QED
    BY <1>1, <1>3, <1>4, <1>5, <1>6, ForwardStep

LEMMA SwitchCommits ==
  ASSUME ExactInv,
         \/ \E s \in Schedules : DeleteSchedule(s) \/ ToggleEligible(s)
         \/ \E active \in BOOLEAN : UpdateTemplate(active)
         \/ DeleteTemplate
         \/ RemoveProfile
  PROVE  ExactInv'
  <1>0. DOMAIN schedule = Schedules /\ eligible \subseteq Schedules
    BY DEF ExactInv, RowsTyped
  <1>1. ASSUME NEW s \in Schedules, DeleteSchedule(s) PROVE ExactInv'
    <2> DEFINE off == [schedule[s] EXCEPT !.state = "inactive"]
    <2>1. schedule[s].state = "active" /\ schedule' = [schedule EXCEPT ![s] = off]
      BY <1>1 DEF DeleteSchedule
    <2>2. off = [schedule[s] EXCEPT !.state = "inactive"]
      OBVIOUS
    <2> HIDE DEF off
    <2>3. /\ DOMAIN schedule' = Schedules
          /\ \A x \in Schedules : schedule'[x] = schedule[x] \/ (x = s /\ schedule'[x] = off)
      BY <1>0, <2>1
    <2>4. ASSUME NEW x \in Schedules
          PROVE  \/ schedule'[x] = schedule[x]
                 \/ schedule[x].state = "active" /\ schedule'[x] = [schedule[x] EXCEPT !.state = "inactive"]
      BY <2>1, <2>2, <2>3, Zenon
    <2>5. UNCHANGED <<now, anchor, dispatches, eligible>> /\ tx' = Outdate(tx)
      BY <1>1 DEF DeleteSchedule
    <2>6. QED
      BY <1>0, <2>3, <2>4, <2>5, Switched
  <1>2. ASSUME schedule' = Deactivated, UNCHANGED <<now, anchor, dispatches, eligible>>,
               tx' = Outdate(tx)
        PROVE  ExactInv'
    <2>1. DOMAIN schedule' = Schedules
      BY <1>2 DEF Deactivated
    <2>2. ASSUME NEW x \in Schedules
          PROVE  \/ schedule'[x] = schedule[x]
                 \/ schedule[x].state = "active" /\ schedule'[x] = [schedule[x] EXCEPT !.state = "inactive"]
      <3> DEFINE off(y) == [schedule[y] EXCEPT !.state = "inactive"]
      <3>1. schedule' = [y \in Schedules |-> IF schedule[y].state = "active" THEN off(y)
                                             ELSE schedule[y]]
        BY <1>2 DEF Deactivated
      <3> HIDE DEF off
      <3>2. schedule'[x] = schedule[x] \/ (schedule[x].state = "active" /\ schedule'[x] = off(x))
        BY <3>1
      <3>3. QED
        BY <3>2, Zenon DEF off
    <2>3. QED
      BY <1>0, <1>2, <2>1, <2>2, Switched
  <1>3. ASSUME UNCHANGED <<now, schedule, anchor, dispatches>>, eligible' \subseteq Schedules,
               tx' = Outdate(tx)
        PROVE  ExactInv'
    BY <1>0, <1>3, Switched
  <1>4. ASSUME NEW s \in Schedules, ToggleEligible(s) PROVE ExactInv'
    BY <1>0, <1>3, <1>4 DEF ToggleEligible, data
  <1>5. ASSUME NEW active \in BOOLEAN, UpdateTemplate(active) PROVE ExactInv'
    BY <1>0, <1>2, <1>3, <1>5 DEF UpdateTemplate
  <1>6. CASE DeleteTemplate
    BY <1>2, <1>6 DEF DeleteTemplate
  <1>7. CASE RemoveProfile
    BY <1>0, <1>3, <1>7 DEF RemoveProfile
  <1>8. QED
    BY <1>1, <1>4, <1>5, <1>6, <1>7

-----------------------------------------------------------------------------
(* The invariant, and what follows from it *)

LEMMA ExactStep ==
  ASSUME ~ScheduleEdits, ExactInv, [Next]_vars PROVE ExactInv'
  BY QuietStep, DispatchCommits, TickCommits, SaveCommits, SwitchCommits
     DEF Next, TickStep, RequestStep

LEMMA ExactInit == Init => ExactInv
  <1> SUFFICES ASSUME Init PROVE ExactInv
    OBVIOUS
  <1>1. SafetyInv
    BY SafetyInit
  <1>2. RowsTyped /\ now \in Nat /\ OneEach
    BY <1>1 DEF Init, SafetyInv, Typed, RowsTyped, OneEach
  <1>3. \A p \in Slots : Underway(p)
    BY DEF Init, Underway, Idle
  <1>4. 0 % 1 = 0
    BY SMT
  <1>5. \A s \in Schedules : Aligned(s) /\ OwnOnly(s)
    BY <1>4 DEF Init, NoSchedule, Aligned, Occurs, Complete, OwnOnly
  <1>6. QED
    BY <1>2, <1>3, <1>5 DEF ExactInv

LEMMA ExactInvariant == ASSUME ~ScheduleEdits PROVE Spec => []ExactInv
  BY ExactInit, ExactStep, PTL DEF Spec

\* On either database overlapping ticks dispatch a schedule that nobody updates once
\* for each of its occurrences in their order and for nothing else, also where a
\* late tick sets the schedule back (dispatchRetailTemplateSchedule).
THEOREM TicksDispatchExactly ==
  ASSUME ~ScheduleEdits PROVE Spec => []SchedulesAreExact
  <1>1. ExactInv => SchedulesAreExact
    <2> SUFFICES ASSUME ExactInv, NEW s \in Schedules, schedule[s].state # "none"
                 PROVE  /\ Occurs(s, schedule[s].next)
                        /\ \A d \in dispatches, t \in 0..(2 * MaxTime) :
                              d.key = ScheduleKey(s, t) =>
                                  /\ Occurs(s, t) /\ d.target = schedule[s].target /\ t <= now
                                  /\ \A e \in dispatches : e.key = d.key => e = d
                        /\ \A t, u \in 0..(2 * MaxTime) :
                              /\ Occurs(s, t) /\ t < u
                              /\ u = schedule[s].next \/ ScheduleKey(s, u) \in Keys(dispatches)
                              => ScheduleKey(s, t) \in Keys(dispatches)
      BY Zenon DEF SchedulesAreExact
    <2>1. 0..(2 * MaxTime) \subseteq Nat
      BY BoundsAssumption
    <2>2. Aligned(s) /\ OwnOnly(s) /\ OneEach
      BY RowsOf
    <2>3. Occurs(s, schedule[s].next) /\ Complete(s, schedule[s].next)
      BY <2>2 DEF Aligned
    <2>4. ASSUME NEW d \in dispatches, NEW t \in 0..(2 * MaxTime), d.key = ScheduleKey(s, t)
          PROVE  /\ Occurs(s, t) /\ d.target = schedule[s].target /\ t <= now
                 /\ \A e \in dispatches : e.key = d.key => e = d
      BY <2>1, <2>2, <2>4 DEF OwnOnly, OneEach
    <2>5. ASSUME NEW t \in 0..(2 * MaxTime), NEW u \in 0..(2 * MaxTime), Occurs(s, t), t < u,
                 u = schedule[s].next \/ ScheduleKey(s, u) \in Keys(dispatches)
          PROVE  ScheduleKey(s, t) \in Keys(dispatches)
      <3>1. Complete(s, u)
        <4>1. CASE u = schedule[s].next
          BY <2>3, <4>1
        <4>2. CASE ScheduleKey(s, u) \in Keys(dispatches)
          BY <2>1, <2>2, <4>2 DEF OwnOnly, Keys
        <4>3. QED
          BY <2>5, <4>1, <4>2
      <3>2. QED
        BY <2>1, <2>5, <3>1 DEF Complete, Dispatched
    <2>6. QED
      BY <2>3, <2>4, <2>5
  <1>2. QED
    BY <1>1, ExactInvariant, PTL

=============================================================================
