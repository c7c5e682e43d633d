-------------------------- MODULE SessionTokensProofs --------------------------
(***************************************************************************)
(* The server accepts each refresh token once, for any number of tabs,     *)
(* refreshes, sessions and events.  The argument: a token that was spent   *)
(* is no longer the one its session accepts, and never will be again,      *)
(* because sessions are given new tokens only.  All else that is needed is *)
(* that whatever a browser presents was issued before.                     *)
(*                                                                         *)
(* A tab has one refresh of its present sign-in, because it is the one its *)
(* callers share (Sharing); one request is out, because it holds the lock  *)
(* (LockInv); and a refresh that was cut off by a logout stays outdated    *)
(* until it ends (CutInv).  Each function of the browser is shown to keep  *)
(* this in whatever state of the tab it is called (Follows), and the steps *)
(* that call it follow.                                                    *)
(*                                                                         *)
(* A tab is not signed out against the user's will, because under the lock *)
(* the one request that is out carries a token its session accepts, unless *)
(* the session has ended (RequestInv), and because a checkAuth that waited *)
(* finds a token newer than those that had expired when it began           *)
(* (CheckInv).  Both hold until a refresh is disturbed.                    *)
(***************************************************************************)
EXTENDS SessionTokens, TLAPS

\* The refreshes of a tab when n tokens have been issued.  The server found the
\* session of a cookie that was there.
CallUpTo(n) ==
    {c \in [phase: Phases, outdated: BOOLEAN, before: 0..n, cookie: 0..n, token: 0..n] :
        c.phase = "found" => c.cookie # 0}
Known(view, n) ==
    /\ view = [tab |-> view.tab, calls |-> view.calls, waits |-> view.waits]
    /\ view.calls \in [Slots -> CallUpTo(n)]

-----------------------------------------------------------------------------
(* The steps of a tab bring no token into its refreshes that was not issued. *)

\* An empty slot holds no token.
LEMMA NoCallKnown == ASSUME NEW n \in Nat PROVE NoCall \in CallUpTo(n)
  BY DEF NoCall, CallUpTo, Phases

\* What the tab keeps beside its refreshes is of no account.
LEMMA TabOnly ==
  ASSUME NEW n, NEW view, Known(view, n), NEW t
  PROVE  /\ Known([view EXCEPT !.tab = t], n)
         /\ [view EXCEPT !.tab = t].calls = view.calls
  <1>1. [view EXCEPT !.tab = t] = [tab |-> t, calls |-> view.calls, waits |-> view.waits]
    BY DEF Known
  <1> QED
    BY <1>1 DEF Known

\* The refreshes may be any that are known.
LEMMA CallsOnly ==
  ASSUME NEW n, NEW view, Known(view, n), NEW c \in [Slots -> CallUpTo(n)]
  PROVE  Known([view EXCEPT !.calls = c], n)
  <1>1. [view EXCEPT !.calls = c] = [tab |-> view.tab, calls |-> c, waits |-> view.waits]
    BY DEF Known
  <1> QED
    BY <1>1 DEF Known

\* A new refresh carries the tokens of storage and jar.
LEMMA RefreshTokenKnown ==
  ASSUME NEW n \in Nat, NEW view, Known(view, n), NEW callers, NEW attempt,
         NEW storage \in 0..n, NEW jar \in 0..n
  PROVE  Known(refreshToken(view, callers, attempt, storage, jar), n)
  <1> DEFINE queued == [NoCall EXCEPT !.phase = "queued", !.before = storage]
             posted == [NoCall EXCEPT !.phase = "posted", !.cookie = jar]
             s == IF view.tab.current # NoSlot THEN view.tab.current
                  ELSE CHOOSE free \in Free(view.calls) : TRUE
             started == IF secure THEN queued ELSE posted
             next == refreshToken(view, callers, attempt, storage, jar)
  <1>1. queued \in CallUpTo(n)
    BY NoCallKnown DEF CallUpTo, Phases
  <1>2. posted \in CallUpTo(n)
    BY NoCallKnown DEF CallUpTo, Phases
  <1> HIDE DEF queued, posted
  <1>3. started \in CallUpTo(n)
    BY <1>1, <1>2
  <1> HIDE DEF started
  <1>4. /\ next = [tab |-> next.tab, calls |-> next.calls, waits |-> next.waits]
        /\ next.calls = IF view.tab.current # NoSlot THEN view.calls
                        ELSE [view.calls EXCEPT ![s] = started]
    BY DEF refreshToken, started, queued, posted
  <1> HIDE DEF s, next
  <1>5. next.calls \in [Slots -> CallUpTo(n)]
    BY <1>3, <1>4 DEF Known
  <1>6. QED
    BY <1>4, <1>5 DEF Known, next

\* Checking a sign-in starts a refresh at most.
LEMMA CheckAuthKnown ==
  ASSUME NEW n \in Nat, NEW view, Known(view, n),
         NEW storage \in 0..n, NEW jar \in 0..n
  PROVE  Known(checkAuth(view, storage, jar), n)
  <1> DEFINE token == getToken(view.tab, storage)
             read == [view EXCEPT !.tab = [view.tab EXCEPT !.saved = token]]
             saved == [read EXCEPT !.tab = [read.tab EXCEPT !.asked = expired]]
  <1>1. /\ Known([view EXCEPT !.tab = SignedOut(view.tab)], n)
        /\ Known([view EXCEPT !.tab = AsksUser(view.tab, token)], n)
        /\ Known(saved, n)
    BY TabOnly
  <1>2. [view EXCEPT !.tab.saved = token, !.tab.asked = expired] = saved
    BY Zenon
  <1>3. Known(refreshToken(saved, {"check"}, 1, storage, jar), n)
    BY <1>1, RefreshTokenKnown
  <1> HIDE DEF saved
  <1>4. \/ checkAuth(view, storage, jar) = [view EXCEPT !.tab = SignedOut(view.tab)]
        \/ checkAuth(view, storage, jar) = [view EXCEPT !.tab = AsksUser(view.tab, token)]
        \/ checkAuth(view, storage, jar) = view
        \/ checkAuth(view, storage, jar) = refreshToken(saved, {"check"}, 1, storage, jar)
    BY <1>2, Zenon DEF checkAuth
  <1>5. QED
    BY <1>1, <1>3, <1>4

\* The tokens are removed; the refreshes go on, outdated.
LEMMA RemoveTokenKnown ==
  ASSUME NEW n \in Nat, NEW view, Known(view, n)
  PROVE  Known(removeToken(view), n)
  <1> DEFINE unsaved == [view EXCEPT !.tab = [view.tab EXCEPT !.saved = 0]]
             unshared == [unsaved EXCEPT !.tab = [unsaved.tab EXCEPT !.current = NoSlot]]
             calls == [s \in Slots |-> IF view.calls[s] = NoCall THEN NoCall
                                       ELSE [view.calls[s] EXCEPT !.outdated = TRUE]]
  <1>1. calls \in [Slots -> CallUpTo(n)]
    <2>1. ASSUME NEW c \in CallUpTo(n) PROVE [c EXCEPT !.outdated = TRUE] \in CallUpTo(n)
      BY DEF CallUpTo
    <2>2. QED
      BY <2>1, NoCallKnown DEF Known
  <1>2. Known(unshared, n)
    BY TabOnly
  <1>3. removeToken(view) = [unshared EXCEPT !.calls = calls]
    BY Zenon DEF removeToken
  <1> HIDE DEF unshared, calls
  <1>4. QED
    BY <1>1, <1>2, <1>3, CallsOnly

\* A refresh has ended and its callers have been told.
LEMMA OverKnown ==
  ASSUME NEW n \in Nat, NEW view, Known(view, n), NEW s, NEW callers
  PROVE  Known(Released(Settled(view, s), callers), n)
  <1> DEFINE left == [view EXCEPT !.tab = [view.tab EXCEPT !.current =
                                            IF view.tab.current = s THEN NoSlot
                                            ELSE view.tab.current]]
             settled == Settled(view, s)
             told == [settled EXCEPT !.waits =
                        [c \in Callers |-> IF c \in callers THEN NoWait ELSE settled.waits[c]]]
             asked == IF "check" \in callers THEN 0 ELSE told.tab.asked
             over == Released(settled, callers)
  <1>1. Known(left, n)
    BY TabOnly
  <1>2. settled = [left EXCEPT !.calls = [left.calls EXCEPT ![s] = NoCall]]
    BY Zenon DEF Settled
  <1> HIDE DEF left, settled
  <1>3. [left.calls EXCEPT ![s] = NoCall] \in [Slots -> CallUpTo(n)]
    BY <1>1, NoCallKnown DEF Known
  <1>4. Known(settled, n)
    BY <1>1, <1>2, <1>3, CallsOnly
  <1>5. Known(told, n)
    BY <1>4 DEF Known
  <1>6. over = [told EXCEPT !.tab = [told.tab EXCEPT !.asked = asked]]
    BY Zenon DEF Released
  <1> HIDE DEF told, asked
  <1>7. Known(over, n)
    BY <1>5, <1>6, TabOnly
  <1>8. QED
    BY <1>7 DEF settled

\* A refresh that succeeded leaves known ones.
LEMMA ResolvedKnown ==
  ASSUME NEW n \in Nat, NEW view, Known(view, n), NEW s, NEW throttled,
         NEW storage \in 0..n, NEW jar \in 0..n
  PROVE  Known(Resolved(view, s, storage, jar, throttled), n)
  <1> DEFINE callers == Waiting(view, s)
             over == Released(Settled(view, s), callers)
             token == getToken(over.tab, storage)
             checked == IF "check" \notin callers THEN over
                        ELSE IF token > view.tab.asked
                             THEN [over EXCEPT !.tab = AsksUser(@, token)]
                             ELSE [over EXCEPT !.tab = SignedOut([@ EXCEPT !.saved = token])]
  <1>1. Known(over, n)
    BY OverKnown
  <1>2. Resolved(view, s, storage, jar, throttled)
          = IF "renew" \in callers /\ ~throttled THEN checkAuth(checked, storage, jar)
            ELSE checked
    BY Zenon DEF Resolved
  <1> HIDE DEF over, callers, token
  <1>3. Known(checked, n)
    BY <1>1, TabOnly
  <1> HIDE DEF checked
  <1>4. Known(checkAuth(checked, storage, jar), n)
    BY <1>3, CheckAuthKnown
  <1>5. QED
    BY <1>2, <1>3, <1>4

\* So does one that failed, with the second attempts it starts.
LEMMA RejectedKnown ==
  ASSUME NEW n \in Nat, NEW view, Known(view, n), NEW s,
         NEW storage \in 0..n, NEW jar \in 0..n
  PROVE  Known(Rejected(view, s, storage, jar), n)
  <1> DEFINE again == Again(view, s)
             pausing == {c \in Waiting(view, s) \cap {"request"} : view.waits[c].attempt = 1}
             over == Released(Settled(view, s), Waiting(view, s) \ again)
             paused == [over EXCEPT !.waits = [c \in Callers |->
                          IF c \in pausing THEN Paused ELSE @[c]]]
             left == IF "check" \in Waiting(view, s) \ again
                     THEN [paused EXCEPT !.tab = SignedOut(@)] ELSE paused
  <1>1. Known(over, n)
    BY OverKnown
  <1>2. Rejected(view, s, storage, jar)
          = IF again = {} THEN left ELSE refreshToken(left, again, 2, storage, jar)
    BY Zenon DEF Rejected
  <1> HIDE DEF over, pausing, again
  <1>3. Known(paused, n)
    <2>1. /\ paused.calls = over.calls
          /\ paused = [tab |-> paused.tab, calls |-> paused.calls, waits |-> paused.waits]
      BY <1>1 DEF Known
    <2> HIDE DEF paused
    <2>2. QED
      BY <1>1, <2>1 DEF Known
  <1> HIDE DEF paused
  <1>4. Known(left, n)
    BY <1>3, TabOnly
  <1> HIDE DEF left
  <1>5. QED
    BY <1>2, <1>4, RefreshTokenKnown

-----------------------------------------------------------------------------
(* The invariant *)

AllIssued ==
    /\ session \in [Sessions -> Nat]
    /\ issued \in Seq([session: Sessions, from: Nat])
    /\ \A k \in DOMAIN issued : issued[k].from <= Len(issued)
    /\ cookie \in 0..Len(issued) /\ stored \in 0..Len(issued)
    /\ call \in [Tabs -> [Slots -> CallUpTo(Len(issued))]]

\* A session does not accept what was spent on it.
SpentIsReplaced ==
    \A k \in DOMAIN issued :
        issued[k].from # 0 => session[SessionOf(issued[k].from)] # issued[k].from

IInv == AllIssued /\ SpentIsReplaced /\ RotatedOnce

\* What was issued before is not forgotten when more is.
LEMMA CallsGrow ==
  ASSUME NEW n \in Nat, NEW c \in CallUpTo(n)
  PROVE  c \in CallUpTo(n + 1)
  BY DEF CallUpTo

\* A step that leaves the server's sessions alone.
LEMMA BrowserStepKeeps ==
  ASSUME IInv, UNCHANGED server,
         cookie' \in 0..Len(issued), stored' \in 0..Len(issued),
         call' \in [Tabs -> [Slots -> CallUpTo(Len(issued))]]
  PROVE  IInv'
  BY DEF IInv, AllIssued, SpentIsReplaced, RotatedOnce, server, SessionOf

\* A tab takes on a view.
LEMMA BecomesKeeps ==
  ASSUME IInv, NEW b, NEW view, Known(view, Len(issued)), Becomes(b, view)
  PROVE  call' \in [Tabs -> [Slots -> CallUpTo(Len(issued))]]
  BY DEF IInv, AllIssued, Known, Becomes

\* A tab shows itself as it is.
LEMMA ViewKnown ==
  ASSUME IInv, NEW b \in Tabs
  PROVE  /\ Known(View(b), Len(issued))
         /\ \A n : Known([View(b) EXCEPT !.tab.saved = n], Len(issued))
  <1>1. Known(View(b), Len(issued))
    BY DEF IInv, AllIssued, View, Known
  <1>2. ASSUME NEW n PROVE Known([View(b) EXCEPT !.tab.saved = n], Len(issued))
    <2>1. Known([View(b) EXCEPT !.tab = [View(b).tab EXCEPT !.saved = n]], Len(issued))
      BY <1>1, TabOnly
    <2>2. [View(b) EXCEPT !.tab.saved = n]
            = [View(b) EXCEPT !.tab = [View(b).tab EXCEPT !.saved = n]]
      BY Zenon
    <2>3. QED
      BY <2>1, <2>2
  <1>3. QED
    BY <1>1, <1>2

\* What is on record of a token.
LEMMA Entry ==
  ASSUME IInv, NEW k \in DOMAIN issued
  PROVE  issued[k].session \in Sessions /\ issued[k].from \in 0..Len(issued)
  <1>1. issued \in Seq([session: Sessions, from: Nat]) /\ issued[k].from <= Len(issued)
    BY DEF IInv, AllIssued
  <1> DEFINE S == [session: Sessions, from: Nat]
  <1>2. ASSUME NEW T, NEW q \in Seq(T), NEW i \in DOMAIN q PROVE q[i] \in T /\ Len(q) \in Nat
    OBVIOUS
  <1>3. issued[k] \in S /\ Len(issued) \in Nat
    <2> HIDE DEF S
    <2> QED
      BY <1>1, <1>2 DEF S
  <1>4. QED
    BY <1>1, <1>3

\* What was spent was issued, to a session that exists.
LEMMA SpentOf ==
  ASSUME IInv, NEW k \in DOMAIN issued, issued[k].from # 0
  PROVE  /\ issued[k].from \in 1..Len(issued)
         /\ SessionOf(issued[k].from) \in Sessions
  <1>1. issued[k].from \in 1..Len(issued) /\ Len(issued) \in Nat
    BY Entry DEF IInv, AllIssued
  <1>2. issued[k].from \in DOMAIN issued
    BY <1>1 DEF IInv, AllIssued
  <1>3. QED
    BY <1>1, <1>2, Entry DEF SessionOf

\* A session ends: it accepts nothing any more.
LEMMA SessionEndKeeps ==
  ASSUME IInv, NEW n, EndSession(n), UNCHANGED <<issued, cookie, stored>>,
         call' \in [Tabs -> [Slots -> CallUpTo(Len(issued))]]
  PROVE  IInv'
  <1>1. AllIssued' /\ RotatedOnce'
    BY DEF IInv, AllIssued, RotatedOnce, EndSession
  <1>2. SpentIsReplaced'
    <2> SUFFICES ASSUME NEW k \in DOMAIN issued, issued[k].from # 0
                 PROVE  session'[SessionOf(issued[k].from)] # issued[k].from
      BY DEF SpentIsReplaced, SessionOf
    <2> DEFINE spent == issued[k].from
    <2>1. SessionOf(spent) \in Sessions /\ session[SessionOf(spent)] # spent
      BY SpentOf DEF IInv, SpentIsReplaced
    <2>2. session'[SessionOf(spent)] \in {0, session[SessionOf(spent)]}
      BY <2>1 DEF IInv, AllIssued, EndSession
    <2>3. QED
      BY <2>1, <2>2
  <1>3. QED
    BY <1>1, <1>2 DEF IInv

\* A session is given a new token for the one it accepts, or for none.
LEMMA IssueKeeps ==
  ASSUME IInv, NEW i \in Sessions, NEW c \in 0..Len(issued),
         c # 0 => i = SessionOf(c) /\ session[i] = c,
         issued' = Append(issued, [session |-> i, from |-> c]),
         session' = [session EXCEPT ![i] = Len(issued) + 1],
         cookie' \in 0..(Len(issued) + 1), stored' \in 0..(Len(issued) + 1),
         call' \in [Tabs -> [Slots -> CallUpTo(Len(issued) + 1)]]
  PROVE  IInv'
  <1> DEFINE n == Len(issued) + 1
  <1>1. /\ Len(issued) \in Nat /\ Len(issued') = n
        /\ issued' \in Seq([session: Sessions, from: Nat])
        /\ DOMAIN issued = 1..Len(issued) /\ DOMAIN issued' = 1..n
        /\ \A k \in DOMAIN issued : issued'[k] = issued[k]
        /\ issued'[n] = [session |-> i, from |-> c]
    BY DEF IInv, AllIssued
  <1> HIDE DEF n
  <1>n. n \in Nat /\ n = Len(issued) + 1
    BY <1>1 DEF n
  <1>2. AllIssued'
    <2>1. session' \in [Sessions -> Nat]
      BY <1>n DEF IInv, AllIssued
    <2>2. ASSUME NEW k \in DOMAIN issued' PROVE issued'[k].from <= n
      <3>1. CASE k = n
        BY <1>1, <1>n, <3>1
      <3>2. CASE k # n
        <4>1. k \in DOMAIN issued /\ issued'[k] = issued[k]
          BY <1>1, <1>n, <3>2
        <4>2. issued[k].from <= Len(issued) /\ issued[k].from \in Nat
          BY <1>1, <4>1, Entry
        <4>3. QED
          BY <4>1, <4>2, <1>1, <1>n
      <3>3. QED
        BY <3>1, <3>2
    <2>3. QED
      BY <1>1, <1>n, <2>1, <2>2 DEF AllIssued
  <1>3. ASSUME c # 0, NEW k \in DOMAIN issued PROVE issued[k].from # c
    BY <1>3 DEF IInv, SpentIsReplaced
  <1>4. SpentIsReplaced'
    <2> SUFFICES ASSUME NEW k \in DOMAIN issued', issued'[k].from # 0
                 PROVE  session'[issued'[issued'[k].from].session] # issued'[k].from
      BY DEF SpentIsReplaced, SessionOf
    <2> DEFINE spent == issued'[k].from
    <2>1. CASE k = n
      <3>1. spent = c /\ c \in 1..Len(issued)
        BY <1>1, <2>1
      <3>2. issued'[c].session = i
        BY <1>1, <3>1 DEF SessionOf
      <3>3. session'[i] = n
        BY <1>n DEF IInv, AllIssued
      <3> HIDE DEF spent
      <3>4. session'[issued'[spent].session] # spent
        BY <1>n, <1>1, <3>1, <3>2, <3>3
      <3>5. QED
        BY <3>4 DEF spent
    <2>2. CASE k # n
      <3>1. k \in DOMAIN issued /\ spent = issued[k].from
        BY <1>1, <1>n, <2>2
      <3>2. /\ spent \in 1..Len(issued) /\ SessionOf(spent) \in Sessions
            /\ session[SessionOf(spent)] # spent
        BY <3>1, SpentOf DEF IInv, SpentIsReplaced
      <3>3. issued'[spent].session = SessionOf(spent)
        BY <1>1, <3>2 DEF SessionOf
      <3>4. session'[SessionOf(spent)] \in {n, session[SessionOf(spent)]}
        BY <1>n, <3>2 DEF IInv, AllIssued
      <3> HIDE DEF spent
      <3>5. session'[issued'[spent].session] # spent
        BY <1>1, <1>n, <3>2, <3>3, <3>4
      <3>6. QED
        BY <3>5 DEF spent
    <2>3. QED
      BY <2>1, <2>2
  <1>5. RotatedOnce'
    <2> SUFFICES ASSUME NEW j \in 1..n, NEW k \in 1..n, j # k,
                        issued'[j].from = issued'[k].from
                 PROVE  issued'[j].from = 0
      BY <1>1 DEF RotatedOnce
    <2>1. CASE j # n /\ k # n
      <3>1. j \in DOMAIN issued /\ k \in DOMAIN issued
        BY <1>1, <1>n, <2>1
      <3>2. QED
        BY <1>1, <3>1 DEF IInv, RotatedOnce
    <2>2. CASE j = n
      <3>1. k \in DOMAIN issued /\ issued[k].from = c
        BY <1>1, <1>n, <2>2
      <3>2. QED
        BY <1>1, <1>3, <2>2, <3>1
    <2>3. CASE k = n
      <3>1. j \in DOMAIN issued /\ issued[j].from = c
        BY <1>1, <1>n, <2>3
      <3>2. QED
        BY <1>1, <1>3, <2>3, <3>1
    <2>4. QED
      BY <2>1, <2>2, <2>3
  <1>6. QED
    BY <1>2, <1>4, <1>5 DEF IInv

-----------------------------------------------------------------------------
(* The steps *)

\* The numbers at hand.
LEMMA AtHand ==
  ASSUME IInv
  PROVE  Len(issued) \in Nat /\ cookie \in 0..Len(issued) /\ stored \in 0..Len(issued)
  BY DEF IInv, AllIssued

\* A tab starts or joins a refresh.
LEMMA StartKeeps ==
  ASSUME IInv, NEW b \in Tabs, UNCHANGED <<server, browser>>,
         renewToken(b) \/ Navigate(b) \/ RequestRefused(b) \/ RequestAgain(b)
  PROVE  IInv'
  <1>1. ASSUME NEW view, Known(view, Len(issued)), Becomes(b, view) PROVE IInv'
    BY <1>1, AtHand, BecomesKeeps, BrowserStepKeeps DEF browser
  <1>2. ASSUME NEW callers, NEW attempt
        PROVE  Known(refreshToken(View(b), callers, attempt, stored, cookie), Len(issued))
    BY AtHand, ViewKnown, RefreshTokenKnown
  <1>3. CASE renewToken(b)
    BY <1>1, <1>2, <1>3 DEF renewToken
  <1>4. CASE RequestAgain(b)
    BY <1>1, <1>2, <1>4 DEF RequestAgain
  <1>5. CASE Navigate(b)
    BY <1>1, <1>5, AtHand, ViewKnown, CheckAuthKnown DEF Navigate
  <1>6. CASE RequestRefused(b)
    <2> DEFINE view == refreshToken([View(b) EXCEPT !.tab.saved = getToken(tab[b], stored)],
                                    {"request"}, 1, stored, cookie)
    <2>1. Known([View(b) EXCEPT !.tab.saved = getToken(tab[b], stored)], Len(issued))
      BY ViewKnown
    <2>2. Known(view, Len(issued))
      BY <2>1, AtHand, RefreshTokenKnown
    <2>3. Becomes(b, view)
      BY <1>6 DEF RequestRefused
    <2> HIDE DEF view
    <2>4. QED
      BY <1>1, <2>2, <2>3
  <1>7. QED
    BY <1>3, <1>4, <1>5, <1>6

\* One refresh of a tab goes on.
LEMMA CallStepKeeps ==
  ASSUME IInv, NEW b \in Tabs, NEW s \in Slots, NEW c \in CallUpTo(Len(issued)),
         call' = [call EXCEPT ![b] = [call[b] EXCEPT ![s] = c]],
         UNCHANGED <<server, cookie, stored>>
  PROVE  IInv'
  <1>1. call' \in [Tabs -> [Slots -> CallUpTo(Len(issued))]]
    BY DEF IInv, AllIssued
  <1>2. QED
    BY <1>1, AtHand, BrowserStepKeeps

\* A refresh ends with what its tab makes of it.
LEMMA EndKeeps ==
  ASSUME IInv, NEW b \in Tabs, NEW view, Known(view, Len(issued)), Becomes(b, view),
         UNCHANGED server, cookie' \in 0..Len(issued), stored' \in 0..Len(issued)
  PROVE  IInv'
  BY BecomesKeeps, BrowserStepKeeps

\* The lock is granted.
LEMMA RunUnderLockKeeps ==
  ASSUME IInv, NEW b \in Tabs, NEW s \in Slots, RunUnderLock(b, s)
  PROVE  IInv'
  <1>1. CASE call[b][s].outdated
    <2>1. PICK throttled \in BOOLEAN :
            Becomes(b, Resolved(View(b), s, stored, cookie, throttled))
      BY <1>1 DEF RunUnderLock
    <2>2. Known(Resolved(View(b), s, stored, cookie, throttled), Len(issued))
      BY AtHand, ViewKnown, ResolvedKnown
    <2>3. UNCHANGED <<server, browser>>
      BY <1>1 DEF RunUnderLock
    <2>4. QED
      BY <2>1, <2>2, <2>3, AtHand, EndKeeps DEF browser
  <1>2. CASE ~call[b][s].outdated /\ stored \notin {0, call[b][s].before}
    <2> DEFINE adopted == [View(b) EXCEPT !.tab.saved = stored]
    <2>1. PICK throttled \in BOOLEAN :
            Becomes(b, Resolved(adopted, s, stored, cookie, throttled))
      BY <1>2 DEF RunUnderLock
    <2>2. Known(adopted, Len(issued))
      BY ViewKnown
    <2>3. UNCHANGED <<server, browser>>
      BY <1>2 DEF RunUnderLock
    <2> HIDE DEF adopted
    <2>4. Known(Resolved(adopted, s, stored, cookie, throttled), Len(issued))
      BY <2>2, AtHand, ResolvedKnown
    <2>5. QED
      BY <2>1, <2>3, <2>4, AtHand, EndKeeps DEF browser
  <1>3. CASE ~call[b][s].outdated /\ stored \in {0, call[b][s].before}
    <2> DEFINE c == [NoCall EXCEPT !.phase = "posted", !.cookie = cookie]
    <2>1. c \in CallUpTo(Len(issued))
      BY AtHand, NoCallKnown DEF CallUpTo, Phases
    <2>2. call' = [call EXCEPT ![b] = [call[b] EXCEPT ![s] = c]]
      BY <1>3 DEF RunUnderLock, Posts
    <2>3. UNCHANGED <<server, cookie, stored>>
      BY <1>3 DEF RunUnderLock
    <2> HIDE DEF c
    <2>4. QED
      BY <2>1, <2>2, <2>3, CallStepKeeps
  <1>4. QED
    BY <1>1, <1>2, <1>3

\* A refresh that is answered, or whose session is found.
LEMMA AnswerTyped ==
  ASSUME NEW m \in Nat, NEW x \in CallUpTo(m)
  PROVE  /\ \A n \in 0..m, p \in {"refused", "granted"} :
              [x EXCEPT !.phase = p, !.cookie = 0, !.token = n] \in CallUpTo(m)
         /\ x.cookie # 0 => [x EXCEPT !.phase = "found"] \in CallUpTo(m)
  <1> DEFINE R == [phase: Phases, outdated: BOOLEAN, before: 0..m, cookie: 0..m, token: 0..m]
  <1>1. x \in R
    BY DEF CallUpTo
  <1>2. ASSUME NEW n \in 0..m, NEW p \in {"refused", "granted"}
        PROVE  [x EXCEPT !.phase = p, !.cookie = 0, !.token = n] \in CallUpTo(m)
    <2> DEFINE y == [x EXCEPT !.phase = p, !.cookie = 0, !.token = n]
    <2>1. p \in Phases /\ 0 \in 0..m /\ n \in 0..m
      BY DEF Phases
    <2>2. DOMAIN x = {"phase", "outdated", "before", "cookie", "token"}
      BY <1>1
    <2>3. y \in R
      BY <1>1, <2>1
    <2>4. y.phase = p /\ p # "found"
      BY <2>2
    <2> HIDE DEF y
    <2>5. y \in CallUpTo(m)
      BY <2>3, <2>4 DEF CallUpTo
    <2>6. QED
      BY <2>5 DEF y
  <1>3. ASSUME x.cookie # 0 PROVE [x EXCEPT !.phase = "found"] \in CallUpTo(m)
    <2> DEFINE y == [x EXCEPT !.phase = "found"]
    <2>1. y \in R
      BY <1>1 DEF Phases
    <2>2. y.cookie # 0
      BY <1>1, <1>3
    <2> HIDE DEF y
    <2>3. y \in CallUpTo(m)
      BY <2>1, <2>2 DEF CallUpTo
    <2>4. QED
      BY <2>3 DEF y
  <1>4. QED
    BY <1>2, <1>3

\* An answer fills in one refresh.
LEMMA AnsweredCall ==
  ASSUME IInv, NEW b \in Tabs, NEW s \in Slots, NEW n \in Nat, Answered(b, s, n)
  PROVE  \E c \in CallUpTo(IF n <= Len(issued) THEN Len(issued) ELSE n) :
            call' = [call EXCEPT ![b] = [call[b] EXCEPT ![s] = c]]
  <1> DEFINE m == IF n <= Len(issued) THEN Len(issued) ELSE n
             c == [call[b][s] EXCEPT !.phase = IF n = 0 THEN "refused" ELSE "granted",
                                     !.cookie = 0, !.token = n]
  <1>1. call[b][s] \in CallUpTo(Len(issued))
    BY DEF IInv, AllIssued
  <1>2. c \in CallUpTo(m)
    <2> DEFINE p == IF n = 0 THEN "refused" ELSE "granted"
    <2>1. m \in Nat /\ n \in 0..m /\ call[b][s] \in CallUpTo(m)
      BY <1>1, AtHand DEF CallUpTo
    <2>2. p \in {"refused", "granted"}
      OBVIOUS
    <2> HIDE DEF m, p
    <2>3. [call[b][s] EXCEPT !.phase = p, !.cookie = 0, !.token = n] \in CallUpTo(m)
      BY <2>1, <2>2, AnswerTyped
    <2>4. QED
      BY <2>3 DEF p
  <1>3. call' = [call EXCEPT ![b] = [call[b] EXCEPT ![s] = c]]
    BY DEF Answered, IInv, AllIssued
  <1> HIDE DEF c
  <1>4. QED
    BY <1>2, <1>3

\* The lookup changes no session.
LEMMA GetSessionKeeps ==
  ASSUME IInv, NEW b \in Tabs, NEW s \in Slots, GetSessionByRefreshToken(b, s)
  PROVE  IInv'
  <1>1. UNCHANGED <<server, cookie, stored>>
    BY DEF GetSessionByRefreshToken, ServerStep, browser
  <1>2. CASE Answered(b, s, 0)
    BY <1>1, <1>2, AtHand, AnsweredCall, CallStepKeeps
  <1>3. CASE call[b][s].cookie # 0 /\ call' = [call EXCEPT ![b][s].phase = "found"]
    <2> DEFINE c == [call[b][s] EXCEPT !.phase = "found"]
    <2>1. c \in CallUpTo(Len(issued))
      BY <1>3, AtHand, AnswerTyped DEF IInv, AllIssued
    <2>2. call' = [call EXCEPT ![b] = [call[b] EXCEPT ![s] = c]]
      BY <1>3
    <2> HIDE DEF c
    <2>3. QED
      BY <1>1, <2>1, <2>2, CallStepKeeps
  <1>4. QED
    BY <1>2, <1>3 DEF GetSessionByRefreshToken

\* The step the theorem is about: of those that found a session by one token only the
\* first still finds the token there.
LEMMA RotateKeeps ==
  ASSUME IInv, NEW b \in Tabs, NEW s \in Slots, RotateRefreshToken(b, s)
  PROVE  IInv'
  <1> DEFINE c == call[b][s].cookie
             n == Len(issued) + 1
  <1>1. UNCHANGED <<cookie, stored>>
    BY DEF RotateRefreshToken, ServerStep, browser
  <1>2. c \in 1..Len(issued) /\ SessionOf(c) \in Sessions
    <2>1. call[b][s] \in CallUpTo(Len(issued)) /\ call[b][s].phase = "found"
      BY DEF IInv, AllIssued, RotateRefreshToken
    <2>2. c \in 1..Len(issued) /\ 1..Len(issued) = DOMAIN issued
      BY <2>1, AtHand DEF CallUpTo, IInv, AllIssued
    <2>3. QED
      BY <2>2, Entry DEF SessionOf
  <1>3. CASE session[SessionOf(c)] # c
    <2>1. Answered(b, s, 0) /\ UNCHANGED server
      BY <1>3 DEF RotateRefreshToken
    <2>2. QED
      BY <1>1, <2>1, AtHand, AnsweredCall, CallStepKeeps
  <1>4. CASE session[SessionOf(c)] = c
    <2>1. /\ issued' = Append(issued, [session |-> SessionOf(c), from |-> c])
          /\ session' = [session EXCEPT ![SessionOf(c)] = n]
          /\ Answered(b, s, n)
      BY <1>4 DEF RotateRefreshToken
    <2>2. call' \in [Tabs -> [Slots -> CallUpTo(n)]]
      <3>1. PICK x \in CallUpTo(n) : call' = [call EXCEPT ![b] = [call[b] EXCEPT ![s] = x]]
        BY <2>1, AtHand, AnsweredCall
      <3>2. call \in [Tabs -> [Slots -> CallUpTo(n)]]
        BY AtHand, CallsGrow DEF IInv, AllIssued
      <3>3. QED
        BY <3>1, <3>2
    <2> HIDE DEF c
    <2>3. cookie' \in 0..n /\ stored' \in 0..n
      BY <1>1, AtHand
    <2>4. c \in 0..Len(issued)
      BY <1>2, AtHand
    <2>5. QED
      BY <1>2, <1>4, <2>1, <2>2, <2>3, <2>4, IssueKeeps
  <1>5. QED
    BY <1>3, <1>4

\* The answer's cookie was issued.
LEMMA GrantedKeeps ==
  ASSUME IInv, NEW b \in Tabs, NEW s \in Slots, RefreshGranted(b, s)
  PROVE  IInv'
  <1> DEFINE n == call[b][s].token
             view == IF ~call[b][s].outdated THEN [View(b) EXCEPT !.tab.saved = n] ELSE View(b)
  <1>1. n \in 0..Len(issued)
    BY DEF IInv, AllIssued, CallUpTo
  <1>2. /\ cookie' = n /\ stored' \in {n, stored} /\ UNCHANGED server
        /\ \E throttled \in BOOLEAN :
             Becomes(b, Resolved(view, s, stored', cookie', throttled))
    BY DEF RefreshGranted
  <1>3. Known(view, Len(issued))
    BY ViewKnown
  <1> HIDE DEF view, n
  <1>4. cookie' \in 0..Len(issued) /\ stored' \in 0..Len(issued)
    BY <1>1, <1>2, AtHand
  <1>5. ASSUME NEW throttled \in BOOLEAN
        PROVE  Known(Resolved(view, s, stored', cookie', throttled), Len(issued))
    BY <1>3, <1>4, AtHand, ResolvedKnown
  <1>6. QED
    BY <1>2, <1>4, <1>5, EndKeeps

\* A refresh that failed changes no session.
LEMMA FailedKeeps ==
  ASSUME IInv, NEW b \in Tabs, NEW s \in Slots, NEW answered, RefreshFailed(b, s, answered)
  PROVE  IInv'
  <1> DEFINE view == Rejected(View(b), s, stored, cookie)
             left == [view EXCEPT !.tab = [view.tab EXCEPT !.user = FALSE]]
  <1>1. Known(view, Len(issued))
    BY AtHand, ViewKnown, RejectedKnown
  <1>2. Known(left, Len(issued))
    BY <1>1, TabOnly
  <1>3. [view EXCEPT !.tab.user = FALSE] = left
    BY Zenon
  <1>4. /\ Becomes(b, view) \/ Becomes(b, [view EXCEPT !.tab.user = FALSE])
        /\ UNCHANGED <<server, cookie, stored>>
    BY DEF RefreshFailed
  <1> HIDE DEF view, left
  <1>5. QED
    BY <1>1, <1>2, <1>3, <1>4, AtHand, EndKeeps

\* The session of a tab's answer ends with it.
LEMMA SessionExpiresKeeps ==
  ASSUME IInv, NEW b \in Tabs, NEW s \in Slots, SessionExpires(b, s)
  PROVE  IInv'
  <1>1. /\ EndSession(call[b][s].cookie) /\ Answered(b, s, 0)
        /\ UNCHANGED <<issued, cookie, stored>>
    BY DEF SessionExpires, browser
  <1>2. PICK c \in CallUpTo(Len(issued)) :
          call' = [call EXCEPT ![b] = [call[b] EXCEPT ![s] = c]]
    BY <1>1, AtHand, AnsweredCall
  <1>3. call' \in [Tabs -> [Slots -> CallUpTo(Len(issued))]]
    BY <1>2 DEF IInv, AllIssued
  <1> QED
    BY <1>1, <1>3, SessionEndKeeps

\* A session ends, or nothing does, while the refreshes go on.
LEMMA HandledKeeps ==
  ASSUME IInv, NEW n, EndSession(n) \/ UNCHANGED session,
         UNCHANGED <<issued, cookie, stored, call>>
  PROVE  IInv'
  <1>1. call' \in [Tabs -> [Slots -> CallUpTo(Len(issued))]]
    BY DEF IInv, AllIssued
  <1>2. CASE EndSession(n)
    BY <1>1, <1>2, SessionEndKeeps
  <1>3. CASE UNCHANGED session
    BY <1>1, <1>3, AtHand, BrowserStepKeeps DEF server
  <1> QED
    BY <1>2, <1>3

\* A logout ends a session or starts a refresh.
LEMMA LogoutServedKeeps ==
  ASSUME IInv, NEW b \in Tabs, NEW d \in Doors, LogoutServed(b, d)
  PROVE  IInv'
  <1> DEFINE k == exit[b][d].token
             saved == [View(b) EXCEPT !.tab.saved = getToken(tab[b], stored)]
             view == refreshToken(saved, {"request"}, 1, stored, cookie)
  <1>1. UNCHANGED <<issued, cookie, stored>>
    BY DEF LogoutServed, browser
  <1>2. CASE (EndSession(k) \/ UNCHANGED session) /\ UNCHANGED call
    BY <1>1, <1>2, HandledKeeps
  <1>3. CASE UNCHANGED session /\ Becomes(b, view)
    <2>1. Known(view, Len(issued))
      BY AtHand, ViewKnown, RefreshTokenKnown
    <2> HIDE DEF view
    <2>2. QED
      BY <1>1, <1>3, <2>1, AtHand, EndKeeps DEF server
  <1>4. QED
    BY <1>2, <1>3 DEF LogoutServed, LogoutHandled

\* A tab removes its tokens, and signs out or in.
LEMMA RemovesKeeps ==
  ASSUME IInv, NEW b \in Tabs, UNCHANGED server, cookie' \in {0, cookie}, stored' = 0,
         \/ Becomes(b, removeToken(View(b)))
         \/ Becomes(b, [removeToken(View(b)) EXCEPT !.tab = SignedOut(@)])
  PROVE  IInv'
  <1> DEFINE view == removeToken(View(b))
             left == [view EXCEPT !.tab = SignedOut(view.tab)]
  <1>1. Known(view, Len(issued))
    BY AtHand, ViewKnown, RemoveTokenKnown
  <1>2. Known(left, Len(issued))
    BY <1>1, TabOnly
  <1>3. Becomes(b, view) \/ Becomes(b, left)
    OBVIOUS
  <1> HIDE DEF view, left
  <1>4. QED
    BY <1>1, <1>2, <1>3, AtHand, EndKeeps

\* A login opens a new session.
LEMMA LoginDoneKeeps ==
  ASSUME IInv, NEW b \in Tabs, NEW d \in Doors, LoginDone(b, d)
  PROVE  IInv'
  <1> DEFINE n == Len(issued) + 1
  <1>1. PICK i \in NextSession :
          /\ issued' = Append(issued, [session |-> i, from |-> 0])
          /\ session' = [session EXCEPT ![i] = n]
          /\ cookie' = n /\ stored' = n
    BY DEF LoginDone
  <1>2. i \in Sessions /\ UNCHANGED call
    BY DEF LoginDone, NextSession
  <1>3. call' \in [Tabs -> [Slots -> CallUpTo(n)]]
    BY <1>2, AtHand, CallsGrow DEF IInv, AllIssued
  <1>4. n \in 0..n /\ 0 \in 0..Len(issued)
    BY AtHand
  <1>5. QED
    BY <1>1, <1>2, <1>3, <1>4, IssueKeeps

\* A repeated logout ends a session or fails.
LEMMA ServedAgainKeeps ==
  ASSUME IInv, NEW b \in Tabs, NEW d \in Doors, LogoutServedAgain(b, d)
  PROVE  IInv'
  <1>1. UNCHANGED <<issued, cookie, stored, call>>
    BY DEF LogoutServedAgain, browser
  <1>2. EndSession(getToken(tab[b], stored)) \/ UNCHANGED session
    BY DEF LogoutServedAgain, LogoutHandled
  <1> QED
    BY <1>1, <1>2, HandledKeeps

\* A closed tab's refreshes are gone.
LEMMA CloseTabKeeps ==
  ASSUME IInv, NEW b \in Tabs, CloseTab(b)
  PROVE  IInv'
  <1>1. call' \in [Tabs -> [Slots -> CallUpTo(Len(issued))]]
    BY AtHand, NoCallKnown DEF CloseTab, IInv, AllIssued
  <1>2. QED
    BY <1>1, AtHand, BrowserStepKeeps DEF CloseTab

\* What touches neither tokens nor refreshes.
LEMMA IdleKeeps ==
  ASSUME IInv, UNCHANGED <<server, cookie, stored, call>>
  PROVE  IInv'
  BY AtHand, BrowserStepKeeps DEF IInv, AllIssued

\* At first one token was issued and none spent.
LEMMA InitEstablishes == Init => IInv
  <1> SUFFICES ASSUME Init PROVE IInv
    OBVIOUS
  <1>1. 1 \in Sessions /\ Len(issued) = 1 /\ DOMAIN issued = {1}
    BY BoundsAssumption DEF Init, Sessions
  <1>2. AllIssued
    BY <1>1, NoCallKnown DEF Init, AllIssued
  <1>3. SpentIsReplaced /\ RotatedOnce
    BY <1>1 DEF Init, SpentIsReplaced, RotatedOnce
  <1>4. QED
    BY <1>2, <1>3 DEF IInv

\* Every step keeps the invariant.
LEMMA NextKeeps == IInv /\ [Next]_vars => IInv'
  <1> SUFFICES ASSUME IInv, [Next]_vars PROVE IInv'
    OBVIOUS
  <1>1. ASSUME NEW b \in Tabs, renewToken(b) \/ Navigate(b) \/ RequestRefused(b) \/ RequestAgain(b)
        PROVE  IInv'
    BY <1>1, StartKeeps DEF renewToken, Navigate, RequestRefused, RequestAgain, Unmoved
  <1>2. ASSUME NEW b \in Tabs,
               LogoutStart(b) \/ OpenTab(b) \/ UserInfo(b) \/ UserInfoRefused(b)
        PROVE  IInv'
    <2>1. UNCHANGED <<server, cookie, stored, call>>
      BY <1>2 DEF LogoutStart, OpenTab, UserInfo, UserInfoArrives, UserInfoFails,
                  UserInfoRefused, browser
    <2> QED
      BY <2>1, IdleKeeps
  <1>3. ASSUME NEW b \in Tabs, LoginStart(b) \/ \E d \in Doors : LogoutDone(b, d) PROVE IInv'
    BY <1>3, RemovesKeeps DEF LoginStart, LogoutDone
  <1>4. ASSUME NEW b \in Tabs, CloseTab(b) PROVE IInv'
    BY <1>4, CloseTabKeeps
  <1>5. ASSUME NEW b \in Tabs, Refresh(b) PROVE IInv'
    <2>1. ASSUME NEW s \in Slots, RefreshRefused(b, s) PROVE IInv'
      BY <1>5, <2>1, FailedKeeps DEF RefreshRefused
    <2>2. QED
      BY <1>5, <2>1, RunUnderLockKeeps, GetSessionKeeps, RotateKeeps, GrantedKeeps DEF Refresh
  <1>6. ASSUME NEW b \in Tabs, NEW s \in Slots, AnswerLost(b, s) \/ SessionExpires(b, s)
        PROVE  IInv'
    BY <1>6, FailedKeeps, SessionExpiresKeeps DEF AnswerLost
  <1>7. ASSUME NEW b \in Tabs, Exit(b) PROVE IInv'
    BY <1>3, <1>7, LogoutServedKeeps, ServedAgainKeeps, LoginDoneKeeps DEF Exit
  <1>8. CASE Expire
    BY <1>8, IdleKeeps DEF Expire, browser
  <1>9. CASE UNCHANGED vars
    BY <1>9, IdleKeeps DEF vars, browser
  <1> QED
    BY <1>1, <1>2, <1>3, <1>4, <1>5, <1>6, <1>7, <1>8, <1>9 DEF Next

\* A refresh token is spent once, in however many tabs it is presented.
THEOREM RefreshTokensRotateOnce == Spec => []RotatedOnce
  <1>1. IInv => RotatedOnce
    BY DEF IInv
  <1> QED
    BY <1>1, InitEstablishes, NextKeeps, PTL DEF Spec

-----------------------------------------------------------------------------
(* The clock, the logouts and the counters *)

\* What neither tokens nor refreshes are kept in.
RestTyped ==
    /\ secure \in BOOLEAN /\ expired \in 0..Len(issued)
    /\ exit \in [Tabs -> [Doors -> Exits]]
    /\ disturbed \in BOOLEAN /\ events \in 0..MaxEvents

\* At first nothing has expired.
LEMMA InitRest == Init => RestTyped
  <1> SUFFICES ASSUME Init PROVE RestTyped
    OBVIOUS
  <1>1. Len(issued) = 1 /\ At("none") \in Exits /\ 0 \in 0..MaxEvents
    BY BoundsAssumption DEF Init, Exits, At, Token
  <1>2. secure \in BOOLEAN /\ disturbed \in BOOLEAN /\ events \in 0..MaxEvents
    BY <1>1, ContextsAssumption DEF Init
  <1>3. exit \in [Tabs -> [Doors -> Exits]] /\ expired \in 0..Len(issued)
    BY <1>1 DEF Init
  <1> QED
    BY <1>2, <1>3 DEF RestTyped

\* The logouts and logins of at most one tab go on.
ExitStep ==
    exit' = exit \/ \E b \in Tabs, e \in [Doors -> Exits] : exit' = [exit EXCEPT ![b] = e]

\* A step changes little of it.
RestStep ==
    /\ secure' = secure
    /\ issued' = issued \/ \E x : issued' = Append(issued, x)
    /\ expired' = expired \/ (expired < Len(issued) /\ expired' = expired + 1)
    /\ ExitStep
    /\ disturbed' \in BOOLEAN /\ (disturbed => disturbed')
    /\ events' = events \/ (events < MaxEvents /\ events' = events + 1)

\* The tokens that a tab may sign out with.
TokensTyped == stored \in Nat /\ \A b \in Tabs : tab[b].saved \in Nat

\* A logout is begun with such a token.
LEMMA LogoutTyped ==
  ASSUME TokensTyped, NEW b \in Tabs, NEW doors \in [Doors -> Exits]
  PROVE  Logout(doors, getToken(tab[b], stored)) \in [Doors -> Exits]
  <1>1. getToken(tab[b], stored) \in Nat
    BY DEF TokensTyped, getToken
  <1>2. [phase |-> "sent", token |-> getToken(tab[b], stored)] \in Exits
    BY <1>1 DEF Exits, Token
  <1> QED
    BY <1>2 DEF Logout

\* One logout or login goes on, or ends.
LEMMA DoorStep ==
  ASSUME RestTyped, NEW b \in Tabs, NEW d,
         NEW p \in {"none", "renewing", "answered", "failed", "login"},
         exit' = [exit EXCEPT ![b][d] = At(p)]
  PROVE  ExitStep
  <1>1. At(p) \in Exits /\ exit[b] \in [Doors -> Exits]
    BY DEF At, Exits, Token, RestTyped
  <1>2. [exit[b] EXCEPT ![d] = At(p)] \in [Doors -> Exits]
    BY <1>1
  <1> QED
    BY <1>2 DEF ExitStep

\* A step that signs out.
LEMMA OutStep ==
  ASSUME RestTyped, TokensTyped, NEW b \in Tabs, NEW doors \in [Doors -> Exits],
         exit' = [exit EXCEPT ![b] = Logout(doors, getToken(tab[b], stored))]
  PROVE  ExitStep
  BY LogoutTyped DEF ExitStep

\* A refresh that fails may lead to two logouts.
LEMMA FailedStep ==
  ASSUME RestTyped, TokensTyped, NEW b \in Tabs, NEW s, NEW answered,
         RefreshFailed(b, s, answered)
  PROVE  ExitStep
  <1> DEFINE n == getToken(tab[b], stored)
             renewed == IF RenewGivesUp(b, s, answered) THEN Logout(exit[b], n) ELSE exit[b]
  <1>1. renewed \in [Doors -> Exits]
    BY LogoutTyped DEF RestTyped
  <1>2. exit' = [exit EXCEPT ![b] = renewed] \/ exit' = [exit EXCEPT ![b] = Logout(renewed, n)]
    BY DEF RefreshFailed
  <1> HIDE DEF renewed
  <1> QED
    BY <1>1, <1>2, OutStep DEF ExitStep

\* That is so of every step.
LEMMA NextRestStep ==
  ASSUME RestTyped, TokensTyped, [Next]_vars
  PROVE  RestStep
  <1> USE DEF RestStep
  <1>0. ASSUME exit' = exit PROVE ExitStep
    BY <1>0 DEF ExitStep
  <1>1. ASSUME NEW b \in Tabs,
               renewToken(b) \/ Navigate(b) \/ RequestRefused(b) \/ RequestAgain(b)
        PROVE  RestStep
    <2>1. Unmoved
      BY <1>1 DEF renewToken, Navigate, RequestRefused, RequestAgain
    <2> QED
      BY <1>0, <2>1 DEF Unmoved, server, ghosts, RestTyped
  <1>2. ASSUME NEW b \in Tabs, LogoutStart(b) \/ UserInfoRefused(b) PROVE RestStep
    <2>1. exit[b] \in [Doors -> Exits]
          /\ exit' = [exit EXCEPT ![b] = Logout(exit[b], getToken(tab[b], stored))]
      BY <1>2 DEF LogoutStart, UserInfoRefused, RestTyped
    <2>2. ExitStep
      BY <2>1, OutStep
    <2> QED
      BY <1>2, <2>2 DEF LogoutStart, UserInfoRefused, Event, server, ghosts, RestTyped
  <1>3. ASSUME NEW b \in Tabs, LoginStart(b) PROVE RestStep
    <2>1. ExitStep
      BY <1>3, DoorStep DEF LoginStart
    <2> QED
      BY <1>3, <2>1 DEF LoginStart, server, RestTyped
  <1>4. ASSUME NEW b \in Tabs, CloseTab(b) PROVE RestStep
    <2>1. [d \in Doors |-> At("none")] \in [Doors -> Exits]
      BY DEF At, Exits, Token
    <2>2. ExitStep
      BY <1>4, <2>1 DEF CloseTab, ExitStep
    <2> QED
      BY <1>4, <2>2 DEF CloseTab, Event, server, RestTyped
  <1>5. ASSUME NEW b \in Tabs, OpenTab(b) \/ UserInfo(b) PROVE RestStep
    BY <1>0, <1>5 DEF OpenTab, UserInfo, UserInfoArrives, UserInfoFails, Event, server, ghosts,
                      RestTyped
  <1>6. ASSUME NEW b \in Tabs, NEW d \in Doors,
               LogoutServed(b, d) \/ LogoutServedAgain(b, d) \/ LogoutDone(b, d) \/ LoginDone(b, d)
        PROVE  ExitStep
    BY <1>6, DoorStep DEF LogoutServed, LogoutServedAgain, LogoutDone, LoginDone, LogoutHandled
  <1>7. ASSUME NEW b \in Tabs, NEW d \in Doors, LogoutServed(b, d) \/ LogoutServedAgain(b, d)
        PROVE  RestStep
    BY <1>6, <1>7 DEF LogoutServed, LogoutServedAgain, ghosts, RestTyped
  <1>8. ASSUME NEW b \in Tabs, NEW d \in Doors, LogoutDone(b, d) PROVE RestStep
    BY <1>6, <1>8 DEF LogoutDone, server, RestTyped
  <1>10. ASSUME NEW b \in Tabs, NEW d \in Doors, LoginDone(b, d) PROVE RestStep
    BY <1>6, <1>10 DEF LoginDone, RestTyped
  <1>11. ASSUME NEW b \in Tabs, NEW s \in Slots, RunUnderLock(b, s) PROVE RestStep
    BY <1>0, <1>11 DEF RunUnderLock, server, RestTyped
  <1>12. ASSUME NEW b \in Tabs, NEW s \in Slots, ServerStep,
                GetSessionByRefreshToken(b, s) \/ RotateRefreshToken(b, s)
         PROVE  RestStep
    BY <1>0, <1>12 DEF GetSessionByRefreshToken, RotateRefreshToken, ServerStep, server, ghosts,
                       RestTyped
  <1>13. ASSUME NEW b \in Tabs, NEW s \in Slots, RefreshGranted(b, s) PROVE RestStep
    BY <1>0, <1>13 DEF RefreshGranted, server, RestTyped
  <1>14. ASSUME NEW b \in Tabs, NEW s \in Slots, RefreshRefused(b, s) PROVE RestStep
    <2>1. ExitStep
      BY <1>14, FailedStep DEF RefreshRefused
    <2> QED
      BY <1>14, <2>1 DEF RefreshRefused, RefreshFailed, server, RestTyped
  <1>15. ASSUME NEW b \in Tabs, NEW s \in Slots, AnswerLost(b, s) PROVE RestStep
    <2>1. ExitStep
      BY <1>15, FailedStep DEF AnswerLost
    <2> QED
      BY <1>15, <2>1 DEF AnswerLost, RefreshFailed, Event, server, RestTyped
  <1>16. ASSUME NEW b \in Tabs, NEW s \in Slots, SessionExpires(b, s) PROVE RestStep
    BY <1>0, <1>16 DEF SessionExpires, Event, ghosts, RestTyped
  <1>17. CASE Expire
    BY <1>0, <1>17 DEF Expire, server, RestTyped
  <1>18. CASE UNCHANGED vars
    BY <1>0, <1>18 DEF vars, server, ghosts, RestTyped
  <1> HIDE DEF RestStep
  <1>19. ASSUME NEW b \in Tabs, Refresh(b) PROVE RestStep
    BY <1>19, <1>11, <1>12, <1>13, <1>14
       DEF Refresh, GetSessionByRefreshToken, RotateRefreshToken
  <1>20. ASSUME NEW b \in Tabs, Exit(b) PROVE RestStep
    BY <1>20, <1>7, <1>8, <1>10 DEF Exit
  <1> QED
    BY <1>1, <1>2, <1>3, <1>4, <1>5, <1>15, <1>16, <1>17, <1>18, <1>19, <1>20 DEF Next

\* So it keeps its types.
LEMMA NextRest ==
  ASSUME IInv, RestTyped, TokensTyped, [Next]_vars
  PROVE  RestTyped'
  <1>1. RestStep
    BY NextRestStep
  <1>2. /\ expired \in 0..Len(issued) /\ Len(issued) \in Nat
        /\ issued \in Seq([session: Sessions, from: Nat])
    BY AtHand DEF RestTyped, IInv, AllIssued
  <1>3. Len(issued') \in Nat /\ Len(issued) <= Len(issued')
    BY <1>1, <1>2 DEF RestStep
  <1>4. expired' \in 0..Len(issued')
    BY <1>1, <1>2, <1>3 DEF RestStep
  <1>5. exit' \in [Tabs -> [Doors -> Exits]]
    BY <1>1 DEF RestStep, ExitStep, RestTyped
  <1>6. events' \in 0..MaxEvents
    BY <1>1, BoundsAssumption DEF RestStep, RestTyped
  <1> QED
    BY <1>1, <1>4, <1>5, <1>6 DEF RestStep, RestTyped

-----------------------------------------------------------------------------
(* One refresh of a tab is shared at a time.  Each function of the browser   *)
(* leaves the refreshes alone that it does not end, and starts one only      *)
(* where none is shared.                                                     *)

\* What a step of a tab starts from and leaves.
Views == [tab: Tab, calls: [Slots -> Call], waits: [Callers -> Wait]]

\* A refresh of the present sign-in is the one that new callers share.
Sharing(view) ==
    \A s \in Slots :
        view.calls[s].phase # "none" /\ ~view.calls[s].outdated => view.tab.current = s

\* Its request is out, or has been answered.
Sent(c) == c.phase \notin {"none", "queued"}

\* What a tab does with its refreshes when some of them end.
Keeps(view, ended, next) ==
    /\ \A s \in Slots \ ended :
          view.calls[s].phase # "none" => next.calls[s] = view.calls[s]
    /\ secure => \A s \in Slots :
          Sent(next.calls[s]) => s \notin ended /\ Sent(view.calls[s])
Follows(view, ended, storage, next) ==
    /\ next \in Views /\ Sharing(next)
    /\ Keeps(view, ended, next)
    /\ next.tab.saved \in {view.tab.saved, storage}

\* What it does next ends no more of them.
LEMMA FollowsOn ==
  ASSUME NEW view, NEW ended, NEW storage, NEW mid, NEW next,
         Follows(view, ended, storage, mid), Follows(mid, {}, storage, next)
  PROVE  Follows(view, ended, storage, next)
  <1>1. next \in Views /\ Sharing(next) /\ next.tab.saved \in {view.tab.saved, storage}
    BY DEF Follows
  <1>2. ASSUME NEW s \in Slots \ ended, view.calls[s].phase # "none"
        PROVE  next.calls[s] = view.calls[s]
    BY <1>2 DEF Follows, Keeps
  <1>3. ASSUME secure, NEW s \in Slots, Sent(next.calls[s])
        PROVE  s \notin ended /\ Sent(view.calls[s])
    BY <1>3 DEF Follows, Keeps
  <1> QED
    BY <1>1, <1>2, <1>3 DEF Follows, Keeps

\* It changes no refresh by what it keeps beside them.
LEMMA TabFollows ==
  ASSUME NEW view \in Views, Sharing(view), NEW storage, NEW t \in Tab,
         t.current = view.tab.current, t.saved \in {view.tab.saved, storage}
  PROVE  /\ Follows(view, {}, storage, [view EXCEPT !.tab = t])
         /\ [view EXCEPT !.tab = t].tab = t
  <1> DEFINE next == [view EXCEPT !.tab = t]
  <1>1. next \in Views /\ next.tab = t /\ next.calls = view.calls
    BY DEF Views
  <1> HIDE DEF next
  <1>2. Sharing(next) /\ Keeps(view, {}, next)
    BY <1>1 DEF Sharing, Keeps
  <1> QED
    BY <1>1, <1>2 DEF Follows, next

\* Nothing is changed by doing nothing.
LEMMA SameFollows ==
  ASSUME NEW view \in Views, Sharing(view), NEW storage
  PROVE  Follows(view, {}, storage, view)
  BY DEF Follows, Keeps

\* A call of refreshToken starts a refresh only where none is shared.
LEMMA RefreshTokenFollows ==
  ASSUME NEW view \in Views, Sharing(view), CanRefresh(view), NEW callers,
         NEW attempt \in {1, 2}, NEW storage \in Nat, NEW jar \in Nat
  PROVE  Follows(view, {}, storage, refreshToken(view, callers, attempt, storage, jar))
  <1> DEFINE queued == [NoCall EXCEPT !.phase = "queued", !.before = storage]
             posted == [NoCall EXCEPT !.phase = "posted", !.cookie = jar]
             s == IF view.tab.current # NoSlot THEN view.tab.current
                  ELSE CHOOSE free \in Free(view.calls) : TRUE
             started == IF secure THEN queued ELSE posted
             next == refreshToken(view, callers, attempt, storage, jar)
  <1>1. /\ queued \in Call /\ queued.phase = "queued"
        /\ posted \in Call /\ posted.phase = "posted"
    BY DEF NoCall, Call, Phases, Token
  <1> HIDE DEF queued, posted
  <1>2. /\ started \in Call
        /\ secure => ~Sent(started)
    BY <1>1 DEF Sent
  <1> HIDE DEF started
  <1>3. s \in Slots /\ (view.tab.current = NoSlot => view.calls[s].phase = "none")
    BY DEF CanRefresh, Free, Views, Tab
  <1>4. /\ next = [tab |-> next.tab, calls |-> next.calls, waits |-> next.waits]
        /\ next.tab = [view.tab EXCEPT !.current = s]
        /\ next.calls = IF view.tab.current # NoSlot THEN view.calls
                        ELSE [view.calls EXCEPT ![s] = started]
        /\ next.waits = [c \in Callers |-> IF c \in callers
                           THEN [slot |-> s, attempt |-> attempt] ELSE view.waits[c]]
    BY DEF refreshToken, started, queued, posted
  <1>c. view.tab.current # NoSlot => view.tab.current = s
    OBVIOUS
  <1> HIDE DEF s, next
  <1>5. /\ next.tab \in Tab /\ next.tab.current = s /\ next.tab.saved = view.tab.saved
    BY <1>3, <1>4 DEF Views, Tab
  <1>6. next.calls \in [Slots -> Call]
    BY <1>2, <1>3, <1>4 DEF Views
  <1>7. next.waits \in [Callers -> Wait]
    BY <1>3, <1>4 DEF Views, Wait
  <1>8. next \in Views
    BY <1>4, <1>5, <1>6, <1>7 DEF Views
  <1>9. Sharing(next)
    <2> SUFFICES ASSUME NEW r \in Slots, next.calls[r].phase # "none", ~next.calls[r].outdated,
                        r # s
                 PROVE  FALSE
      BY <1>5 DEF Sharing
    <2>1. next.calls[r] = view.calls[r]
      BY <1>3, <1>4 DEF Views
    <2>2. view.tab.current = r
      BY <2>1 DEF Sharing
    <2>3. r # NoSlot
      BY SlotsAssumption
    <2> QED
      BY <1>c, <2>2, <2>3
  <1>10. Keeps(view, {}, next)
    <2>1. ASSUME NEW r \in Slots, view.calls[r].phase # "none"
          PROVE  next.calls[r] = view.calls[r]
      BY <1>3, <1>4, <2>1 DEF Views
    <2>2. ASSUME secure, NEW r \in Slots, Sent(next.calls[r]) PROVE Sent(view.calls[r])
      BY <1>2, <1>3, <1>4, <2>2 DEF Views
    <2> QED
      BY <2>1, <2>2 DEF Keeps
  <1> QED
    BY <1>5, <1>8, <1>9, <1>10 DEF Follows, next

\* So does a check of the sign-in.
LEMMA CheckAuthFollows ==
  ASSUME expired \in Nat, NEW view \in Views, Sharing(view), NEW storage \in Nat, NEW jar \in Nat
  PROVE  Follows(view, {}, storage, checkAuth(view, storage, jar))
  <1> DEFINE token == getToken(view.tab, storage)
             read == [view EXCEPT !.tab = [view.tab EXCEPT !.saved = token]]
             saved == [read EXCEPT !.tab = [read.tab EXCEPT !.asked = expired]]
  <1>1. token \in {view.tab.saved, storage} /\ token \in Nat /\ view.tab \in Tab
    BY DEF getToken, Views, Tab, Token
  <1> HIDE DEF token
  <1>2. /\ Follows(view, {}, storage, [view EXCEPT !.tab = SignedOut(view.tab)])
        /\ Follows(view, {}, storage, [view EXCEPT !.tab = AsksUser(view.tab, token)])
        /\ Follows(view, {}, storage, saved) /\ saved.calls = view.calls
        /\ saved.tab.current = view.tab.current
    <2>1. /\ SignedOut(view.tab) \in Tab /\ SignedOut(view.tab).current = view.tab.current
          /\ SignedOut(view.tab).saved = view.tab.saved
      BY <1>1 DEF SignedOut, Tab, Token
    <2>2. /\ AsksUser(view.tab, token) \in Tab
          /\ AsksUser(view.tab, token).current = view.tab.current
          /\ AsksUser(view.tab, token).saved = token
      BY <1>1 DEF AsksUser, Tab, Token
    <2>3. /\ saved = [view EXCEPT !.tab = saved.tab] /\ saved.tab \in Tab
          /\ saved.tab.current = view.tab.current /\ saved.tab.saved = token
          /\ saved.calls = view.calls
      BY <1>1 DEF Views, Tab, Token
    <2> HIDE DEF saved
    <2> QED
      BY <1>1, <2>1, <2>2, <2>3, TabFollows
  <1>3. [view EXCEPT !.tab.saved = token, !.tab.asked = expired] = saved
    BY Zenon
  <1>4. CanRefresh(view) => CanRefresh(saved)
    BY <1>2 DEF CanRefresh
  <1>5. CanRefresh(view)
          => Follows(view, {}, storage, refreshToken(saved, {"check"}, 1, storage, jar))
    <2> HIDE DEF saved
    <2> SUFFICES ASSUME CanRefresh(view)
                 PROVE  Follows(view, {}, storage, refreshToken(saved, {"check"}, 1, storage, jar))
      OBVIOUS
    <2>1. saved \in Views /\ Sharing(saved) /\ CanRefresh(saved)
      BY <1>2, <1>4 DEF Follows
    <2>2. Follows(saved, {}, storage, refreshToken(saved, {"check"}, 1, storage, jar))
      BY <2>1, RefreshTokenFollows
    <2> QED
      BY <1>2, <2>2, FollowsOn
  <1> HIDE DEF saved
  <1>6. \/ checkAuth(view, storage, jar) = [view EXCEPT !.tab = SignedOut(view.tab)]
        \/ checkAuth(view, storage, jar) = [view EXCEPT !.tab = AsksUser(view.tab, token)]
        \/ checkAuth(view, storage, jar) = view
        \/ /\ CanRefresh(view)
           /\ checkAuth(view, storage, jar) = refreshToken(saved, {"check"}, 1, storage, jar)
    BY <1>3, Zenon DEF checkAuth, token
  <1> QED
    BY <1>2, <1>5, <1>6, SameFollows

\* The tokens are removed; the refreshes that go on are outdated.
LEMMA RemoveTokenFollows ==
  ASSUME NEW view \in Views
  PROVE  /\ removeToken(view) \in Views /\ Sharing(removeToken(view))
         /\ removeToken(view).tab.saved = 0
         /\ \A s \in Slots :
              /\ removeToken(view).calls[s].phase = view.calls[s].phase
              /\ view.calls[s].phase # "none" => removeToken(view).calls[s].outdated
  <1> DEFINE unsaved == [view EXCEPT !.tab = [view.tab EXCEPT !.saved = 0]]
             unshared == [unsaved EXCEPT !.tab = [unsaved.tab EXCEPT !.current = NoSlot]]
             calls == [s \in Slots |-> IF view.calls[s] = NoCall THEN NoCall
                                       ELSE [view.calls[s] EXCEPT !.outdated = TRUE]]
             next == removeToken(view)
  <1>1. next = [unshared EXCEPT !.calls = calls]
    BY Zenon DEF removeToken
  <1> HIDE DEF calls, next
  <1>u. unsaved \in Views /\ unsaved.tab.saved = 0
    BY DEF Views, Tab, Token
  <1> HIDE DEF unsaved
  <1>v. unshared \in Views /\ unshared.tab.saved = 0
    BY <1>u DEF Views, Tab, Token
  <1> HIDE DEF unshared
  <1>2. /\ next = [tab |-> next.tab, calls |-> next.calls, waits |-> next.waits]
        /\ next.tab \in Tab /\ next.tab.saved = 0
        /\ next.waits \in [Callers -> Wait]
        /\ next.calls = calls
    BY <1>1, <1>v DEF Views
  <1>3. ASSUME NEW s \in Slots
        PROVE  /\ next.calls[s] \in Call /\ next.calls[s].phase = view.calls[s].phase
               /\ view.calls[s].phase # "none" => next.calls[s].outdated
    <2>1. view.calls[s] \in Call
      BY DEF Views
    <2>2. CASE view.calls[s] = NoCall
      BY <1>2, <2>1, <2>2 DEF NoCall, calls
    <2>3. CASE view.calls[s] # NoCall
      <3>1. next.calls[s] = [view.calls[s] EXCEPT !.outdated = TRUE]
        BY <1>2, <2>3 DEF calls
      <3> QED
        BY <2>1, <3>1 DEF Call
    <2> QED
      BY <2>2, <2>3
  <1>4. next.calls \in [Slots -> Call]
    BY <1>2, <1>3 DEF calls
  <1>5. next \in Views
    BY <1>2, <1>4 DEF Views
  <1>6. Sharing(next)
    BY <1>3 DEF Sharing
  <1> QED
    BY <1>2, <1>3, <1>5, <1>6 DEF next

\* Then the tab may sign out.
LEMMA OutFollows ==
  ASSUME NEW view \in Views, Sharing(view)
  PROVE  LET next == [view EXCEPT !.tab = SignedOut(@)] IN
         /\ next \in Views /\ Sharing(next)
         /\ next.calls = view.calls /\ next.waits = view.waits
         /\ next.tab.saved = view.tab.saved /\ next.tab.asked = view.tab.asked
         /\ next.tab.current = view.tab.current
  <1> DEFINE t == SignedOut(view.tab)
             next == [view EXCEPT !.tab = t]
  <1>1. /\ t \in Tab /\ t.saved = view.tab.saved /\ t.asked = view.tab.asked
        /\ t.current = view.tab.current
    BY DEF SignedOut, Tab, Token, Views
  <1> HIDE DEF t
  <1>2. /\ next \in Views /\ next.tab = t /\ next.calls = view.calls
        /\ next.waits = view.waits
    BY <1>1 DEF Views
  <1>3. next = [view EXCEPT !.tab = SignedOut(@)]
    BY DEF t
  <1> HIDE DEF next
  <1>4. Sharing(next)
    BY <1>1, <1>2 DEF Sharing
  <1> QED
    BY <1>1, <1>2, <1>3, <1>4

\* A tab stops waiting for its user info.
LEMMA UserFollows ==
  ASSUME NEW view \in Views, Sharing(view), NEW storage
  PROVE  LET next == [view EXCEPT !.tab.user = FALSE] IN
         /\ Follows(view, {}, storage, next)
         /\ next.calls = view.calls /\ next.waits = view.waits
         /\ next.tab.saved = view.tab.saved /\ next.tab.asked = view.tab.asked
         /\ next.tab.current = view.tab.current
  <1> DEFINE t == [view.tab EXCEPT !.user = FALSE]
             next == [view EXCEPT !.tab = t]
  <1>1. /\ t \in Tab /\ t.saved = view.tab.saved /\ t.asked = view.tab.asked
        /\ t.current = view.tab.current
    BY DEF Tab, Views
  <1>2. [view EXCEPT !.tab.user = FALSE] = next
    BY Zenon
  <1> HIDE DEF t
  <1>3. Follows(view, {}, storage, next) /\ next.tab = t
    BY <1>1, TabFollows
  <1>4. next.calls = view.calls /\ next.waits = view.waits
    BY DEF Views
  <1> HIDE DEF next
  <1> QED
    BY <1>1, <1>2, <1>3, <1>4

\* A refresh has ended and its slot is free.
LEMMA OverFollows ==
  ASSUME NEW view \in Views, Sharing(view), NEW s \in Slots, NEW callers, NEW storage
  PROVE  /\ Follows(view, {s}, storage, Released(Settled(view, s), callers))
         /\ s \in Free(Released(Settled(view, s), callers).calls)
         /\ Released(Settled(view, s), callers).tab.saved = view.tab.saved
  <1> DEFINE t == [view.tab EXCEPT !.current = IF view.tab.current = s THEN NoSlot
                                               ELSE view.tab.current]
             left == [view EXCEPT !.tab = t]
             settled == Settled(view, s)
             told == [settled EXCEPT !.waits =
                        [c \in Callers |-> IF c \in callers THEN NoWait ELSE settled.waits[c]]]
             asked == IF "check" \in callers THEN 0 ELSE told.tab.asked
             over == Released(settled, callers)
  <1>1. settled = [left EXCEPT !.calls = [left.calls EXCEPT ![s] = NoCall]]
    BY Zenon DEF Settled
  <1> HIDE DEF settled
  <1>t. /\ t \in Tab /\ t.saved = view.tab.saved /\ t.asked \in Nat
        /\ t.current = IF view.tab.current = s THEN NoSlot ELSE view.tab.current
    BY DEF Views, Tab, Token
  <1> HIDE DEF t
  <1>s. /\ settled = [tab |-> t, calls |-> settled.calls, waits |-> view.waits]
        /\ settled.calls = [view.calls EXCEPT ![s] = NoCall]
    BY <1>1 DEF Views
  <1>o. over = [told EXCEPT !.tab = [told.tab EXCEPT !.asked = asked]]
    BY Zenon DEF Released
  <1>a. /\ told = [tab |-> t, calls |-> settled.calls, waits |-> told.waits]
        /\ told.waits = [c \in Callers |-> IF c \in callers THEN NoWait ELSE view.waits[c]]
        /\ asked \in Nat
    BY <1>s, <1>t
  <1> HIDE DEF told, asked, over
  <1>2. /\ over = [tab |-> [t EXCEPT !.asked = asked], calls |-> settled.calls,
                   waits |-> over.waits]
        /\ over.waits = [c \in Callers |-> IF c \in callers THEN NoWait ELSE view.waits[c]]
    BY <1>o, <1>a
  <1>3. /\ over.tab \in Tab /\ over.tab.saved = view.tab.saved
        /\ over.tab.current = IF view.tab.current = s THEN NoSlot ELSE view.tab.current
    BY <1>a, <1>t, <1>2 DEF Tab, Token
  <1>4. NoCall \in Call /\ NoCall.phase = "none" /\ NoWait \in Wait
    BY DEF NoCall, Call, Phases, Token, NoWait, Wait
  <1>5. /\ over.calls \in [Slots -> Call] /\ over.calls[s] = NoCall
        /\ \A r \in Slots : r # s => over.calls[r] = view.calls[r]
    BY <1>s, <1>2, <1>4 DEF Views
  <1>6. over.waits \in [Callers -> Wait]
    BY <1>2, <1>4 DEF Views
  <1>7. over \in Views
    BY <1>2, <1>3, <1>5, <1>6 DEF Views
  <1>8. Sharing(over)
    BY <1>3, <1>4, <1>5 DEF Sharing
  <1>9. Keeps(view, {s}, over)
    BY <1>4, <1>5 DEF Keeps, Sent
  <1>10. s \in Free(over.calls)
    BY <1>4, <1>5 DEF Free
  <1> QED
    BY <1>3, <1>7, <1>8, <1>9, <1>10 DEF Follows, over, settled

\* A refresh that succeeded leads to a check of the sign-in at most.
LEMMA ResolvedFollows ==
  ASSUME expired \in Nat, NEW view \in Views, Sharing(view), NEW s \in Slots,
         NEW storage \in Nat, NEW jar \in Nat, NEW throttled
  PROVE  Follows(view, {s}, storage, Resolved(view, s, storage, jar, throttled))
  <1> DEFINE callers == Waiting(view, s)
             over == Released(Settled(view, s), callers)
             token == getToken(over.tab, storage)
             checked == IF "check" \notin callers THEN over
                        ELSE IF token > view.tab.asked
                             THEN [over EXCEPT !.tab = AsksUser(over.tab, token)]
                             ELSE [over EXCEPT !.tab = SignedOut([over.tab EXCEPT !.saved = token])]
  <1>1. Follows(view, {s}, storage, over)
    BY OverFollows
  <1>2. Resolved(view, s, storage, jar, throttled)
          = IF "renew" \in callers /\ ~throttled THEN checkAuth(checked, storage, jar)
            ELSE checked
    BY Zenon DEF Resolved
  <1> HIDE DEF over, callers
  <1>3. over \in Views /\ Sharing(over) /\ over.tab \in Tab
    BY <1>1 DEF Follows, Views
  <1>4. token \in {over.tab.saved, storage} /\ token \in Nat
    BY <1>3 DEF getToken, Tab, Token
  <1> HIDE DEF token
  <1>5. Follows(over, {}, storage, checked)
    <2> DEFINE out == SignedOut([over.tab EXCEPT !.saved = token])
    <2>1. out \in Tab /\ out.current = over.tab.current /\ out.saved = token
      BY <1>3, <1>4 DEF SignedOut, Tab, Token
    <2>2. /\ AsksUser(over.tab, token) \in Tab
          /\ AsksUser(over.tab, token).current = over.tab.current
          /\ AsksUser(over.tab, token).saved = token
      BY <1>3, <1>4 DEF AsksUser, Tab, Token
    <2> HIDE DEF out
    <2>3. /\ Follows(over, {}, storage, [over EXCEPT !.tab = out])
          /\ Follows(over, {}, storage, [over EXCEPT !.tab = AsksUser(over.tab, token)])
      BY <1>3, <1>4, <2>1, <2>2, TabFollows
    <2> QED
      BY <1>3, <2>3, SameFollows DEF out
  <1> HIDE DEF checked
  <1>6. Follows(view, {s}, storage, checked)
    BY <1>1, <1>5, FollowsOn
  <1>7. Follows(checked, {}, storage, checkAuth(checked, storage, jar))
    BY <1>6, CheckAuthFollows DEF Follows
  <1>8. Follows(view, {s}, storage, checkAuth(checked, storage, jar))
    BY <1>6, <1>7, FollowsOn
  <1> QED
    BY <1>2, <1>6, <1>8

\* One that failed leads to second attempts, which find its slot free.
LEMMA RejectedFollows ==
  ASSUME NEW view \in Views, Sharing(view), NEW s \in Slots,
         NEW storage \in Nat, NEW jar \in Nat
  PROVE  Follows(view, {s}, storage, Rejected(view, s, storage, jar))
  <1> DEFINE again == Again(view, s)
             pausing == {c \in Waiting(view, s) \cap {"request"} : view.waits[c].attempt = 1}
             over == Released(Settled(view, s), Waiting(view, s) \ again)
             waits == [c \in Callers |-> IF c \in pausing THEN Paused ELSE over.waits[c]]
             paused == [over EXCEPT !.waits = waits]
             left == IF "check" \in Waiting(view, s) \ again
                     THEN [paused EXCEPT !.tab = SignedOut(paused.tab)] ELSE paused
  <1>1. Follows(view, {s}, storage, over) /\ s \in Free(over.calls)
    BY OverFollows
  <1>2. Rejected(view, s, storage, jar)
          = IF again = {} THEN left ELSE refreshToken(left, again, 2, storage, jar)
    BY Zenon DEF Rejected
  <1> HIDE DEF over, pausing, again
  <1>3. over \in Views /\ Sharing(over)
    BY <1>1 DEF Follows
  <1>4. waits \in [Callers -> Wait]
    BY <1>3 DEF Views, Wait, Paused
  <1> HIDE DEF waits
  <1>5. paused \in Views /\ paused.tab = over.tab /\ paused.calls = over.calls
    BY <1>3, <1>4 DEF Views
  <1> HIDE DEF paused
  <1>6. Follows(over, {}, storage, paused)
    BY <1>3, <1>5 DEF Follows, Keeps, Sharing
  <1>7. Follows(paused, {}, storage, left) /\ left.calls = paused.calls
    <2>1. /\ SignedOut(paused.tab) \in Tab /\ SignedOut(paused.tab).saved = paused.tab.saved
          /\ SignedOut(paused.tab).current = paused.tab.current
      BY <1>5 DEF SignedOut, Tab, Token, Views
    <2>2. paused \in Views /\ Sharing(paused)
      BY <1>6 DEF Follows
    <2>3. Follows(paused, {}, storage, [paused EXCEPT !.tab = SignedOut(paused.tab)])
      BY <2>1, <2>2, TabFollows
    <2>4. [paused EXCEPT !.tab = SignedOut(paused.tab)].calls = paused.calls
      BY <2>2 DEF Views
    <2> QED
      BY <2>2, <2>3, <2>4, SameFollows
  <1> HIDE DEF left
  <1>8. Follows(view, {s}, storage, left)
    BY <1>1, <1>6, <1>7, FollowsOn
  <1>9. left \in Views /\ Sharing(left) /\ CanRefresh(left)
    BY <1>1, <1>5, <1>7 DEF Follows, CanRefresh
  <1>10. Follows(left, {}, storage, refreshToken(left, again, 2, storage, jar))
    BY <1>9, RefreshTokenFollows
  <1>11. Follows(view, {s}, storage, refreshToken(left, again, 2, storage, jar))
    BY <1>8, <1>10, FollowsOn
  <1> QED
    BY <1>2, <1>8, <1>11

-----------------------------------------------------------------------------
(* The refreshes of all tabs and the lock *)

\* In each tab.
SharedInv == \A b \in Tabs : View(b) \in Views /\ Sharing(View(b))

\* The types the argument needs; the others follow from it.
TabsTyped ==
    /\ tab \in [Tabs -> Tab] /\ call \in [Tabs -> [Slots -> Call]]
    /\ wait \in [Tabs -> [Callers -> Wait]]

\* A refresh that was sent holds the lock, where there is one.
LockInv ==
    /\ lock \in (Tabs \X Slots) \cup {Nobody}
    /\ secure => \A b \in Tabs, s \in Slots : Sent(call[b][s]) => lock = <<b, s>>

\* Refreshes that were cut off are outdated as long as they go on.
CutInv ==
    /\ cut \in SUBSET (Tabs \X Slots)
    /\ \A b \in Tabs, s \in Slots : <<b, s>> \in cut => Open(b, s) /\ call[b][s].outdated

RefreshInv == TabsTyped /\ SharedInv /\ LockInv /\ CutInv

\* One that was cut off brings no token back when it ends.
Sticks ==
    \A b \in Tabs, s \in Slots :
        <<b, s>> \in cut /\ Open(b, s) /\ call'[b][s] = NoCall
          => tab'[b].saved \in {0, tab[b].saved, stored} /\ stored' \in {0, stored}

\* A refresh as a tab sees it.
LEMMA ViewOf ==
  ASSUME TabsTyped, NEW b \in Tabs
  PROVE  /\ View(b) \in Views /\ View(b).calls = call[b] /\ View(b).tab = tab[b]
         /\ View(b).waits = wait[b] /\ call[b] \in [Slots -> Call] /\ tab[b] \in Tab
         /\ \A n \in Nat : /\ [View(b) EXCEPT !.tab.saved = n] \in Views
                           /\ [View(b) EXCEPT !.tab.saved = n].calls = call[b]
                           /\ [View(b) EXCEPT !.tab.saved = n].tab.saved = n
                           /\ [View(b) EXCEPT !.tab.saved = n].tab.current = tab[b].current
  <1>1. /\ View(b) \in Views /\ View(b).calls = call[b] /\ View(b).tab = tab[b]
        /\ View(b).waits = wait[b] /\ call[b] \in [Slots -> Call] /\ tab[b] \in Tab
    BY DEF TabsTyped, View, Views
  <1>2. ASSUME NEW n \in Nat
        PROVE  /\ [View(b) EXCEPT !.tab.saved = n] \in Views
               /\ [View(b) EXCEPT !.tab.saved = n].calls = call[b]
               /\ [View(b) EXCEPT !.tab.saved = n].tab.saved = n
               /\ [View(b) EXCEPT !.tab.saved = n].tab.current = tab[b].current
    BY <1>1 DEF Views, Tab, Token
  <1> QED
    BY <1>1, <1>2

\* Storing another token changes nothing about the refreshes.
LEMMA SavedShares ==
  ASSUME RefreshInv, NEW b \in Tabs, NEW n \in Nat
  PROVE  Sharing([View(b) EXCEPT !.tab.saved = n])
  <1> DEFINE view == [View(b) EXCEPT !.tab.saved = n]
  <1>0. tab[b] \in Tab
    BY DEF RefreshInv, TabsTyped
  <1>1. view.calls = View(b).calls /\ view.tab.current = View(b).tab.current
    BY <1>0 DEF View, Tab
  <1>2. Sharing(View(b))
    BY DEF RefreshInv, SharedInv
  <1> HIDE DEF view
  <1>3. Sharing(view)
    BY <1>1, <1>2 DEF Sharing
  <1> QED
    BY <1>3 DEF view

\* The tabs after a step of one.
LEMMA BecomesTyped ==
  ASSUME TabsTyped, NEW b \in Tabs, NEW next \in Views, Becomes(b, next)
  PROVE  /\ TabsTyped'
         /\ tab'[b] = next.tab /\ call'[b] = next.calls /\ wait'[b] = next.waits
         /\ \A c \in Tabs \ {b} : tab'[c] = tab[c] /\ call'[c] = call[c] /\ wait'[c] = wait[c]
  BY DEF TabsTyped, Becomes, Views

\* Sharing is a matter of a tab and its refreshes.
LEMMA SharedAfter ==
  ASSUME RefreshInv, TabsTyped', NEW b \in Tabs,
         \A s \in Slots : call'[b][s].phase # "none" /\ ~call'[b][s].outdated
                              => tab'[b].current = s,
         \A c \in Tabs \ {b} : tab'[c] = tab[c] /\ call'[c] = call[c]
  PROVE  SharedInv'
  <1> SUFFICES ASSUME NEW c \in Tabs
               PROVE  View(c)' \in Views /\ Sharing(View(c)')
    BY DEF SharedInv
  <1>1. View(c)' \in Views /\ View(c)'.calls = call'[c] /\ View(c)'.tab = tab'[c]
    BY DEF TabsTyped, View, Views
  <1>2. CASE c = b
    BY <1>1, <1>2 DEF Sharing
  <1>3. CASE c # b
    <2>1. Sharing(View(c)) /\ View(c).calls = call[c] /\ View(c).tab = tab[c]
      BY ViewOf DEF RefreshInv, SharedInv
    <2> QED
      BY <1>1, <1>3, <2>1 DEF Sharing
  <1> QED
    BY <1>2, <1>3

\* A tab that follows itself, ending some refreshes, releases their lock.
LEMMA EndsSound ==
  ASSUME RefreshInv, NEW b \in Tabs, NEW view, view.calls = call[b],
         NEW ended \in SUBSET Slots, NEW storage, NEW next,
         Follows(view, ended, storage, next), Becomes(b, next), secure' = secure,
         lock' = IF \E s \in ended : lock = <<b, s>> THEN Nobody ELSE lock,
         cut' = cut \ {<<b, s>> : s \in ended},
         \A s \in ended : <<b, s>> \in cut =>
            next.tab.saved \in {0, tab[b].saved, stored} /\ stored' \in {0, stored}
  PROVE  RefreshInv' /\ Sticks
  <1>1. /\ TabsTyped' /\ tab'[b] = next.tab /\ call'[b] = next.calls
        /\ \A c \in Tabs \ {b} : tab'[c] = tab[c] /\ call'[c] = call[c]
    BY BecomesTyped DEF RefreshInv, Follows
  <1>2. SharedInv'
    <2>1. \A s \in Slots : call'[b][s].phase # "none" /\ ~call'[b][s].outdated
                               => tab'[b].current = s
      BY <1>1 DEF Follows, Sharing
    <2> QED
      BY <1>1, <2>1, SharedAfter
  <1>3. LockInv'
    <2>1. lock' \in (Tabs \X Slots) \cup {Nobody}
      BY DEF RefreshInv, LockInv
    <2>2. ASSUME secure, NEW c \in Tabs, NEW s \in Slots, Sent(call'[c][s])
          PROVE  lock' = <<c, s>>
      <3>1. Sent(call[c][s]) /\ (c = b => s \notin ended)
        BY <1>1, <2>2 DEF Follows, Keeps
      <3>2. lock = <<c, s>>
        BY <2>2, <3>1 DEF RefreshInv, LockInv
      <3>3. ~ \E r \in ended : lock = <<b, r>>
        BY <3>1, <3>2
      <3> QED
        BY <3>2, <3>3
    <2> QED
      BY <2>1, <2>2 DEF LockInv
  <1>4. CutInv'
    <2> SUFFICES ASSUME NEW c \in Tabs, NEW s \in Slots, <<c, s>> \in cut'
                 PROVE  call'[c][s].phase # "none" /\ call'[c][s].outdated
      BY DEF CutInv, RefreshInv, Open
    <2>1. call[c][s].phase # "none" /\ call[c][s].outdated /\ (c = b => s \notin ended)
      BY DEF RefreshInv, CutInv, Open
    <2>2. call'[c][s] = call[c][s]
      BY <1>1, <2>1 DEF Follows, Keeps
    <2> QED
      BY <2>1, <2>2
  <1>5. Sticks
    <2> SUFFICES ASSUME NEW c \in Tabs, NEW s \in Slots, <<c, s>> \in cut,
                        call[c][s].phase # "none", call'[c][s] = NoCall
                 PROVE  /\ tab'[c].saved \in {0, tab[c].saved, stored}
                        /\ stored' \in {0, stored}
      BY DEF Sticks, Open
    <2>1. call'[c][s] # call[c][s]
      BY DEF NoCall
    <2>2. c = b /\ s \in ended
      BY <1>1, <2>1 DEF Follows, Keeps
    <2> QED
      BY <1>1, <2>2
  <1> QED
    BY <1>1, <1>2, <1>3, <1>4, <1>5 DEF RefreshInv

\* A tab that ends none of its refreshes.
LEMMA StartsSound ==
  ASSUME RefreshInv, NEW b \in Tabs, NEW view, view.calls = call[b], NEW storage, NEW next,
         Follows(view, {}, storage, next), Becomes(b, next), UNCHANGED <<secure, lock, cut>>
  PROVE  RefreshInv' /\ Sticks
  <1>1. /\ lock' = IF \E s \in {} : lock = <<b, s>> THEN Nobody ELSE lock
        /\ cut' = cut \ {<<b, s>> : s \in {}}
    OBVIOUS
  <1> QED
    BY <1>1, EndsSound

\* A tab whose refresh goes a step further, before or after it is sent.
LEMMA GoesOnSound ==
  ASSUME RefreshInv, NEW b \in Tabs, NEW s \in Slots, NEW c \in Call,
         call' = [call EXCEPT ![b] = [call[b] EXCEPT ![s] = c]],
         call[b][s].phase # "none", c.phase # "none", c.outdated = call[b][s].outdated,
         UNCHANGED <<secure, tab, wait, cut>>,
         \/ Sent(call[b][s]) /\ UNCHANGED lock
         \/ lock = Nobody /\ lock' = <<b, s>>
  PROVE  RefreshInv' /\ Sticks
  <1>1. /\ TabsTyped' /\ call'[b][s] = c
        /\ \A r \in Slots \ {s} : call'[b][r] = call[b][r]
        /\ \A d \in Tabs \ {b} : call'[d] = call[d] /\ tab'[d] = tab[d]
    BY DEF RefreshInv, TabsTyped
  <1>2. SharedInv'
    <2> SUFFICES ASSUME NEW r \in Slots, call'[b][r].phase # "none", ~call'[b][r].outdated
                 PROVE  tab'[b].current = r
      BY <1>1, SharedAfter
    <2>1. call[b][r].phase # "none" /\ ~call[b][r].outdated
      BY <1>1
    <2>2. Sharing(View(b)) /\ View(b).calls = call[b] /\ View(b).tab = tab[b]
      BY ViewOf DEF RefreshInv, SharedInv
    <2> QED
      BY <2>1, <2>2 DEF Sharing
  <1>3. LockInv'
    <2>1. lock' \in (Tabs \X Slots) \cup {Nobody}
      BY DEF RefreshInv, LockInv
    <2>2. ASSUME secure, NEW d \in Tabs, NEW r \in Slots, Sent(call'[d][r])
          PROVE  lock' = <<d, r>>
      <3>1. CASE d = b /\ r = s
        BY <2>2, <3>1 DEF RefreshInv, LockInv
      <3>2. CASE ~ (d = b /\ r = s)
        <4>1. Sent(call[d][r])
          BY <1>1, <2>2, <3>2
        <4>2. lock = <<d, r>>
          BY <2>2, <4>1 DEF RefreshInv, LockInv
        <4>3. lock # Nobody
          BY <4>2, SlotsAssumption
        <4> QED
          BY <4>2, <4>3
      <3> QED
        BY <3>1, <3>2
    <2> QED
      BY <2>1, <2>2 DEF LockInv
  <1>4. CutInv'
    <2> SUFFICES ASSUME NEW d \in Tabs, NEW r \in Slots, <<d, r>> \in cut
                 PROVE  call'[d][r].phase # "none" /\ call'[d][r].outdated
      BY DEF CutInv, RefreshInv, Open
    <2>1. call[d][r].phase # "none" /\ call[d][r].outdated
      BY DEF RefreshInv, CutInv, Open
    <2> QED
      BY <1>1, <2>1
  <1>5. Sticks
    BY <1>1 DEF Sticks, Open, NoCall
  <1> QED
    BY <1>1, <1>2, <1>3, <1>4, <1>5 DEF RefreshInv

\* What a tab starts with.
LEMMA TabSound ==
  ASSUME IInv, expired \in Nat, RefreshInv, NEW b \in Tabs
  PROVE  /\ stored \in Nat /\ cookie \in Nat /\ TabsTyped
         /\ View(b) \in Views /\ Sharing(View(b)) /\ View(b).calls = call[b]
         /\ View(b).tab = tab[b] /\ tab[b] \in Tab /\ call[b] \in [Slots -> Call]
  BY AtHand, ViewOf DEF RefreshInv, SharedInv

\* A token of a tab, or of storage.
LEMMA TokenTyped ==
  ASSUME IInv, expired \in Nat, RefreshInv, NEW b \in Tabs
  PROVE  /\ getToken(tab[b], stored) \in Nat
         /\ getToken(tab[b], stored) \in {tab[b].saved, stored}
  BY TabSound DEF getToken, Tab, Token

\* A request that was refused reads the tab's token and joins or starts a refresh.
LEMMA RequestSound ==
  ASSUME IInv, expired \in Nat, RefreshInv, NEW b \in Tabs, UNCHANGED <<secure, lock, cut>>,
         CanRefresh(View(b)),
         Becomes(b, refreshToken([View(b) EXCEPT !.tab.saved = getToken(tab[b], stored)],
                                 {"request"}, 1, stored, cookie))
  PROVE  RefreshInv' /\ Sticks
  <1> DEFINE view == [View(b) EXCEPT !.tab.saved = getToken(tab[b], stored)]
             next == refreshToken(view, {"request"}, 1, stored, cookie)
  <1>1. view \in Views /\ view.calls = call[b] /\ view.tab.current = tab[b].current
    BY TokenTyped, TabSound, ViewOf
  <1>2. Sharing(view)
    BY TokenTyped, SavedShares
  <1> HIDE DEF view
  <1>3. CanRefresh(view)
    BY <1>1, TabSound DEF CanRefresh
  <1>4. Follows(view, {}, stored, next)
    BY <1>1, <1>2, <1>3, TabSound, RefreshTokenFollows
  <1> HIDE DEF next
  <1> QED
    BY <1>1, <1>4, StartsSound DEF view, next

\* A tab starts or joins a refresh.
LEMMA StartSound ==
  ASSUME IInv, expired \in Nat, RefreshInv, NEW b \in Tabs, UNCHANGED <<secure, browser, ghosts>>,
         renewToken(b) \/ Navigate(b) \/ RequestRefused(b) \/ RequestAgain(b)
  PROVE  RefreshInv' /\ Sticks
  <1>1. UNCHANGED <<secure, lock, cut>>
    BY DEF browser, ghosts
  <1>2. ASSUME NEW callers, NEW attempt \in {1, 2}, CanRefresh(View(b)),
               Becomes(b, refreshToken(View(b), callers, attempt, stored, cookie))
        PROVE  RefreshInv' /\ Sticks
    <2> DEFINE next == refreshToken(View(b), callers, attempt, stored, cookie)
    <2>1. Follows(View(b), {}, stored, next)
      BY <1>2, TabSound, RefreshTokenFollows
    <2> HIDE DEF next
    <2>2. Becomes(b, next)
      BY <1>2 DEF next
    <2> QED
      BY <1>1, <2>1, <2>2, TabSound, StartsSound
  <1>3. CASE renewToken(b)
    BY <1>2, <1>3 DEF renewToken
  <1>4. CASE RequestAgain(b)
    BY <1>2, <1>4 DEF RequestAgain
  <1>5. CASE Navigate(b)
    <2>1. Becomes(b, checkAuth(View(b), stored, cookie))
      BY <1>5 DEF Navigate
    <2>2. Follows(View(b), {}, stored, checkAuth(View(b), stored, cookie))
      BY TabSound, CheckAuthFollows
    <2> QED
      BY <1>1, <2>1, <2>2, TabSound, StartsSound
  <1>6. CASE RequestRefused(b)
    BY <1>1, <1>6, RequestSound DEF RequestRefused
  <1> QED
    BY <1>3, <1>4, <1>5, <1>6

\* A refresh that is done ends under its lock.
LEMMA DoneSound ==
  ASSUME RefreshInv, NEW b \in Tabs, NEW s \in Slots, NEW view, view.calls = call[b],
         NEW storage, NEW next, Follows(view, {s}, storage, next), Becomes(b, next),
         secure' = secure, cut' = cut \ {<<b, s>>}, Unlock(b, s),
         call[b][s].outdated =>
            next.tab.saved \in {tab[b].saved, stored} /\ stored' = stored
  PROVE  RefreshInv' /\ Sticks
  <1>1. lock' = IF \E r \in {s} : lock = <<b, r>> THEN Nobody ELSE lock
    BY DEF Unlock
  <1>2. cut' = cut \ {<<b, r>> : r \in {s}}
    OBVIOUS
  <1>3. \A r \in {s} : <<b, r>> \in cut =>
           next.tab.saved \in {0, tab[b].saved, stored} /\ stored' \in {0, stored}
    BY DEF RefreshInv, CutInv
  <1> QED
    BY <1>1, <1>2, <1>3, EndsSound

\* The lock is granted.
LEMMA RunUnderLockSound ==
  ASSUME IInv, expired \in Nat, RefreshInv, NEW b \in Tabs, NEW s \in Slots, RunUnderLock(b, s)
  PROVE  RefreshInv' /\ Sticks
  <1>1. secure' = secure /\ lock = Nobody /\ call[b][s].phase = "queued"
    BY DEF RunUnderLock
  <1>2. CASE call[b][s].outdated
    <2>1. PICK throttled \in BOOLEAN :
            Becomes(b, Resolved(View(b), s, stored, cookie, throttled))
      BY <1>2 DEF RunUnderLock
    <2>2. cut' = cut \ {<<b, s>>} /\ Unlock(b, s)
      BY <1>1, <1>2 DEF RunUnderLock, browser, Unlock
    <2>3. Follows(View(b), {s}, stored, Resolved(View(b), s, stored, cookie, throttled))
      BY TabSound, ResolvedFollows
    <2>4. Resolved(View(b), s, stored, cookie, throttled).tab.saved \in {tab[b].saved, stored}
      BY <2>3, TabSound DEF Follows
    <2>5. stored' = stored
      BY <1>2 DEF RunUnderLock, browser
    <2> QED
      BY <1>1, <2>1, <2>2, <2>3, <2>4, <2>5, TabSound, DoneSound
  <1>3. CASE ~call[b][s].outdated /\ stored \notin {0, call[b][s].before}
    <2> DEFINE view == [View(b) EXCEPT !.tab.saved = stored]
    <2>1. PICK throttled \in BOOLEAN :
            Becomes(b, Resolved(view, s, stored, cookie, throttled))
      BY <1>3 DEF RunUnderLock
    <2>2. cut' = cut \ {<<b, s>>} /\ Unlock(b, s)
      BY <1>1, <1>3 DEF RunUnderLock, browser, Unlock
    <2>3. view \in Views /\ Sharing(view) /\ view.calls = call[b]
      BY TabSound, ViewOf, SavedShares
    <2> HIDE DEF view
    <2>4. Follows(view, {s}, stored, Resolved(view, s, stored, cookie, throttled))
      BY <2>3, TabSound, ResolvedFollows
    <2> QED
      BY <1>1, <1>3, <2>1, <2>2, <2>3, <2>4, DoneSound
  <1>4. CASE ~call[b][s].outdated /\ stored \in {0, call[b][s].before}
    <2> DEFINE c == [NoCall EXCEPT !.phase = "posted", !.cookie = cookie]
    <2>1. c \in Call /\ c.phase = "posted" /\ c.outdated = FALSE
      BY TabSound DEF NoCall, Call, Phases, Token
    <2>2. call[b][s].outdated = FALSE
      BY <1>4, TabSound DEF Call
    <2>3. /\ call' = [call EXCEPT ![b] = [call[b] EXCEPT ![s] = c]]
          /\ lock' = <<b, s>> /\ UNCHANGED <<secure, tab, wait, cut>>
      BY <1>4 DEF RunUnderLock, Posts
    <2> HIDE DEF c
    <2> QED
      BY <1>1, <2>1, <2>2, <2>3, GoesOnSound
  <1> QED
    BY <1>2, <1>3, <1>4

\* The server answers a refresh.
LEMMA AnsweredSound ==
  ASSUME RefreshInv, NEW b \in Tabs, NEW s \in Slots,
         UNCHANGED <<secure, tab, wait, cut, lock>>,
         Sent(call[b][s]), NEW n \in Nat, Answered(b, s, n)
  PROVE  RefreshInv' /\ Sticks
  <1> DEFINE c == [call[b][s] EXCEPT !.phase = IF n = 0 THEN "refused" ELSE "granted",
                                     !.cookie = 0, !.token = n]
  <1>1. call' = [call EXCEPT ![b] = [call[b] EXCEPT ![s] = c]]
    BY DEF Answered, RefreshInv, TabsTyped
  <1>2. c \in Call /\ c.phase # "none" /\ c.outdated = call[b][s].outdated
    <2> DEFINE p == IF n = 0 THEN "refused" ELSE "granted"
               d == [call[b][s] EXCEPT !.phase = p, !.cookie = 0, !.token = n]
    <2>1. call[b][s] \in Call
      BY DEF RefreshInv, TabsTyped
    <2>2. p \in Phases /\ p # "none"
      BY DEF Phases
    <2> HIDE DEF p
    <2>3. d \in Call /\ d.phase # "none" /\ d.outdated = call[b][s].outdated
      BY <2>1, <2>2 DEF Call, Token
    <2>4. d = c
      BY DEF p
    <2> QED
      BY <2>3, <2>4
  <1>3. call[b][s].phase # "none"
    BY DEF Sent
  <1> HIDE DEF c
  <1> QED
    BY <1>1, <1>2, <1>3, GoesOnSound

\* The server works on a refresh.
LEMMA ServedSound ==
  ASSUME RefreshInv, NEW b \in Tabs, NEW s \in Slots,
         UNCHANGED <<secure, browser, tab, wait, ghosts>>,
         call[b][s].phase \in {"posted", "found"}, NEW n \in Nat,
         Answered(b, s, n) \/ call' = [call EXCEPT ![b][s].phase = "found"]
  PROVE  RefreshInv' /\ Sticks
  <1>1. call[b][s] \in Call /\ Sent(call[b][s])
    BY DEF RefreshInv, TabsTyped, Sent
  <1>2. UNCHANGED <<secure, tab, wait, cut, lock>>
    BY DEF browser, ghosts
  <1>3. CASE Answered(b, s, n)
    BY <1>1, <1>2, <1>3, AnsweredSound
  <1>4. CASE call' = [call EXCEPT ![b][s].phase = "found"]
    <2> DEFINE c == [call[b][s] EXCEPT !.phase = "found"]
    <2>1. call' = [call EXCEPT ![b] = [call[b] EXCEPT ![s] = c]]
      BY <1>4
    <2>2. c \in Call /\ c.phase # "none" /\ c.outdated = call[b][s].outdated
      BY <1>1 DEF Call, Phases
    <2> HIDE DEF c
    <2> QED
      BY <1>1, <1>2, <2>1, <2>2, GoesOnSound DEF Sent
  <1> QED
    BY <1>3, <1>4

\* The answer arrives.
LEMMA GrantedSound ==
  ASSUME IInv, expired \in Nat, RefreshInv, NEW b \in Tabs, NEW s \in Slots, RefreshGranted(b, s)
  PROVE  RefreshInv' /\ Sticks
  <1> DEFINE n == call[b][s].token
             view == IF ~call[b][s].outdated THEN [View(b) EXCEPT !.tab.saved = n] ELSE View(b)
  <1>1. n \in Nat
    BY DEF RefreshInv, TabsTyped, Call, Token
  <1>2. /\ cookie' = n /\ stored' \in {n, stored} /\ secure' = secure
        /\ Unlock(b, s) /\ cut' = cut \ {<<b, s>>}
        /\ \E throttled \in BOOLEAN :
             Becomes(b, Resolved(view, s, stored', cookie', throttled))
    BY DEF RefreshGranted
  <1>3. view \in Views /\ Sharing(view) /\ view.calls = call[b]
    BY <1>1, TabSound, ViewOf, SavedShares
  <1>o. call[b][s].outdated => view.tab.saved = tab[b].saved /\ stored' = stored
    BY TabSound DEF RefreshGranted
  <1> HIDE DEF view, n
  <1>4. stored' \in Nat /\ cookie' \in Nat
    BY <1>1, <1>2, TabSound
  <1>5. PICK throttled \in BOOLEAN :
          Becomes(b, Resolved(view, s, stored', cookie', throttled))
    BY <1>2
  <1> DEFINE next == Resolved(view, s, stored', cookie', throttled)
  <1>6. Follows(view, {s}, stored', next)
    BY <1>3, <1>4, ResolvedFollows
  <1>7. Becomes(b, next)
    BY <1>5
  <1>8. call[b][s].outdated =>
           next.tab.saved \in {tab[b].saved, stored} /\ stored' = stored
    BY <1>o, <1>6 DEF Follows
  <1> HIDE DEF next
  <1> QED
    BY <1>2, <1>3, <1>6, <1>7, <1>8, DoneSound

\* No token arrives.
LEMMA FailedSound ==
  ASSUME IInv, expired \in Nat, RefreshInv, NEW b \in Tabs, NEW s \in Slots, NEW answered,
         RefreshFailed(b, s, answered)
  PROVE  RefreshInv' /\ Sticks
  <1> DEFINE next == Rejected(View(b), s, stored, cookie)
             left == [next EXCEPT !.tab.user = FALSE]
  <1>1. Follows(View(b), {s}, stored, next)
    BY TabSound, RejectedFollows
  <1>2. /\ Becomes(b, next) \/ Becomes(b, left)
        /\ Unlock(b, s) /\ cut' = cut \ {<<b, s>>} /\ secure' = secure /\ stored' = stored
    BY DEF RefreshFailed
  <1> HIDE DEF next
  <1>3. Follows(next, {}, stored, left)
    BY <1>1, UserFollows DEF Follows
  <1> HIDE DEF left
  <1>4. Follows(View(b), {s}, stored, left)
    BY <1>1, <1>3, FollowsOn
  <1>5. next.tab.saved \in {tab[b].saved, stored} /\ left.tab.saved \in {tab[b].saved, stored}
    BY <1>1, <1>4, TabSound DEF Follows
  <1> QED
    BY <1>1, <1>2, <1>4, <1>5, TabSound, DoneSound

\* What leaves the refreshes and what is shared alone.
LEMMA IdleSound ==
  ASSUME RefreshInv, UNCHANGED <<secure, lock, call, wait, cut>>, tab' \in [Tabs -> Tab],
         \A b \in Tabs : tab'[b].current = tab[b].current
  PROVE  RefreshInv' /\ Sticks
  <1>1. TabsTyped' /\ LockInv' /\ CutInv'
    BY DEF RefreshInv, TabsTyped, LockInv, CutInv, Open
  <1>2. SharedInv'
    <2> SUFFICES ASSUME NEW b \in Tabs
                 PROVE  View(b)' \in Views /\ Sharing(View(b)')
      BY DEF SharedInv
    <2>1. View(b)' \in Views /\ View(b)'.calls = call[b] /\ View(b)'.tab = tab'[b]
      BY <1>1 DEF TabsTyped, View, Views
    <2>2. Sharing(View(b)) /\ View(b).calls = call[b] /\ View(b).tab = tab[b]
      BY ViewOf DEF RefreshInv, SharedInv
    <2> QED
      BY <2>1, <2>2 DEF Sharing
  <1>3. Sticks
    BY DEF Sticks, Open, NoCall
  <1> QED
    BY <1>1, <1>2, <1>3 DEF RefreshInv

\* A logout that is served may start a refresh.
LEMMA LogoutServedSound ==
  ASSUME IInv, expired \in Nat, RefreshInv, NEW b \in Tabs, NEW d \in Doors, LogoutServed(b, d)
  PROVE  RefreshInv' /\ Sticks
  <1>1. UNCHANGED <<secure, lock, cut>>
    BY DEF LogoutServed, browser, ghosts
  <1>2. CASE UNCHANGED <<tab, call, wait>>
    BY <1>1, <1>2, IdleSound DEF RefreshInv, TabsTyped
  <1> QED
    BY <1>1, <1>2, RequestSound DEF LogoutServed

\* A logout begins with the token that the tab has; its user info may have been refused.
LEMMA OutSound ==
  ASSUME IInv, expired \in Nat, RefreshInv, NEW b \in Tabs,
         LogoutStart(b) \/ UserInfoRefused(b)
  PROVE  RefreshInv' /\ Sticks
  <1> DEFINE n == getToken(tab[b], stored)
             t == [tab[b] EXCEPT !.saved = n]
             u == [tab[b] EXCEPT !.user = FALSE, !.saved = n]
  <1>1. n \in Nat /\ tab[b] \in Tab /\ tab \in [Tabs -> Tab]
    BY TokenTyped, TabSound DEF RefreshInv, TabsTyped
  <1>2. /\ UNCHANGED <<secure, lock, call, wait, cut>>
        /\ tab' = [tab EXCEPT ![b] = t] \/ tab' = [tab EXCEPT ![b] = u]
    BY <1>1 DEF LogoutStart, UserInfoRefused, browser, ghosts
  <1> HIDE DEF n
  <1>3. t \in Tab /\ t.current = tab[b].current /\ u \in Tab /\ u.current = tab[b].current
    BY <1>1 DEF Tab, Token
  <1> HIDE DEF t, u
  <1>4. tab' \in [Tabs -> Tab] /\ \A c \in Tabs : tab'[c].current = tab[c].current
    BY <1>1, <1>2, <1>3
  <1> QED
    BY <1>2, <1>4, IdleSound

\* A tab that opens, or has its user info or not, goes on as before.
LEMMA TabStepSound ==
  ASSUME IInv, expired \in Nat, RefreshInv, NEW b \in Tabs, OpenTab(b) \/ UserInfo(b)
  PROVE  RefreshInv' /\ Sticks
  <1> DEFINE t == [tab[b] EXCEPT !.open = TRUE]
             u == [tab[b] EXCEPT !.user = FALSE]
             v == [tab[b] EXCEPT !.user = FALSE, !.auth = TRUE]
  <1>1. tab[b] \in Tab /\ tab \in [Tabs -> Tab]
    BY DEF RefreshInv, TabsTyped
  <1>2. /\ UNCHANGED <<secure, lock, call, wait, cut>>
        /\ \/ tab' = [tab EXCEPT ![b] = t] \/ tab' = [tab EXCEPT ![b] = u]
           \/ tab' = [tab EXCEPT ![b] = v]
    BY <1>1 DEF OpenTab, UserInfo, UserInfoArrives, UserInfoFails, browser, ghosts
  <1>3. /\ t \in Tab /\ t.current = tab[b].current /\ u \in Tab /\ u.current = tab[b].current
        /\ v \in Tab /\ v.current = tab[b].current
    BY <1>1 DEF Tab
  <1> HIDE DEF t, u, v
  <1>4. tab' \in [Tabs -> Tab] /\ \A c \in Tabs : tab'[c].current = tab[c].current
    BY <1>1, <1>2, <1>3
  <1> QED
    BY <1>2, <1>4, IdleSound

\* The refreshes of a tab that removes its tokens are cut off, all of them.
LEMMA RemovesSound ==
  ASSUME IInv, expired \in Nat, RefreshInv, NEW b \in Tabs,
         \/ Becomes(b, removeToken(View(b)))
         \/ Becomes(b, [removeToken(View(b)) EXCEPT !.tab = SignedOut(@)]),
         CutOff(b), UNCHANGED <<secure, lock>>
  PROVE  RefreshInv' /\ Sticks
  <1> DEFINE removed == removeToken(View(b))
             out == [removed EXCEPT !.tab = SignedOut(@)]
  <1>r. /\ removed \in Views /\ Sharing(removed)
        /\ \A s \in Slots : /\ removed.calls[s].phase = call[b][s].phase
                            /\ call[b][s].phase # "none" => removed.calls[s].outdated
    BY TabSound, RemoveTokenFollows
  <1>o. Becomes(b, removed) \/ Becomes(b, out)
    OBVIOUS
  <1> HIDE DEF removed
  <1>u. out \in Views /\ Sharing(out) /\ out.calls = removed.calls
    BY <1>r, OutFollows
  <1> HIDE DEF out
  <1>1. PICK next \in Views :
          /\ Becomes(b, next) /\ Sharing(next)
          /\ \A s \in Slots : /\ next.calls[s].phase = call[b][s].phase
                              /\ call[b][s].phase # "none" => next.calls[s].outdated
    BY <1>r, <1>o, <1>u
  <1>2. /\ TabsTyped' /\ tab'[b] = next.tab /\ call'[b] = next.calls
        /\ \A c \in Tabs \ {b} : tab'[c] = tab[c] /\ call'[c] = call[c]
    BY <1>1, BecomesTyped DEF RefreshInv
  <1>3. SharedInv'
    BY <1>1, <1>2, SharedAfter DEF Sharing
  <1>4. LockInv'
    BY <1>1, <1>2 DEF RefreshInv, LockInv, Sent
  <1>5. CutInv'
    <2>1. cut' \in SUBSET (Tabs \X Slots)
      BY DEF CutOff, RefreshInv, CutInv
    <2>2. ASSUME NEW c \in Tabs, NEW s \in Slots, <<c, s>> \in cut'
          PROVE  call'[c][s].phase # "none" /\ call'[c][s].outdated
      <3>1. call[c][s].phase # "none" /\ (c # b => call[c][s].outdated)
        BY <2>2 DEF CutOff, RefreshInv, CutInv, Open
      <3> QED
        BY <1>1, <1>2, <3>1
    <2> QED
      BY <2>1, <2>2 DEF CutInv, Open
  <1>6. Sticks
    BY <1>1, <1>2 DEF Sticks, Open, NoCall
  <1> QED
    BY <1>2, <1>3, <1>4, <1>5, <1>6 DEF RefreshInv

\* A login changes no refresh.
LEMMA LoginDoneSound ==
  ASSUME IInv, expired \in Nat, RefreshInv, NEW b \in Tabs, NEW d \in Doors, LoginDone(b, d)
  PROVE  RefreshInv' /\ Sticks
  <1> DEFINE n == Len(issued) + 1
             t == AsksUser(tab[b], n)
  <1>1. UNCHANGED <<secure, lock, call, wait, cut>> /\ tab' = [tab EXCEPT ![b] = t]
    BY DEF LoginDone
  <1>2. n \in Nat /\ tab[b] \in Tab
    BY AtHand, TabSound
  <1> HIDE DEF n
  <1>3. t \in Tab /\ t.current = tab[b].current
    BY <1>2 DEF AsksUser, Tab, Token
  <1> HIDE DEF t
  <1>4. tab' \in [Tabs -> Tab] /\ \A c \in Tabs : tab'[c].current = tab[c].current
    BY <1>1, <1>3 DEF RefreshInv, TabsTyped
  <1> QED
    BY <1>1, <1>4, IdleSound

\* A closed tab has no refreshes and no lock.
LEMMA CloseTabSound ==
  ASSUME IInv, expired \in Nat, RefreshInv, NEW b \in Tabs, CloseTab(b)
  PROVE  RefreshInv' /\ Sticks
  <1> DEFINE t == [open |-> FALSE, saved |-> 0, auth |-> FALSE, exp |-> 0, asked |-> 0,
                   user |-> FALSE, current |-> NoSlot]
             next == [tab |-> t, calls |-> [s \in Slots |-> NoCall],
                      waits |-> [c \in Callers |-> NoWait]]
  <1>1. next \in Views /\ Follows(View(b), Slots, 0, next)
    <2>1. next \in Views
      BY DEF Views, Tab, Token, NoCall, Call, Phases, NoWait, Wait
    <2>2. /\ next.tab.saved = 0 /\ \A s \in Slots : next.calls[s].phase = "none"
      BY DEF NoCall
    <2> HIDE DEF next
    <2> QED
      BY <2>1, <2>2 DEF Follows, Sharing, Keeps, Sent
  <1>2. Becomes(b, next) /\ secure' = secure
    BY DEF CloseTab, Becomes
  <1>3. lock' = IF \E s \in Slots : lock = <<b, s>> THEN Nobody ELSE lock
    BY DEF CloseTab
  <1>4. cut' = cut \ {<<b, s>> : s \in Slots}
    <2>1. cut' = {p \in cut : p[1] # b} /\ cut \in SUBSET (Tabs \X Slots)
      BY DEF CloseTab, RefreshInv, CutInv
    <2> QED
      BY <2>1
  <1>5. next.tab.saved = 0 /\ stored' = stored
    BY DEF CloseTab
  <1> HIDE DEF next
  <1> QED
    BY <1>1, <1>2, <1>3, <1>4, <1>5, TabSound, EndsSound

\* At first nothing is under way.
LEMMA InitSound == Init => RefreshInv
  <1> SUFFICES ASSUME Init PROVE RefreshInv
    OBVIOUS
  <1> DEFINE t == [open |-> TRUE, saved |-> 1, auth |-> TRUE, exp |-> 1, asked |-> 0,
                   user |-> FALSE, current |-> NoSlot]
  <1>1. /\ t \in Tab /\ NoCall \in Call /\ NoCall.phase = "none" /\ NoWait \in Wait
    BY DEF Tab, Token, NoCall, Call, Phases, NoWait, Wait
  <1>2. /\ tab = [b \in Tabs |-> t]
        /\ call = [b \in Tabs |-> [s \in Slots |-> NoCall]]
        /\ wait = [b \in Tabs |-> [c \in Callers |-> NoWait]]
        /\ lock = Nobody /\ cut = {}
    BY DEF Init
  <1> HIDE DEF t
  <1>3. TabsTyped
    BY <1>1, <1>2 DEF TabsTyped
  <1>4. SharedInv
    <2> SUFFICES ASSUME NEW b \in Tabs PROVE View(b) \in Views /\ Sharing(View(b))
      BY DEF SharedInv
    <2>1. View(b) \in Views /\ View(b).calls = call[b]
      BY <1>3, ViewOf
    <2> QED
      BY <1>1, <1>2, <2>1 DEF Sharing
  <1>5. LockInv /\ CutInv
    BY <1>1, <1>2 DEF LockInv, CutInv, Sent
  <1> QED
    BY <1>3, <1>4, <1>5 DEF RefreshInv

\* Every step keeps what is true of the refreshes.
LEMMA NextSound == IInv /\ RestTyped /\ RefreshInv /\ [Next]_vars => RefreshInv' /\ Sticks
  <1> SUFFICES ASSUME IInv, RestTyped, RefreshInv, [Next]_vars PROVE RefreshInv' /\ Sticks
    OBVIOUS
  <1>0. expired \in Nat
    BY DEF RestTyped
  <1>1. ASSUME NEW b \in Tabs, renewToken(b) \/ Navigate(b) \/ RequestRefused(b) \/ RequestAgain(b)
        PROVE  RefreshInv' /\ Sticks
    BY <1>0, <1>1, StartSound DEF renewToken, Navigate, RequestRefused, RequestAgain, Unmoved
  <1>2. ASSUME NEW b \in Tabs,
               LogoutStart(b) \/ OpenTab(b) \/ UserInfo(b) \/ UserInfoRefused(b)
        PROVE  RefreshInv' /\ Sticks
    BY <1>0, <1>2, OutSound, TabStepSound
  <1>3. ASSUME NEW b \in Tabs, LoginStart(b) \/ \E d \in Doors : LogoutDone(b, d)
        PROVE  RefreshInv' /\ Sticks
    BY <1>0, <1>3, RemovesSound DEF LoginStart, LogoutDone
  <1>4. ASSUME NEW b \in Tabs, CloseTab(b) PROVE RefreshInv' /\ Sticks
    BY <1>0, <1>4, CloseTabSound
  <1>5. ASSUME NEW b \in Tabs, Refresh(b) PROVE RefreshInv' /\ Sticks
    <2>1. ASSUME NEW s \in Slots, RefreshRefused(b, s) PROVE RefreshInv' /\ Sticks
      BY <1>0, <1>5, <2>1, FailedSound DEF RefreshRefused
    <2>2. ASSUME NEW s \in Slots, GetSessionByRefreshToken(b, s) PROVE RefreshInv' /\ Sticks
      <3>1. /\ Answered(b, s, 0) \/ call' = [call EXCEPT ![b][s].phase = "found"]
            /\ call[b][s].phase = "posted" /\ UNCHANGED <<secure, browser, tab, wait, ghosts>>
        BY <2>2 DEF GetSessionByRefreshToken, ServerStep
      <3> QED
        BY <1>0, <3>1, ServedSound
    <2>3. ASSUME NEW s \in Slots, RotateRefreshToken(b, s) PROVE RefreshInv' /\ Sticks
      <3>1. \E n \in Nat : Answered(b, s, n)
        BY <2>3, AtHand DEF RotateRefreshToken
      <3>2. call[b][s].phase = "found" /\ UNCHANGED <<secure, browser, tab, wait, ghosts>>
        BY <2>3 DEF RotateRefreshToken, ServerStep
      <3> QED
        BY <1>0, <3>1, <3>2, ServedSound
    <2> QED
      BY <1>0, <1>5, <2>1, <2>2, <2>3, RunUnderLockSound, GrantedSound DEF Refresh
  <1>6. ASSUME NEW b \in Tabs, NEW s \in Slots, AnswerLost(b, s) PROVE RefreshInv' /\ Sticks
    BY <1>0, <1>6, FailedSound DEF AnswerLost
  <1>7. ASSUME NEW b \in Tabs, NEW s \in Slots, SessionExpires(b, s) PROVE RefreshInv' /\ Sticks
    <2>1. /\ Answered(b, s, 0) /\ call[b][s].phase = "found"
          /\ UNCHANGED <<secure, browser, tab, wait, ghosts>>
      BY <1>7 DEF SessionExpires
    <2> QED
      BY <1>0, <2>1, ServedSound
  <1>10. ASSUME NEW b \in Tabs, Exit(b) PROVE RefreshInv' /\ Sticks
    <2>1. ASSUME NEW d \in Doors, LogoutServedAgain(b, d) PROVE RefreshInv' /\ Sticks
      BY <2>1, IdleSound DEF LogoutServedAgain, browser, ghosts, RefreshInv, TabsTyped
    <2> QED
      BY <1>0, <1>3, <1>10, <2>1, LogoutServedSound, LoginDoneSound DEF Exit
  <1>8. CASE Expire
    BY <1>8, IdleSound DEF Expire, browser, ghosts, RefreshInv, TabsTyped
  <1>9. CASE UNCHANGED vars
    BY <1>9, IdleSound DEF vars, browser, ghosts, RefreshInv, TabsTyped
  <1> QED
    BY <1>1, <1>2, <1>3, <1>4, <1>5, <1>6, <1>7, <1>8, <1>9, <1>10 DEF Next

\* All of this is so in every state.
LEMMA RefreshesHold == Spec => [](IInv /\ RestTyped /\ RefreshInv)
  <1>1. IInv /\ RefreshInv => TokensTyped
    BY AtHand DEF RefreshInv, TabsTyped, Tab, Token, TokensTyped
  <1> QED
    BY <1>1, InitEstablishes, NextKeeps, InitRest, NextRest, InitSound, NextSound, PTL DEF Spec

\* Of the refreshes of a tab's present sign-in at most one is under way at any time, and
\* where there are locks one request of all tabs is out.
THEOREM OneRefreshAtATime == Spec => []OneRefreshPerTab
  <1>1. RefreshInv => OneRefreshPerTab
    <2> SUFFICES ASSUME RefreshInv PROVE OneRefreshPerTab
      OBVIOUS
    <2>1. ASSUME NEW b \in Tabs, NEW s \in Slots, Open(b, s), ~call[b][s].outdated
          PROVE  tab[b].current = s
      BY <2>1, ViewOf DEF RefreshInv, SharedInv, Sharing, Open
    <2>2. ASSUME secure, NEW b \in Tabs, NEW s \in Slots,
                 call[b][s].phase \notin {"none", "queued"}
          PROVE  lock = <<b, s>>
      BY <2>2 DEF RefreshInv, LockInv, Sent
    <2> QED
      BY <2>1, <2>2 DEF OneRefreshPerTab
  <1> QED
    BY <1>1, RefreshesHold, PTL

\* A refresh that was under way when its tab removed its tokens brings none back, neither
\* to the tab nor to local storage, whenever it ends.
THEOREM RemovedTokensStayAway == Spec => LogoutSticks
  <1>1. IInv /\ RestTyped /\ RefreshInv /\ [Next]_vars
          => [\A b \in Tabs, s \in Slots :
                <<b, s>> \in cut /\ Open(b, s) /\ call'[b][s] = NoCall
                  => tab'[b].saved \in {0, tab[b].saved, stored} /\ stored' \in {0, stored}]_vars
    BY NextSound DEF Sticks
  <1> QED
    BY <1>1, RefreshesHold, PTL DEF Spec, LogoutSticks

\* Tabs, refreshes, sessions and tokens keep their types.
THEOREM TypeCorrect == Spec => []TypeOK
  <1>1. IInv /\ RestTyped /\ RefreshInv => TypeOK
    BY DEF IInv, AllIssued, RefreshInv, TabsTyped, LockInv, CutInv, RestTyped, TypeOK, Token
  <1> QED
    BY <1>1, RefreshesHold, PTL
-----------------------------------------------------------------------------
(* Nobody is signed out against their will.  Where locks keep the tabs apart *)
(* and nothing disturbs a refresh, its request cannot be refused while its   *)
(* session lasts, and the token that a checkAuth finds in the end is newer   *)
(* than those that had expired when it began.                                *)

Newer(n, asked) == n = 0 \/ n > asked

\* A tab shares no outdated refresh, and its checkAuth has begun.
Ready(view) ==
    /\ view.tab.asked <= expired
    /\ view.tab.current # NoSlot => ~view.calls[view.tab.current].outdated

\* A checkAuth that waits for an outdated refresh finds no token, or one newer than
\* its beginning; what a queued refresh may adopt has not expired.
Checking(view, storage) ==
    /\ Ready(view)
    /\ LET s == view.waits["check"].slot IN
         s # NoSlot /\ view.calls[s].outdated
           => Newer(view.tab.saved, view.tab.asked) /\ Newer(storage, view.tab.asked)
    /\ \A s \in Slots : view.calls[s].phase = "queued"
         => storage \in {0, view.calls[s].before} \/ storage > expired

\* This is so whichever call of refreshToken joins or starts a refresh.
LEMMA RefreshTokenChecking ==
  ASSUME NEW view \in Views, CanRefresh(view), Ready(view), NEW callers,
         NEW attempt, NEW storage \in Nat, NEW jar,
         "check" \in callers \/ Checking(view, storage),
         \A s \in Slots : view.calls[s].phase = "queued"
           => storage \in {0, view.calls[s].before} \/ storage > expired
  PROVE  /\ Checking(refreshToken(view, callers, attempt, storage, jar), storage)
         /\ refreshToken(view, callers, attempt, storage, jar).tab.auth = view.tab.auth
  <1> DEFINE queued == [NoCall EXCEPT !.phase = "queued", !.before = storage]
             posted == [NoCall EXCEPT !.phase = "posted", !.cookie = jar]
             s == IF view.tab.current # NoSlot THEN view.tab.current
                  ELSE CHOOSE free \in Free(view.calls) : TRUE
             started == IF secure THEN queued ELSE posted
             next == refreshToken(view, callers, attempt, storage, jar)
  <1>1. /\ ~queued.outdated /\ queued.before = storage
        /\ ~posted.outdated /\ posted.phase = "posted"
    BY DEF NoCall
  <1> HIDE DEF queued, posted
  <1>2. ~started.outdated /\ (started.phase = "queued" => started.before = storage)
    BY <1>1
  <1> HIDE DEF started
  <1>3. s \in Slots
    BY DEF CanRefresh, Free, Views, Tab
  <1>4. /\ next.tab = [view.tab EXCEPT !.current = s]
        /\ next.calls = IF view.tab.current # NoSlot THEN view.calls
                        ELSE [view.calls EXCEPT ![s] = started]
        /\ next.waits = [c \in Callers |-> IF c \in callers
                           THEN [slot |-> s, attempt |-> attempt] ELSE view.waits[c]]
    BY DEF refreshToken, started, queued, posted
  <1>5. view.tab.current # NoSlot => view.tab.current = s
    OBVIOUS
  <1> HIDE DEF s, next
  <1>6. /\ next.tab.current = s /\ next.tab.saved = view.tab.saved
        /\ next.tab.asked = view.tab.asked /\ next.tab.auth = view.tab.auth
    BY <1>4 DEF Views, Tab
  <1>7. /\ ~next.calls[s].outdated
        /\ \A r \in Slots : r # s => next.calls[r] = view.calls[r]
        /\ next.calls[s] = view.calls[s] \/ next.calls[s] = started
    BY <1>2, <1>3, <1>4, <1>5 DEF Ready, Views
  <1>8. Ready(next)
    BY <1>6, <1>7 DEF Ready
  <1>9. ASSUME NEW r \in Slots, next.calls[r].phase = "queued"
        PROVE  storage \in {0, next.calls[r].before} \/ storage > expired
    BY <1>2, <1>7, <1>9
  <1>10. ASSUME next.waits["check"].slot # NoSlot, next.calls[next.waits["check"].slot].outdated
         PROVE  Newer(next.tab.saved, next.tab.asked) /\ Newer(storage, next.tab.asked)
    <2>1. "check" \in Callers /\ view.waits["check"] \in Wait
      BY DEF Callers, Views
    <2>2. "check" \notin callers /\ next.waits["check"] = view.waits["check"]
      BY <1>4, <1>7, <1>10, <2>1
    <2>3. view.waits["check"].slot \in Slots
      BY <1>10, <2>1, <2>2 DEF Wait
    <2>4. view.calls[view.waits["check"].slot].outdated
      BY <1>7, <1>10, <2>2, <2>3
    <2> QED
      BY <1>6, <1>10, <2>2, <2>4 DEF Checking
  <1> QED
    BY <1>6, <1>8, <1>9, <1>10 DEF Checking, next

\* A tab may store a token of its own, of storage, or a new one.
LEMMA SavedChecking ==
  ASSUME expired \in Nat, NEW view \in Views, NEW storage \in Nat, Checking(view, storage),
         NEW n \in Nat, n \in {view.tab.saved, storage} \/ n > expired,
         NEW next, next.calls = view.calls, next.waits = view.waits,
         next.tab.saved = n, next.tab.asked = view.tab.asked,
         next.tab.current = view.tab.current
  PROVE  Checking(next, storage)
  <1>1. view.tab.asked \in Nat /\ view.tab.asked <= expired
    BY DEF Checking, Ready, Views, Tab, Token
  <1>2. Ready(next)
    BY DEF Checking, Ready
  <1>3. n > expired => Newer(n, view.tab.asked)
    BY <1>1 DEF Newer
  <1> QED
    BY <1>2, <1>3 DEF Checking

\* A check of the sign-in goes on from a token that is there.
LEMMA CheckAuthChecking ==
  ASSUME expired \in Nat, NEW view \in Views, NEW storage \in Nat, NEW jar,
         Checking(view, storage)
  PROVE  /\ Checking(checkAuth(view, storage, jar), storage)
         /\ getToken(view.tab, storage) # 0 /\ view.tab.auth
              => checkAuth(view, storage, jar).tab.auth
  <1> DEFINE token == getToken(view.tab, storage)
             read == [view EXCEPT !.tab = [view.tab EXCEPT !.saved = token]]
             saved == [read EXCEPT !.tab = [read.tab EXCEPT !.asked = expired]]
             out == [view EXCEPT !.tab = SignedOut(view.tab)]
             in == [view EXCEPT !.tab = AsksUser(view.tab, token)]
             next == checkAuth(view, storage, jar)
  <1>1. token \in {view.tab.saved, storage} /\ token \in Nat /\ view.tab \in Tab
    BY DEF getToken, Views, Tab, Token
  <1>2. [view EXCEPT !.tab.saved = token, !.tab.asked = expired] = saved
    BY Zenon
  <1>3. \/ token = 0 /\ next = out
        \/ Valid(token) /\ next = in
        \/ next = view
        \/ /\ view.waits["check"] = NoWait /\ CanRefresh(view)
           /\ next = refreshToken(saved, {"check"}, 1, storage, jar)
    BY <1>2, Zenon DEF checkAuth
  <1> HIDE DEF token, next
  <1>4. /\ out.calls = view.calls /\ out.waits = view.waits /\ out.tab.saved = view.tab.saved
        /\ out.tab.asked = view.tab.asked /\ out.tab.current = view.tab.current
    BY <1>1 DEF SignedOut, Views, Tab
  <1>5. /\ in.calls = view.calls /\ in.waits = view.waits /\ in.tab.saved = token
        /\ in.tab.asked = view.tab.asked /\ in.tab.current = view.tab.current
        /\ in.tab.auth = view.tab.auth
    BY <1>1 DEF AsksUser, Views, Tab
  <1>6. /\ saved \in Views /\ saved.calls = view.calls /\ saved.tab.current = view.tab.current
        /\ saved.tab.asked = expired /\ saved.tab.auth = view.tab.auth
    BY <1>1 DEF Views, Tab, Token
  <1> HIDE DEF out, in, saved
  <1>7. CASE token = 0 /\ next = out
    <2>1. Checking(out, storage)
      BY <1>1, <1>4, SavedChecking DEF Views, Tab, Token
    <2> QED
      BY <1>7, <2>1 DEF next, token
  <1>8. CASE Valid(token) /\ next = in
    <2>1. Checking(in, storage)
      BY <1>1, <1>5, SavedChecking
    <2> QED
      BY <1>5, <1>8, <2>1 DEF next
  <1>9. CASE next = view
    BY <1>9 DEF next
  <1>10. CASE CanRefresh(view) /\ next = refreshToken(saved, {"check"}, 1, storage, jar)
    <2>1. CanRefresh(saved) /\ Ready(saved)
      BY <1>6, <1>10 DEF CanRefresh, Checking, Ready
    <2>2. \A s \in Slots : saved.calls[s].phase = "queued"
            => storage \in {0, saved.calls[s].before} \/ storage > expired
      BY <1>6 DEF Checking
    <2>3. /\ Checking(refreshToken(saved, {"check"}, 1, storage, jar), storage)
          /\ refreshToken(saved, {"check"}, 1, storage, jar).tab.auth = saved.tab.auth
      BY <1>6, <2>1, <2>2, RefreshTokenChecking
    <2> QED
      BY <1>6, <1>10, <2>3 DEF next
  <1> QED
    BY <1>3, <1>7, <1>8, <1>9, <1>10

\* A refresh that has ended keeps no checkAuth waiting.
LEMMA OverChecking ==
  ASSUME expired \in Nat, NEW view \in Views, NEW s \in Slots, NEW callers,
         NEW storage \in Nat, Checking(view, storage)
  PROVE  LET over == Released(Settled(view, s), callers) IN
         /\ Checking(over, storage)
         /\ over.tab.auth = view.tab.auth /\ over.tab.saved = view.tab.saved
  <1> DEFINE t == [view.tab EXCEPT !.current = IF view.tab.current = s THEN NoSlot
                                               ELSE view.tab.current]
             left == [view EXCEPT !.tab = t]
             settled == Settled(view, s)
             told == [settled EXCEPT !.waits =
                        [c \in Callers |-> IF c \in callers THEN NoWait ELSE settled.waits[c]]]
             asked == IF "check" \in callers THEN 0 ELSE told.tab.asked
             over == Released(settled, callers)
  <1>1. settled = [left EXCEPT !.calls = [left.calls EXCEPT ![s] = NoCall]]
    BY Zenon DEF Settled
  <1> HIDE DEF settled
  <1>2. /\ t \in Tab /\ t.saved = view.tab.saved /\ t.asked = view.tab.asked
        /\ t.auth = view.tab.auth /\ t.asked \in Nat
        /\ t.current = IF view.tab.current = s THEN NoSlot ELSE view.tab.current
    BY DEF Views, Tab, Token
  <1> HIDE DEF t
  <1>3. /\ settled = [tab |-> t, calls |-> settled.calls, waits |-> view.waits]
        /\ settled.calls = [view.calls EXCEPT ![s] = NoCall]
    BY <1>1 DEF Views
  <1>4. over = [told EXCEPT !.tab = [told.tab EXCEPT !.asked = asked]]
    BY Zenon DEF Released
  <1>5. /\ told = [tab |-> t, calls |-> settled.calls, waits |-> told.waits]
        /\ told.waits = [c \in Callers |-> IF c \in callers THEN NoWait ELSE view.waits[c]]
        /\ asked = IF "check" \in callers THEN 0 ELSE view.tab.asked
    BY <1>2, <1>3
  <1> HIDE DEF told, asked, over
  <1>6. /\ over.tab = [t EXCEPT !.asked = asked] /\ over.calls = settled.calls
        /\ over.waits = [c \in Callers |-> IF c \in callers THEN NoWait ELSE view.waits[c]]
    BY <1>4, <1>5
  <1>7. /\ over.tab.saved = view.tab.saved /\ over.tab.auth = view.tab.auth
        /\ over.tab.asked = IF "check" \in callers THEN 0 ELSE view.tab.asked
        /\ over.tab.current = IF view.tab.current = s THEN NoSlot ELSE view.tab.current
    BY <1>2, <1>5, <1>6 DEF Tab
  <1>8. /\ over.calls[s] = NoCall /\ NoCall.outdated = FALSE /\ NoCall.phase = "none"
        /\ \A r \in Slots : r # s => over.calls[r] = view.calls[r]
    BY <1>3, <1>6 DEF Views, NoCall
  <1>9. view.tab.current \in Slots \cup {NoSlot} /\ view.waits["check"] \in Wait
    BY DEF Views, Tab, Callers
  <1>10. Ready(over)
    BY <1>2, <1>7, <1>8, <1>9 DEF Checking, Ready
  <1>11. ASSUME NEW r \in Slots, over.calls[r].phase = "queued"
         PROVE  storage \in {0, over.calls[r].before} \/ storage > expired
    BY <1>8, <1>11 DEF Checking
  <1>12. ASSUME over.waits["check"].slot # NoSlot, over.calls[over.waits["check"].slot].outdated
         PROVE  Newer(over.tab.saved, over.tab.asked) /\ Newer(storage, over.tab.asked)
    <2>1. "check" \in Callers
      BY DEF Callers
    <2>2. "check" \notin callers /\ over.waits["check"] = view.waits["check"]
      BY <1>6, <1>12, <2>1 DEF NoWait
    <2>3. view.waits["check"].slot \in Slots
      BY <1>9, <1>12, <2>2 DEF Wait
    <2>4. view.calls[view.waits["check"].slot].outdated
      BY <1>8, <1>12, <2>2, <2>3
    <2> QED
      BY <1>7, <1>12, <2>2, <2>4 DEF Checking
  <1>13. Checking(over, storage)
    BY <1>10, <1>11, <1>12 DEF Checking
  <1> QED
    BY <1>7, <1>13 DEF over, settled

\* A checkAuth that waited for a refresh which succeeded keeps its tab signed in, if it
\* finds a token that had not expired when it began.
LEMMA ResolvedChecking ==
  ASSUME expired \in Nat, NEW view \in Views, Sharing(view), NEW s \in Slots,
         NEW storage \in Nat, NEW jar, NEW throttled, Checking(view, storage)
  PROVE  /\ Checking(Resolved(view, s, storage, jar, throttled), storage)
         /\ view.tab.auth /\ getToken(view.tab, storage) # 0
              /\ (view.waits["check"].slot = s
                    => getToken(view.tab, storage) > view.tab.asked)
              => Resolved(view, s, storage, jar, throttled).tab.auth
  <1> DEFINE callers == Waiting(view, s)
             over == Released(Settled(view, s), callers)
             token == getToken(over.tab, storage)
             in == [over EXCEPT !.tab = AsksUser(over.tab, token)]
             out == [over EXCEPT !.tab = SignedOut([over.tab EXCEPT !.saved = token])]
             checked == IF "check" \notin callers THEN over
                        ELSE IF token > view.tab.asked THEN in ELSE out
             next == Resolved(view, s, storage, jar, throttled)
  <1>1. next = IF "renew" \in callers /\ ~throttled THEN checkAuth(checked, storage, jar)
               ELSE checked
    BY Zenon DEF Resolved
  <1>2. "check" \in callers <=> view.waits["check"].slot = s
    BY DEF Waiting, Callers
  <1> HIDE DEF next
  <1>3. /\ Checking(over, storage) /\ over \in Views
        /\ over.tab.auth = view.tab.auth /\ over.tab.saved = view.tab.saved
    <2> HIDE DEF callers
    <2> QED
      BY OverChecking, OverFollows DEF Follows
  <1> HIDE DEF over, callers
  <1>4. /\ token \in {over.tab.saved, storage} /\ token \in Nat /\ over.tab \in Tab
        /\ token = getToken(view.tab, storage)
    BY <1>3 DEF getToken, Views, Tab, Token
  <1> HIDE DEF token
  <1>5. /\ in \in Views /\ in.calls = over.calls /\ in.waits = over.waits
        /\ in.tab.saved = token /\ in.tab.asked = over.tab.asked
        /\ in.tab.current = over.tab.current /\ in.tab.auth = over.tab.auth
    BY <1>3, <1>4 DEF AsksUser, Views, Tab, Token
  <1>6. /\ out \in Views /\ out.calls = over.calls /\ out.waits = over.waits
        /\ out.tab.saved = token /\ out.tab.asked = over.tab.asked
        /\ out.tab.current = over.tab.current
    <2> DEFINE read == [over.tab EXCEPT !.saved = token]
    <2>1. read \in Tab /\ read.saved = token /\ read.asked = over.tab.asked
          /\ read.current = over.tab.current
      BY <1>4 DEF Tab, Token
    <2> HIDE DEF read
    <2>2. /\ SignedOut(read) \in Tab /\ SignedOut(read).saved = token
          /\ SignedOut(read).asked = over.tab.asked
          /\ SignedOut(read).current = over.tab.current
      BY <2>1 DEF SignedOut, Tab, Token
    <2>3. out = [over EXCEPT !.tab = SignedOut(read)]
      BY DEF read
    <2> HIDE DEF out
    <2> QED
      BY <1>3, <2>2, <2>3 DEF Views
  <1> HIDE DEF in, out
  <1>7. Checking(in, storage) /\ Checking(out, storage)
    BY <1>3, <1>4, <1>5, <1>6, SavedChecking
  <1>8. checked \in Views /\ Checking(checked, storage)
    BY <1>3, <1>5, <1>6, <1>7
  <1>9. ASSUME view.tab.auth, token # 0,
               view.waits["check"].slot = s => token > view.tab.asked
        PROVE  checked.tab.auth /\ getToken(checked.tab, storage) # 0
    BY <1>2, <1>3, <1>4, <1>5, <1>9 DEF getToken
  <1> HIDE DEF checked
  <1>10. /\ Checking(checkAuth(checked, storage, jar), storage)
         /\ getToken(checked.tab, storage) # 0 /\ checked.tab.auth
              => checkAuth(checked, storage, jar).tab.auth
    BY <1>8, CheckAuthChecking
  <1> QED
    BY <1>1, <1>4, <1>8, <1>9, <1>10 DEF next

\* After one that failed the checks go on from what they had.
LEMMA RejectedChecking ==
  ASSUME expired \in Nat, NEW view \in Views, Sharing(view), NEW s \in Slots,
         NEW storage \in Nat, NEW jar, Checking(view, storage)
  PROVE  Checking(Rejected(view, s, storage, jar), storage)
  <1> DEFINE again == Again(view, s)
             pausing == {c \in Waiting(view, s) \cap {"request"} : view.waits[c].attempt = 1}
             over == Released(Settled(view, s), Waiting(view, s) \ again)
             waits == [c \in Callers |-> IF c \in pausing THEN Paused ELSE over.waits[c]]
             paused == [over EXCEPT !.waits = waits]
             left == IF "check" \in Waiting(view, s) \ again
                     THEN [paused EXCEPT !.tab = SignedOut(paused.tab)] ELSE paused
  <1>1. Rejected(view, s, storage, jar)
          = IF again = {} THEN left ELSE refreshToken(left, again, 2, storage, jar)
    BY Zenon DEF Rejected
  <1>2. over \in Views /\ s \in Free(over.calls) /\ Checking(over, storage)
    <2> HIDE DEF again
    <2> QED
      BY OverFollows, OverChecking DEF Follows
  <1>3. "check" \notin pausing /\ "check" \in Callers
    BY DEF Callers
  <1> HIDE DEF over, pausing, again
  <1>4. waits \in [Callers -> Wait] /\ waits["check"] = over.waits["check"]
    BY <1>2, <1>3 DEF Views, Wait, Paused
  <1> HIDE DEF waits
  <1>5. /\ paused \in Views /\ paused.tab = over.tab /\ paused.calls = over.calls
        /\ paused.waits["check"] = over.waits["check"]
    BY <1>2, <1>4 DEF Views
  <1> HIDE DEF paused
  <1>6. Checking(paused, storage)
    BY <1>2, <1>5 DEF Checking, Ready
  <1>7. left \in Views /\ left.calls = paused.calls /\ Checking(left, storage)
    <2> DEFINE t == SignedOut(paused.tab)
               out == [paused EXCEPT !.tab = t]
    <2>1. /\ t \in Tab /\ t.saved = paused.tab.saved /\ t.asked = paused.tab.asked
          /\ t.current = paused.tab.current /\ t.saved \in Nat
      BY <1>5 DEF SignedOut, Tab, Token, Views
    <2> HIDE DEF t
    <2>2. /\ out \in Views /\ out.calls = paused.calls /\ out.waits = paused.waits /\ out.tab = t
      BY <1>5, <2>1 DEF Views
    <2>3. left = paused \/ left = out
      BY DEF t
    <2> HIDE DEF out, left
    <2>4. Checking(out, storage)
      BY <1>5, <1>6, <2>1, <2>2, SavedChecking
    <2> QED
      BY <1>5, <1>6, <2>2, <2>3, <2>4
  <1> HIDE DEF left
  <1>8. CanRefresh(left) /\ Ready(left)
    BY <1>2, <1>5, <1>7 DEF CanRefresh, Checking
  <1>9. Checking(refreshToken(left, again, 2, storage, jar), storage)
    <2>1. \A r \in Slots : left.calls[r].phase = "queued"
            => storage \in {0, left.calls[r].before} \/ storage > expired
      BY <1>7 DEF Checking
    <2> QED
      BY <1>7, <1>8, <2>1, RefreshTokenChecking
  <1> QED
    BY <1>1, <1>7, <1>9

\* A tab without tokens finds none; its requests are what they were.
LEMMA RemoveTokenChecking ==
  ASSUME NEW view \in Views, view.tab.asked <= expired
  PROVE  /\ Checking(removeToken(view), 0)
         /\ \A s \in Slots :
              /\ removeToken(view).calls[s].phase = view.calls[s].phase
              /\ removeToken(view).calls[s].cookie = view.calls[s].cookie
              /\ removeToken(view).calls[s].token = view.calls[s].token
  <1> DEFINE unsaved == [view EXCEPT !.tab = [view.tab EXCEPT !.saved = 0]]
             unshared == [unsaved EXCEPT !.tab = [unsaved.tab EXCEPT !.current = NoSlot]]
             calls == [s \in Slots |-> IF view.calls[s] = NoCall THEN NoCall
                                       ELSE [view.calls[s] EXCEPT !.outdated = TRUE]]
             next == removeToken(view)
  <1>1. next = [unshared EXCEPT !.calls = calls]
    BY Zenon DEF removeToken
  <1> HIDE DEF calls, next
  <1>2. unsaved \in Views /\ unsaved.tab.saved = 0 /\ unsaved.tab.asked = view.tab.asked
    BY DEF Views, Tab, Token
  <1> HIDE DEF unsaved
  <1>3. /\ unshared \in Views /\ unshared.tab.saved = 0 /\ unshared.tab.current = NoSlot
        /\ unshared.tab.asked = view.tab.asked
    BY <1>2 DEF Views, Tab, Token
  <1> HIDE DEF unshared
  <1>4. next.tab = unshared.tab /\ next.calls = calls
    BY <1>1, <1>3 DEF Views
  <1>5. ASSUME NEW s \in Slots
        PROVE  /\ next.calls[s].phase = view.calls[s].phase
               /\ next.calls[s].cookie = view.calls[s].cookie
               /\ next.calls[s].token = view.calls[s].token
    <2>1. view.calls[s] \in Call
      BY DEF Views
    <2>2. CASE view.calls[s] = NoCall
      BY <1>4, <2>2 DEF calls
    <2>3. CASE view.calls[s] # NoCall
      <3>1. next.calls[s] = [view.calls[s] EXCEPT !.outdated = TRUE]
        BY <1>4, <2>3 DEF calls
      <3> QED
        BY <2>1, <3>1 DEF Call
    <2> QED
      BY <2>2, <2>3
  <1>6. Checking(next, 0)
    BY <1>3, <1>4 DEF Checking, Ready, Newer
  <1> QED
    BY <1>5, <1>6 DEF next

\* Local storage may be cleared, or hold a token that has not expired.
LEMMA StorageChecking ==
  ASSUME expired \in Nat, NEW view \in Views, NEW storage, Checking(view, storage),
         NEW n \in Nat, n \in {0, storage} \/ n > expired
  PROVE  Checking(view, n)
  <1>1. view.tab.asked \in Nat /\ view.tab.asked <= expired
    BY DEF Checking, Ready, Views, Tab, Token
  <1> QED
    BY <1>1 DEF Checking, Newer

\* A refresh token is live unless its session went on to another.
Live(n) == n = 0 \/ session[SessionOf(n)] \in {0, n}

NoneSent == \A b \in Tabs, s \in Slots : ~Sent(call[b][s])

\* The request that is out carries the cookie of the jar, which is live.
RequestInv ==
    /\ NoneSent => Live(cookie)
    /\ \A b \in Tabs, s \in Slots :
         LET c == call[b][s] IN
         /\ c.phase \in {"posted", "found"} => cookie \in {0, c.cookie} /\ Live(c.cookie)
         /\ c.phase = "granted" => Live(c.token) /\ c.token > expired
         /\ c.phase = "refused" => cookie = 0 \/ session[SessionOf(cookie)] = 0

CheckInv == \A b \in Tabs : Checking(View(b), stored)

\* Together, as long as nothing disturbs a refresh.
CalmInv == RequestInv /\ CheckInv

\* What the property says of a tab.
Unforced(b) ==
    \/ ~tab[b].auth \/ SessionEnded(b) \/ ~Idle(b)
    \/ LogoutStart(b) \/ CloseTab(b)
    \/ tab'[b].auth /\ Idle(b)'

\* A tab that a step leaves as it was, or that is in the view next, is checked as before.
LEMMA CheckingAfter ==
  ASSUME TabsTyped', UNCHANGED expired, NEW b \in Tabs, NEW next,
         tab'[b] = next.tab, call'[b] = next.calls, wait'[b] = next.waits,
         Checking(next, stored')
  PROVE  Checking(View(b), stored)'
  <1>1. View(b)'.tab = next.tab /\ View(b)'.calls = next.calls /\ View(b)'.waits = next.waits
    BY DEF View
  <1> QED
    BY <1>1 DEF Checking, Ready, Newer

\* What each step starts with.
LEMMA CalmTab ==
  ASSUME IInv, RestTyped, RefreshInv, CalmInv, NEW b \in Tabs
  PROVE  /\ expired \in Nat /\ stored \in Nat /\ cookie \in Nat /\ TabsTyped
         /\ View(b) \in Views /\ Sharing(View(b)) /\ Checking(View(b), stored)
         /\ View(b).tab = tab[b] /\ View(b).calls = call[b] /\ View(b).waits = wait[b]
         /\ tab[b] \in Tab /\ tab[b].asked <= expired
  <1>1. expired \in Nat
    BY DEF RestTyped
  <1>2. Checking(View(b), stored)
    BY DEF CalmInv, CheckInv
  <1>3. View(b).tab = tab[b] /\ View(b).waits = wait[b]
    BY DEF View
  <1> QED
    BY <1>1, <1>2, <1>3, TabSound DEF Checking, Ready

\* A step of one tab leaves the checks of all, and who is signed in elsewhere, in order.
LEMMA ChecksCalm ==
  ASSUME IInv, RestTyped, RefreshInv, CalmInv, NEW b \in Tabs, NEW next \in Views,
         Becomes(b, next), UNCHANGED expired, Checking(next, stored'),
         stored' \in Nat, stored' \in {0, stored} \/ stored' > expired,
         \A c \in Tabs \ {b} : exit'[c] = exit[c],
         \/ ~tab[b].auth \/ SessionEnded(b) \/ ~Idle(b)
         \/ LogoutStart(b) \/ CloseTab(b)
         \/ next.tab.auth /\ Idle(b)'
  PROVE  CheckInv' /\ \A c \in Tabs : Unforced(c)
  <1>1. /\ TabsTyped'
        /\ tab'[b] = next.tab /\ call'[b] = next.calls /\ wait'[b] = next.waits
        /\ \A c \in Tabs \ {b} : tab'[c] = tab[c] /\ call'[c] = call[c] /\ wait'[c] = wait[c]
    BY BecomesTyped DEF RefreshInv
  <1>2. Checking(View(b), stored)'
    BY <1>1, CheckingAfter
  <1>3. ASSUME NEW c \in Tabs, c # b PROVE Checking(View(c), stored)'
    <2>1. /\ View(c) \in Views /\ Checking(View(c), stored) /\ expired \in Nat
          /\ View(c).tab = tab[c] /\ View(c).calls = call[c] /\ View(c).waits = wait[c]
      BY CalmTab
    <2>2. Checking(View(c), stored')
      BY <2>1, StorageChecking
    <2>3. tab'[c] = View(c).tab /\ call'[c] = View(c).calls /\ wait'[c] = View(c).waits
      BY <1>1, <1>3, <2>1
    <2> DEFINE view == View(c)
    <2>4. /\ Checking(view, stored')
          /\ tab'[c] = view.tab /\ call'[c] = view.calls /\ wait'[c] = view.waits
      BY <2>2, <2>3
    <2> HIDE DEF view
    <2> QED
      BY <1>1, <2>4, CheckingAfter
  <1>4. CheckInv'
    BY <1>2, <1>3 DEF CheckInv
  <1>5. ASSUME NEW c \in Tabs PROVE Unforced(c)
    BY <1>1 DEF Unforced, Idle
  <1> QED
    BY <1>4, <1>5

\* A step that sends no request, with a cookie that is live when none is out.
LEMMA RequestsCalm ==
  ASSUME RequestInv, NEW b \in Tabs, NEW next, call'[b] = next.calls,
         \A c \in Tabs \ {b} : call'[c] = call[c], UNCHANGED <<server, expired>>,
         \A s \in Slots : Sent(next.calls[s]) =>
            /\ next.calls[s].phase = call[b][s].phase
            /\ next.calls[s].cookie = call[b][s].cookie
            /\ next.calls[s].token = call[b][s].token,
         cookie' \in {0, cookie} \/ NoneSent',
         NoneSent' => Live(cookie')
  PROVE  RequestInv'
  <1>1. session' = session /\ issued' = issued /\ expired' = expired
    BY DEF server
  <1>2. ASSUME NEW c \in Tabs, NEW s \in Slots, Sent(call'[c][s])
        PROVE  /\ call'[c][s].phase = call[c][s].phase
               /\ call'[c][s].cookie = call[c][s].cookie
               /\ call'[c][s].token = call[c][s].token
               /\ cookie' \in {0, cookie}
    BY <1>2 DEF NoneSent
  <1>3. ASSUME NEW c \in Tabs, NEW s \in Slots, NEW k, k = call'[c][s]
        PROVE  /\ k.phase \in {"posted", "found"} => cookie' \in {0, k.cookie} /\ Live(k.cookie)
               /\ k.phase = "granted" => Live(k.token) /\ k.token > expired
               /\ k.phase = "refused" => cookie' = 0 \/ session[SessionOf(cookie')] = 0
    <2>1. CASE ~Sent(k)
      BY <2>1 DEF Sent
    <2>2. CASE Sent(k)
      <3> DEFINE d == call[c][s]
      <3>1. /\ k.phase = d.phase /\ k.cookie = d.cookie /\ k.token = d.token
            /\ cookie' \in {0, cookie}
        BY <1>2, <1>3, <2>2
      <3>2. /\ d.phase \in {"posted", "found"} => cookie \in {0, d.cookie} /\ Live(d.cookie)
            /\ d.phase = "granted" => Live(d.token) /\ d.token > expired
            /\ d.phase = "refused" => cookie = 0 \/ session[SessionOf(cookie)] = 0
        BY DEF RequestInv
      <3> HIDE DEF d
      <3> QED
        BY <3>1, <3>2
    <2> QED
      BY <2>1, <2>2
  <1> QED
    BY <1>1, <1>3 DEF RequestInv, Live, SessionOf

\* A step of a tab that goes on from its refreshes, or ends one of them.
LEMMA FollowsCalm ==
  ASSUME IInv, RestTyped, RefreshInv, CalmInv, secure,
         NEW b \in Tabs, NEW view, view.calls = call[b], NEW ended \in SUBSET Slots,
         NEW storage, NEW next, Follows(view, ended, storage, next), Becomes(b, next),
         UNCHANGED <<server, expired>>, Checking(next, stored'),
         stored' \in Nat, stored' \in {0, stored} \/ stored' > expired,
         cookie' \in {0, cookie} \/ NoneSent', NoneSent' => Live(cookie'),
         \A c \in Tabs \ {b} : exit'[c] = exit[c],
         \/ ~tab[b].auth \/ SessionEnded(b) \/ ~Idle(b)
         \/ LogoutStart(b) \/ CloseTab(b)
         \/ next.tab.auth /\ Idle(b)'
  PROVE  CalmInv' /\ \A c \in Tabs : Unforced(c)
  <1>1. next \in Views
    BY DEF Follows
  <1>2. CheckInv' /\ \A c \in Tabs : Unforced(c)
    BY <1>1, ChecksCalm
  <1>3. call'[b] = next.calls /\ \A c \in Tabs \ {b} : call'[c] = call[c]
    BY <1>1, BecomesTyped DEF RefreshInv
  <1>4. ASSUME NEW s \in Slots, Sent(next.calls[s]) PROVE next.calls[s] = call[b][s]
    <2>1. s \notin ended /\ Sent(call[b][s])
      BY <1>4 DEF Follows, Keeps
    <2> QED
      BY <2>1 DEF Follows, Keeps, Sent
  <1>5. RequestInv'
    BY <1>3, <1>4, RequestsCalm DEF CalmInv
  <1> QED
    BY <1>2, <1>5 DEF CalmInv

\* A step that ends no refresh that was sent.
LEMMA StartsCalm ==
  ASSUME IInv, RestTyped, RefreshInv, CalmInv, secure,
         NEW b \in Tabs, NEW view, view.calls = call[b], NEW ended \in SUBSET Slots,
         \A s \in ended : ~Sent(call[b][s]),
         NEW storage, NEW next, Follows(view, ended, storage, next), Becomes(b, next),
         UNCHANGED <<server, expired, cookie, stored>>, Checking(next, stored),
         \A c \in Tabs \ {b} : exit'[c] = exit[c],
         \/ ~tab[b].auth \/ SessionEnded(b) \/ ~Idle(b)
         \/ next.tab.auth /\ Idle(b)'
  PROVE  CalmInv' /\ \A c \in Tabs : Unforced(c)
  <1>1. call'[b] = next.calls /\ \A c \in Tabs \ {b} : call'[c] = call[c]
    BY BecomesTyped DEF RefreshInv, Follows
  <1>2. ASSUME NoneSent' PROVE Live(cookie)
    <2>1. ASSUME NEW s \in Slots, Sent(call[b][s]) PROVE FALSE
      <3>1. next.calls[s] = call[b][s]
        BY <2>1 DEF Follows, Keeps, Sent
      <3> QED
        BY <1>1, <1>2, <2>1, <3>1 DEF NoneSent
    <2>2. NoneSent
      BY <1>1, <1>2, <2>1 DEF NoneSent
    <2> QED
      BY <2>2 DEF CalmInv, RequestInv
  <1>3. stored \in Nat /\ expired \in Nat
    BY CalmTab
  <1>4. Checking(next, stored')
    OBVIOUS
  <1>5. /\ stored' \in Nat
        /\ stored' \in {0, stored} \/ stored' > expired
        /\ cookie' \in {0, cookie} \/ NoneSent'
        /\ NoneSent' => Live(cookie')
    BY <1>2, <1>3
  <1>6. \/ ~tab[b].auth \/ SessionEnded(b) \/ ~Idle(b)
        \/ LogoutStart(b) \/ CloseTab(b)
        \/ next.tab.auth /\ Idle(b)'
    OBVIOUS
  <1> QED
    BY <1>4, <1>5, <1>6, FollowsCalm

\* A tab reads its token, and one that has a token may ask for a refresh.
LEMMA TokenRead ==
  ASSUME IInv, RestTyped, RefreshInv, CalmInv, NEW b \in Tabs, NEW n \in Nat,
         n \in {tab[b].saved, stored} \/ n > expired
  PROVE  LET view == [View(b) EXCEPT !.tab.saved = n] IN
         /\ view \in Views /\ Sharing(view) /\ Checking(view, stored)
         /\ view.calls = call[b] /\ view.waits = wait[b]
         /\ view.tab.saved = n /\ view.tab.current = tab[b].current
         /\ view.tab.auth = tab[b].auth /\ view.tab.asked = tab[b].asked
  <1> DEFINE view == [View(b) EXCEPT !.tab.saved = n]
  <1>1. /\ view \in Views /\ view.calls = call[b] /\ view.tab.saved = n
        /\ view.tab.current = tab[b].current
    BY CalmTab, ViewOf
  <1>2. /\ view.waits = wait[b] /\ view.tab.auth = tab[b].auth
        /\ view.tab.asked = tab[b].asked
    BY CalmTab DEF View, Tab
  <1>3. Sharing(view)
    BY SavedShares
  <1> HIDE DEF view
  <1>4. Checking(view, stored)
    <2> DEFINE old == View(b)
    <2>1. /\ old \in Views /\ Checking(old, stored) /\ expired \in Nat /\ stored \in Nat
          /\ old.tab = tab[b] /\ old.calls = call[b] /\ old.waits = wait[b]
      BY CalmTab
    <2> HIDE DEF old
    <2> QED
      BY <1>1, <1>2, <2>1, SavedChecking
  <1> QED
    BY <1>1, <1>2, <1>3, <1>4 DEF view

\* A token is at hand where a session has not ended.
LEMMA Unended ==
  ASSUME NEW b \in Tabs, ~SessionEnded(b)
  PROVE  getToken(tab[b], stored) # 0
  BY DEF SessionEnded

\* The interceptor of a tab asks for a refresh.
LEMMA RequestCalm ==
  ASSUME IInv, RestTyped, RefreshInv, CalmInv, secure, NEW b \in Tabs, CanRefresh(View(b)),
         Becomes(b, refreshToken([View(b) EXCEPT !.tab.saved = getToken(tab[b], stored)],
                                 {"request"}, 1, stored, cookie)),
         UNCHANGED <<server, expired, cookie, stored>>,
         exit' = exit \/ (~Idle(b) /\ \A c \in Tabs \ {b} : exit'[c] = exit[c])
  PROVE  CalmInv' /\ \A c \in Tabs : Unforced(c)
  <1> DEFINE view == [View(b) EXCEPT !.tab.saved = getToken(tab[b], stored)]
             next == refreshToken(view, {"request"}, 1, stored, cookie)
  <1>1. getToken(tab[b], stored) \in Nat /\ getToken(tab[b], stored) \in {tab[b].saved, stored}
    BY TokenTyped, CalmTab
  <1>2. /\ view \in Views /\ Sharing(view) /\ Checking(view, stored)
        /\ view.calls = call[b] /\ view.tab.current = tab[b].current
        /\ view.tab.auth = tab[b].auth
    BY <1>1, TokenRead
  <1> HIDE DEF view
  <1>3. CanRefresh(view)
    BY <1>2, CalmTab DEF CanRefresh
  <1>4. Follows(view, {}, stored, next)
    BY <1>2, <1>3, CalmTab, RefreshTokenFollows
  <1>5. Checking(next, stored) /\ next.tab.auth = view.tab.auth
    <2>1. /\ Ready(view)
          /\ \A s \in Slots : view.calls[s].phase = "queued"
               => stored \in {0, view.calls[s].before} \/ stored > expired
      BY <1>2 DEF Checking
    <2> QED
      BY <1>2, <1>3, <2>1, CalmTab, RefreshTokenChecking
  <1> HIDE DEF next
  <1>6. Becomes(b, next)
    BY DEF next, view
  <1>7. \/ ~tab[b].auth \/ SessionEnded(b) \/ ~Idle(b)
        \/ next.tab.auth /\ Idle(b)'
    BY <1>2, <1>5 DEF Idle
  <1> QED
    BY <1>2, <1>4, <1>5, <1>6, <1>7, StartsCalm

\* A tab joins or starts a refresh with the token it has.
LEMMA RenewCalm ==
  ASSUME IInv, RestTyped, RefreshInv, CalmInv, secure, NEW b \in Tabs, CanRefresh(View(b)),
         NEW callers, NEW attempt \in {1, 2},
         Becomes(b, refreshToken(View(b), callers, attempt, stored, cookie)),
         UNCHANGED <<server, expired, cookie, stored, exit>>
  PROVE  CalmInv' /\ \A c \in Tabs : Unforced(c)
  <1> DEFINE next == refreshToken(View(b), callers, attempt, stored, cookie)
  <1>1. Follows(View(b), {}, stored, next)
    BY CalmTab, RefreshTokenFollows
  <1>2. Checking(next, stored) /\ next.tab.auth = View(b).tab.auth
    <2> DEFINE view == View(b)
    <2>1. /\ view \in Views /\ Checking(view, stored) /\ stored \in Nat /\ CanRefresh(view)
      BY CalmTab
    <2> HIDE DEF view
    <2>2. /\ Ready(view)
          /\ \A s \in Slots : view.calls[s].phase = "queued"
               => stored \in {0, view.calls[s].before} \/ stored > expired
      BY <2>1 DEF Checking
    <2>3. /\ Checking(refreshToken(view, callers, attempt, stored, cookie), stored)
          /\ refreshToken(view, callers, attempt, stored, cookie).tab.auth = view.tab.auth
      BY <2>1, <2>2, RefreshTokenChecking
    <2> QED
      BY <2>3 DEF view
  <1> HIDE DEF next
  <1>3. Becomes(b, next)
    BY DEF next
  <1>4. \/ ~tab[b].auth \/ SessionEnded(b) \/ ~Idle(b)
        \/ next.tab.auth /\ Idle(b)'
    BY <1>2, CalmTab DEF Idle
  <1> QED
    BY <1>1, <1>2, <1>3, <1>4, CalmTab, StartsCalm

\* A tab checks its sign-in.
LEMMA CheckCalm ==
  ASSUME IInv, RestTyped, RefreshInv, CalmInv, secure, NEW b \in Tabs,
         Becomes(b, checkAuth(View(b), stored, cookie)),
         UNCHANGED <<server, expired, cookie, stored>>,
         exit' = exit \/ (~Idle(b) /\ \A c \in Tabs \ {b} : exit'[c] = exit[c])
  PROVE  CalmInv' /\ \A c \in Tabs : Unforced(c)
  <1> DEFINE view == View(b)
             next == checkAuth(view, stored, cookie)
  <1>1. /\ view \in Views /\ Checking(view, stored) /\ stored \in Nat /\ expired \in Nat
        /\ cookie \in Nat /\ Sharing(view) /\ view.tab = tab[b] /\ view.calls = call[b]
    BY CalmTab
  <1> HIDE DEF view
  <1>2. Follows(view, {}, stored, next)
    BY <1>1, CheckAuthFollows
  <1>3. /\ Checking(next, stored)
        /\ getToken(view.tab, stored) # 0 /\ view.tab.auth => next.tab.auth
    BY <1>1, CheckAuthChecking
  <1> HIDE DEF next
  <1>4. Becomes(b, next)
    BY DEF next, view
  <1>5. \/ ~tab[b].auth \/ SessionEnded(b) \/ ~Idle(b)
        \/ next.tab.auth /\ Idle(b)'
    BY <1>1, <1>3, Unended DEF Idle
  <1> QED
    BY <1>1, <1>2, <1>3, <1>4, <1>5, StartsCalm

\* A request goes out, or the server works on it: it is the only one.
LEMMA SentCalm ==
  ASSUME RefreshInv, secure, NEW b \in Tabs, NEW s \in Slots, NEW k, Sent(k),
         Sent(call[b][s]) \/ lock = Nobody,
         call' = [call EXCEPT ![b] = [call[b] EXCEPT ![s] = k]],
         k.phase \in {"posted", "found"} =>
            /\ cookie' \in {0, k.cookie}
            /\ k.cookie = 0 \/ session'[issued'[k.cookie].session] \in {0, k.cookie},
         k.phase = "granted" =>
            /\ k.token = 0 \/ session'[issued'[k.token].session] \in {0, k.token}
            /\ k.token > expired',
         k.phase = "refused" => cookie' = 0 \/ session'[issued'[cookie'].session] = 0
  PROVE  RequestInv'
  <1>1. /\ call'[b][s] = k
        /\ \A c \in Tabs, r \in Slots : c # b \/ r # s => call'[c][r] = call[c][r]
    BY DEF RefreshInv, TabsTyped
  <1>2. ASSUME NEW c \in Tabs, NEW r \in Slots, Sent(call[c][r]) PROVE c = b /\ r = s
    <2>1. lock = <<c, r>>
      BY <1>2 DEF RefreshInv, LockInv
    <2>2. lock # Nobody
      BY <2>1, SlotsAssumption
    <2>3. lock = <<b, s>>
      BY <2>2 DEF RefreshInv, LockInv
    <2> QED
      BY <2>1, <2>3
  <1>3. ~NoneSent'
    BY <1>1 DEF NoneSent
  <1>4. ASSUME NEW c \in Tabs, NEW r \in Slots, c # b \/ r # s
        PROVE  call'[c][r].phase \in {"none", "queued"}
    BY <1>1, <1>2, <1>4 DEF Sent
  <1>5. ASSUME NEW c \in Tabs, NEW r \in Slots, NEW d, d = call'[c][r]
        PROVE  /\ d.phase \in {"posted", "found"} =>
                    /\ cookie' \in {0, d.cookie}
                    /\ d.cookie = 0 \/ session'[issued'[d.cookie].session] \in {0, d.cookie}
               /\ d.phase = "granted" =>
                    /\ d.token = 0 \/ session'[issued'[d.token].session] \in {0, d.token}
                    /\ d.token > expired'
               /\ d.phase = "refused" =>
                    cookie' = 0 \/ session'[issued'[cookie'].session] = 0
    <2>1. CASE c = b /\ r = s
      BY <1>1, <1>5, <2>1
    <2>2. CASE c # b \/ r # s
      BY <1>4, <1>5, <2>2
    <2> QED
      BY <2>1, <2>2
  <1> QED
    BY <1>3, <1>5 DEF RequestInv, Live, SessionOf

\* It changes no check.
LEMMA SentChecks ==
  ASSUME IInv, RestTyped, RefreshInv, CalmInv, NEW b \in Tabs, NEW s \in Slots, NEW k,
         k.phase # "queued", k.outdated = call[b][s].outdated,
         call' = [call EXCEPT ![b] = [call[b] EXCEPT ![s] = k]],
         UNCHANGED <<expired, stored, tab, wait, exit>>
  PROVE  CheckInv' /\ \A c \in Tabs : Unforced(c)
  <1>1. /\ call'[b][s] = k
        /\ \A c \in Tabs, r \in Slots : c # b \/ r # s => call'[c][r] = call[c][r]
    BY DEF RefreshInv, TabsTyped
  <1>2. ASSUME NEW c \in Tabs PROVE Checking(View(c), stored)'
    <2> DEFINE old == View(c)
    <2>1. /\ old \in Views /\ Checking(old, stored)
          /\ old.tab = tab[c] /\ old.calls = call[c] /\ old.waits = wait[c]
      BY CalmTab
    <2> HIDE DEF old
    <2>2. View(c)'.tab = tab[c] /\ View(c)'.calls = call'[c] /\ View(c)'.waits = wait[c]
      BY DEF View
    <2>3. tab[c].current \in Slots \cup {NoSlot}
          /\ wait[c]["check"].slot \in Slots \cup {NoSlot}
      <3>1. old.tab \in Tab /\ old.waits["check"] \in Wait
        BY <2>1 DEF Views, Callers
      <3> QED
        BY <2>1, <3>1 DEF Tab, Wait
    <2>4. \A r \in Slots : /\ call'[c][r].outdated = call[c][r].outdated
                           /\ call'[c][r].phase = "queued" => call'[c][r] = call[c][r]
      BY <1>1
    <2>5. /\ tab[c].asked <= expired
          /\ tab[c].current # NoSlot => ~call'[c][tab[c].current].outdated
      BY <2>1, <2>3, <2>4 DEF Checking, Ready
    <2>6. wait[c]["check"].slot # NoSlot /\ call'[c][wait[c]["check"].slot].outdated
             => Newer(tab[c].saved, tab[c].asked) /\ Newer(stored, tab[c].asked)
      BY <2>1, <2>3, <2>4 DEF Checking
    <2>7. \A r \in Slots : call'[c][r].phase = "queued"
             => stored \in {0, call'[c][r].before} \/ stored > expired
      BY <2>1, <2>4 DEF Checking
    <2> QED
      BY <2>2, <2>5, <2>6, <2>7 DEF Checking, Ready, Newer
  <1>3. ASSUME NEW c \in Tabs PROVE Unforced(c)
    BY DEF Unforced, Idle
  <1> QED
    BY <1>2, <1>3 DEF CheckInv

\* Nothing is out while the lock is free.
LEMMA LockFree ==
  ASSUME RefreshInv, secure, lock = Nobody
  PROVE  NoneSent
  BY SlotsAssumption DEF RefreshInv, LockInv, NoneSent

\* The lock is granted.
LEMMA RunUnderLockCalm ==
  ASSUME IInv, RestTyped, RefreshInv, CalmInv, secure, NEW b \in Tabs, NEW s \in Slots,
         RunUnderLock(b, s)
  PROVE  CalmInv' /\ \A c \in Tabs : Unforced(c)
  <1>1. /\ lock = Nobody /\ call[b][s].phase = "queued" /\ UNCHANGED <<server, expired, exit>>
        /\ expired \in Nat /\ stored \in Nat /\ cookie \in Nat /\ tab[b].asked \in Nat
        /\ tab[b].asked <= expired
    BY CalmTab DEF RunUnderLock, Tab, Token
  <1>2. \A r \in {s} : ~Sent(call[b][r])
    BY <1>1 DEF Sent
  <1>3. CASE call[b][s].outdated
    <2> DEFINE view == View(b)
    <2>1. PICK throttled \in BOOLEAN :
            Becomes(b, Resolved(view, s, stored, cookie, throttled))
      BY <1>3 DEF RunUnderLock
    <2>2. UNCHANGED <<cookie, stored>>
      BY <1>3 DEF RunUnderLock, browser
    <2>3. /\ view \in Views /\ Sharing(view) /\ Checking(view, stored)
          /\ view.tab = tab[b] /\ view.calls = call[b]
      BY CalmTab
    <2> HIDE DEF view
    <2> DEFINE next == Resolved(view, s, stored, cookie, throttled)
    <2>4. Follows(view, {s}, stored, next)
      BY <1>1, <2>3, ResolvedFollows
    <2>5. /\ Checking(next, stored)
          /\ view.tab.auth /\ getToken(view.tab, stored) # 0
               /\ (view.waits["check"].slot = s
                     => getToken(view.tab, stored) > view.tab.asked)
               => next.tab.auth
      BY <1>1, <2>3, ResolvedChecking
    <2>6. view.waits["check"].slot = s /\ getToken(view.tab, stored) # 0
            => getToken(view.tab, stored) > view.tab.asked
      <3>1. s # NoSlot /\ view.calls[s].outdated
        BY <1>3, <2>3, SlotsAssumption
      <3> QED
        BY <2>3, <3>1 DEF Checking, Newer, getToken
    <2> HIDE DEF next
    <2>7. Becomes(b, next)
      BY <2>1 DEF next
    <2>8. \/ ~tab[b].auth \/ SessionEnded(b) \/ ~Idle(b)
          \/ next.tab.auth /\ Idle(b)'
      BY <1>1, <2>3, <2>5, <2>6, Unended DEF Idle
    <2> QED
      BY <1>1, <1>2, <2>2, <2>3, <2>4, <2>5, <2>7, <2>8, StartsCalm
  <1>4. CASE ~call[b][s].outdated /\ stored \notin {0, call[b][s].before}
    <2> DEFINE view == [View(b) EXCEPT !.tab.saved = stored]
    <2>1. PICK throttled \in BOOLEAN :
            Becomes(b, Resolved(view, s, stored, cookie, throttled))
      BY <1>4 DEF RunUnderLock
    <2>2. UNCHANGED <<cookie, stored>>
      BY <1>4 DEF RunUnderLock, browser
    <2>3. /\ view \in Views /\ Sharing(view) /\ Checking(view, stored)
          /\ view.calls = call[b] /\ view.tab.saved = stored
          /\ view.tab.auth = tab[b].auth /\ view.tab.asked = tab[b].asked
      BY <1>1, TokenRead
    <2> HIDE DEF view
    <2> DEFINE next == Resolved(view, s, stored, cookie, throttled)
    <2>4. Follows(view, {s}, stored, next)
      BY <1>1, <2>3, ResolvedFollows
    <2>5. /\ Checking(next, stored)
          /\ view.tab.auth /\ getToken(view.tab, stored) # 0
               /\ (view.waits["check"].slot = s
                     => getToken(view.tab, stored) > view.tab.asked)
               => next.tab.auth
      BY <1>1, <2>3, ResolvedChecking
    <2>6. stored > expired /\ getToken(view.tab, stored) = stored
      BY <1>1, <1>4, <2>3 DEF Checking, getToken
    <2> HIDE DEF next
    <2>7. Becomes(b, next)
      BY <2>1 DEF next
    <2>8. \/ ~tab[b].auth \/ SessionEnded(b) \/ ~Idle(b)
          \/ next.tab.auth /\ Idle(b)'
      BY <1>1, <1>4, <2>3, <2>5, <2>6 DEF Idle
    <2> QED
      BY <1>1, <1>2, <2>2, <2>3, <2>4, <2>5, <2>7, <2>8, StartsCalm
  <1>5. CASE ~call[b][s].outdated /\ stored \in {0, call[b][s].before}
    <2> DEFINE k == [NoCall EXCEPT !.phase = "posted", !.cookie = cookie]
    <2>1. /\ k.phase = "posted" /\ k.outdated = FALSE /\ k.cookie = cookie
          /\ call[b][s].outdated = FALSE
      BY <1>5, TabSound DEF NoCall, Call, RestTyped
    <2>2. /\ call' = [call EXCEPT ![b] = [call[b] EXCEPT ![s] = k]]
          /\ UNCHANGED <<cookie, stored, tab, wait>>
      BY <1>5 DEF RunUnderLock, Posts
    <2> HIDE DEF k
    <2>3. Live(cookie)
      BY <1>1, LockFree DEF CalmInv, RequestInv
    <2>4. RequestInv'
      BY <1>1, <2>1, <2>2, <2>3, SentCalm DEF Sent, Live, SessionOf, server
    <2>5. CheckInv' /\ \A c \in Tabs : Unforced(c)
      BY <1>1, <2>1, <2>2, SentChecks
    <2> QED
      BY <2>4, <2>5 DEF CalmInv
  <1> QED
    BY <1>3, <1>4, <1>5

\* The server answers: what it grants or refuses is on record.
LEMMA AnsweredCalm ==
  ASSUME IInv, RestTyped, RefreshInv, CalmInv, secure, NEW b \in Tabs, NEW s \in Slots,
         UNCHANGED <<expired, cookie, stored, tab, wait, exit>>,
         Sent(call[b][s]), NEW n \in Nat, Answered(b, s, n),
         n # 0 => session'[issued'[n].session] = n /\ n > expired,
         n = 0 => cookie = 0 \/ session'[issued'[cookie].session] = 0
  PROVE  CalmInv' /\ \A c \in Tabs : Unforced(c)
  <1> DEFINE p == IF n = 0 THEN "refused" ELSE "granted"
             k == [call[b][s] EXCEPT !.phase = p, !.cookie = 0, !.token = n]
  <1>1. UNCHANGED <<expired, cookie, stored, tab, wait, exit>>
    OBVIOUS
  <1>2. call' = [call EXCEPT ![b] = [call[b] EXCEPT ![s] = k]]
    BY DEF Answered, RefreshInv, TabsTyped
  <1>3. p \in {"refused", "granted"} /\ (p = "refused" <=> n = 0)
    OBVIOUS
  <1> HIDE DEF p
  <1>4. k.phase = p /\ k.token = n /\ k.outdated = call[b][s].outdated
    BY DEF RefreshInv, TabsTyped, Call
  <1> HIDE DEF k
  <1>5. RequestInv'
    BY <1>1, <1>2, <1>3, <1>4, SentCalm DEF Sent
  <1>6. CheckInv' /\ \A c \in Tabs : Unforced(c)
    BY <1>1, <1>2, <1>3, <1>4, SentChecks
  <1> QED
    BY <1>5, <1>6 DEF CalmInv

\* The server finds the session of a refresh token, unless the session has ended.
LEMMA GetSessionCalm ==
  ASSUME IInv, RestTyped, RefreshInv, CalmInv, secure, NEW b \in Tabs, NEW s \in Slots,
         GetSessionByRefreshToken(b, s)
  PROVE  CalmInv' /\ \A c \in Tabs : Unforced(c)
  <1> DEFINE d == call[b][s].cookie
             k == [call[b][s] EXCEPT !.phase = "found"]
  <1>1. /\ UNCHANGED <<secure, expired, cookie, stored, tab, wait, exit, session, issued>>
        /\ call[b][s].phase = "posted"
    BY DEF GetSessionByRefreshToken, ServerStep, browser, server
  <1>2. cookie \in {0, d} /\ Live(d)
    BY <1>1 DEF CalmInv, RequestInv
  <1>3. CASE d # 0 /\ session[SessionOf(d)] = d
    <2>1. call' = [call EXCEPT ![b] = [call[b] EXCEPT ![s] = k]]
      BY <1>3 DEF GetSessionByRefreshToken
    <2>2. k.phase = "found" /\ k.cookie = d /\ k.outdated = call[b][s].outdated
      BY DEF RefreshInv, TabsTyped, Call
    <2> HIDE DEF k
    <2>3. RequestInv'
      BY <1>1, <1>2, <2>1, <2>2, SentCalm DEF Sent, Live, SessionOf
    <2>4. CheckInv' /\ \A c \in Tabs : Unforced(c)
      BY <1>1, <2>1, <2>2, SentChecks
    <2> QED
      BY <2>3, <2>4 DEF CalmInv
  <1>4. CASE ~ (d # 0 /\ session[SessionOf(d)] = d)
    <2>1. Answered(b, s, 0)
      BY <1>4 DEF GetSessionByRefreshToken
    <2>2. cookie = 0 \/ session'[issued'[cookie].session] = 0
      BY <1>1, <1>2, <1>4 DEF Live, SessionOf
    <2> QED
      BY <1>1, <2>1, <2>2, AnsweredCalm DEF Sent
  <1> QED
    BY <1>3, <1>4

\* It replaces the token it found, unless the session has ended.
LEMMA RotateCalm ==
  ASSUME IInv, RestTyped, RefreshInv, CalmInv, secure, NEW b \in Tabs, NEW s \in Slots,
         RotateRefreshToken(b, s)
  PROVE  CalmInv' /\ \A c \in Tabs : Unforced(c)
  <1> DEFINE d == call[b][s].cookie
             n == Len(issued) + 1
  <1>1. call[b][s].phase = "found" /\ UNCHANGED <<expired, cookie, stored, tab, wait, exit>>
    BY DEF RotateRefreshToken, ServerStep, browser
  <1>2. cookie \in {0, d} /\ Live(d) /\ d # 0 /\ d \in 0..Len(issued)
    BY <1>1 DEF CalmInv, RequestInv, IInv, AllIssued, CallUpTo
  <1>3. /\ Len(issued) \in Nat /\ expired \in 0..Len(issued) /\ DOMAIN issued = 1..Len(issued)
        /\ issued \in Seq([session: Sessions, from: Nat]) /\ session \in [Sessions -> Nat]
    BY AtHand DEF RestTyped, IInv, AllIssued
  <1>4. CASE session[SessionOf(d)] = d
    <2>1. /\ issued' = Append(issued, [session |-> SessionOf(d), from |-> d])
          /\ session' = [session EXCEPT ![SessionOf(d)] = n] /\ Answered(b, s, n)
      BY <1>4 DEF RotateRefreshToken
    <2>2. SessionOf(d) \in Sessions
      <3>1. d \in DOMAIN issued
        BY <1>2, <1>3
      <3> QED
        BY <3>1, Entry DEF SessionOf
    <2>3. n \in Nat /\ n # 0 /\ n > expired
      BY <1>3
    <2>4. issued'[n].session = SessionOf(d)
      <3> DEFINE e == [session |-> SessionOf(d), from |-> d]
      <3>1. Append(issued, e)[Len(issued) + 1] = e /\ e.session = SessionOf(d)
        BY <1>3
      <3> QED
        BY <2>1, <3>1
    <2>5. session'[SessionOf(d)] = n
      BY <1>3, <2>1, <2>2
    <2> HIDE DEF n, d
    <2> QED
      BY <1>1, <2>1, <2>3, <2>4, <2>5, AnsweredCalm DEF Sent
  <1>5. CASE session[SessionOf(d)] # d
    <2>1. Answered(b, s, 0) /\ UNCHANGED <<session, issued>>
      BY <1>5 DEF RotateRefreshToken, server
    <2>2. cookie = 0 \/ session'[issued'[cookie].session] = 0
      BY <1>2, <1>5, <2>1 DEF Live, SessionOf
    <2> QED
      BY <1>1, <2>1, <2>2, AnsweredCalm DEF Sent
  <1> QED
    BY <1>4, <1>5

\* It ends the session instead.
LEMMA SessionExpiresCalm ==
  ASSUME IInv, RestTyped, RefreshInv, CalmInv, secure, NEW b \in Tabs, NEW s \in Slots,
         SessionExpires(b, s)
  PROVE  CalmInv' /\ \A c \in Tabs : Unforced(c)
  <1> DEFINE d == call[b][s].cookie
  <1>1. /\ call[b][s].phase = "found" /\ EndSession(d) /\ Answered(b, s, 0)
        /\ UNCHANGED <<issued, expired, cookie, stored, tab, wait, exit>>
    BY DEF SessionExpires, browser
  <1>2. cookie \in {0, d} /\ d \in 1..Len(issued) /\ DOMAIN issued = 1..Len(issued)
    <2>1. cookie \in {0, d} /\ d # 0 /\ d \in 0..Len(issued) /\ Len(issued) \in Nat
      BY <1>1, AtHand DEF CalmInv, RequestInv, IInv, AllIssued, CallUpTo
    <2> QED
      BY <2>1 DEF IInv, AllIssued
  <1>3. SessionOf(d) \in Sessions
    BY <1>2, Entry DEF SessionOf
  <1>4. cookie = 0 \/ session'[issued'[cookie].session] = 0
    BY <1>1, <1>2, <1>3 DEF EndSession, SessionOf, IInv, AllIssued
  <1> QED
    BY <1>1, <1>4, AnsweredCalm DEF Sent

\* When the request that was out has ended, none is.
LEMMA NoneAfter ==
  ASSUME RefreshInv, secure, NEW b \in Tabs, NEW s \in Slots, Sent(call[b][s]),
         NEW view, view.calls = call[b], NEW storage, NEW next,
         Follows(view, {s}, storage, next), Becomes(b, next)
  PROVE  NoneSent'
  <1>1. call'[b] = next.calls /\ \A c \in Tabs \ {b} : call'[c] = call[c]
    BY BecomesTyped DEF RefreshInv, Follows
  <1>2. ASSUME NEW c \in Tabs, NEW r \in Slots, Sent(call'[c][r]) PROVE FALSE
    <2>1. Sent(call[c][r]) /\ (c = b => r # s)
      BY <1>1, <1>2 DEF Follows, Keeps
    <2>2. lock = <<b, s>> /\ lock = <<c, r>>
      BY <2>1 DEF RefreshInv, LockInv
    <2> QED
      BY <2>1, <2>2
  <1> QED
    BY <1>2 DEF NoneSent

\* The new token arrives.
LEMMA GrantedCalm ==
  ASSUME IInv, RestTyped, RefreshInv, CalmInv, secure, NEW b \in Tabs, NEW s \in Slots,
         RefreshGranted(b, s)
  PROVE  CalmInv' /\ \A c \in Tabs : Unforced(c)
  <1> DEFINE n == call[b][s].token
             kept == ~call[b][s].outdated
             view == IF kept THEN [View(b) EXCEPT !.tab.saved = n] ELSE View(b)
  <1>1. /\ call[b][s].phase = "granted" /\ Sent(call[b][s]) /\ n \in Nat
        /\ UNCHANGED <<server, expired, exit>>
        /\ cookie' = n /\ stored' = IF kept THEN n ELSE stored
    BY DEF RefreshGranted, Sent, RefreshInv, TabsTyped, Call, Token
  <1>2. PICK throttled \in BOOLEAN :
          Becomes(b, Resolved(view, s, stored', cookie', throttled))
    BY DEF RefreshGranted
  <1>3. Live(n) /\ n > expired
    BY <1>1 DEF CalmInv, RequestInv
  <1>4. /\ expired \in Nat /\ stored \in Nat /\ tab[b].asked \in Nat /\ tab[b].asked <= expired
        /\ View(b) \in Views /\ Sharing(View(b)) /\ Checking(View(b), stored)
        /\ View(b).tab = tab[b] /\ View(b).calls = call[b]
    BY CalmTab DEF Tab, Token
  <1>5. stored' \in Nat /\ cookie' \in Nat /\ (stored' = stored \/ stored' > expired)
    BY <1>1, <1>3, <1>4
  <1>6. /\ view \in Views /\ Sharing(view) /\ Checking(view, stored) /\ view.calls = call[b]
        /\ view.tab.auth = tab[b].auth /\ view.tab.asked = tab[b].asked
        /\ view.tab.saved = IF kept THEN n ELSE tab[b].saved
    BY <1>1, <1>3, <1>4, TokenRead
  <1> HIDE DEF view
  <1>7. Checking(view, stored')
    BY <1>4, <1>5, <1>6, StorageChecking
  <1> DEFINE next == Resolved(view, s, stored', cookie', throttled)
  <1>8. Follows(view, {s}, stored', next)
    BY <1>4, <1>5, <1>6, ResolvedFollows
  <1>9. /\ Checking(next, stored')
        /\ view.tab.auth /\ getToken(view.tab, stored') # 0
             /\ (view.waits["check"].slot = s
                   => getToken(view.tab, stored') > view.tab.asked)
             => next.tab.auth
    BY <1>4, <1>5, <1>6, <1>7, ResolvedChecking
  <1>10. ASSUME ~SessionEnded(b)
         PROVE  /\ getToken(view.tab, stored') # 0
                /\ view.waits["check"].slot = s
                     => getToken(view.tab, stored') > view.tab.asked
    <2>1. CASE kept
      BY <1>1, <1>3, <1>4, <1>6, <2>1 DEF getToken
    <2>2. CASE ~kept
      <3>1. getToken(view.tab, stored') # 0
        BY <1>1, <1>6, <1>10, <2>2, Unended DEF getToken
      <3>2. s # NoSlot /\ view.calls[s].outdated
        BY <1>6, <2>2, SlotsAssumption
      <3> QED
        BY <1>7, <3>1, <3>2 DEF Checking, Newer, getToken
    <2> QED
      BY <2>1, <2>2
  <1> HIDE DEF next
  <1>11. Becomes(b, next)
    BY <1>2 DEF next
  <1>12. NoneSent'
    BY <1>1, <1>6, <1>8, <1>11, NoneAfter
  <1>13. \/ ~tab[b].auth \/ SessionEnded(b) \/ ~Idle(b)
         \/ LogoutStart(b) \/ CloseTab(b)
         \/ next.tab.auth /\ Idle(b)'
    BY <1>1, <1>6, <1>9, <1>10 DEF Idle
  <1>14. Live(cookie')
    BY <1>1, <1>3
  <1> HIDE DEF n, kept
  <1> QED
    BY <1>1, <1>5, <1>6, <1>8, <1>9, <1>11, <1>12, <1>13, <1>14, FollowsCalm

\* A refusal says that the session has ended.
LEMMA RefusedCalm ==
  ASSUME IInv, RestTyped, RefreshInv, CalmInv, secure, NEW b \in Tabs, NEW s \in Slots,
         RefreshRefused(b, s)
  PROVE  CalmInv' /\ \A c \in Tabs : Unforced(c)
  <1> DEFINE view == View(b)
             rejected == Rejected(view, s, stored, cookie)
             left == [rejected EXCEPT !.tab.user = FALSE]
  <1>1. /\ call[b][s].phase = "refused" /\ Sent(call[b][s])
        /\ UNCHANGED <<server, expired, cookie, stored>>
        /\ Becomes(b, rejected) \/ Becomes(b, left)
        /\ \E e : exit' = [exit EXCEPT ![b] = e]
    BY DEF RefreshRefused, RefreshFailed, Sent
  <1>2. /\ view \in Views /\ Checking(view, stored) /\ stored \in Nat /\ expired \in Nat
        /\ cookie \in Nat /\ Sharing(view) /\ view.calls = call[b]
    BY CalmTab
  <1> HIDE DEF view
  <1>3. cookie = 0 \/ session[SessionOf(cookie)] = 0
    BY <1>1 DEF CalmInv, RequestInv
  <1>4. SessionEnded(b) /\ Live(cookie)
    BY <1>3 DEF SessionEnded, Live
  <1>r. Follows(view, {s}, stored, rejected) /\ Checking(rejected, stored)
    BY <1>2, RejectedFollows, RejectedChecking
  <1> HIDE DEF rejected
  <1>u. /\ Follows(rejected, {}, stored, left) /\ left.calls = rejected.calls
        /\ left.waits = rejected.waits /\ left.tab.saved = rejected.tab.saved
        /\ left.tab.asked = rejected.tab.asked /\ left.tab.current = rejected.tab.current
    BY <1>r, UserFollows DEF Follows
  <1> HIDE DEF left
  <1>l. Follows(view, {s}, stored, left) /\ Checking(left, stored)
    BY <1>r, <1>u, FollowsOn DEF Checking, Ready
  <1>5. PICK next \in {rejected, left} : Becomes(b, next)
    BY <1>1
  <1>6. Follows(view, {s}, stored, next) /\ Checking(next, stored)
    BY <1>5, <1>r, <1>l
  <1>7. NoneSent'
    BY <1>1, <1>2, <1>5, <1>6, NoneAfter
  <1>8. \A c \in Tabs \ {b} : exit'[c] = exit[c]
    BY <1>1 DEF RestTyped
  <1>9. /\ Checking(next, stored') /\ stored' \in Nat
        /\ stored' \in {0, stored} \/ stored' > expired
        /\ cookie' \in {0, cookie} \/ NoneSent'
        /\ NoneSent' => Live(cookie')
    BY <1>1, <1>2, <1>4, <1>6
  <1> QED
    BY <1>1, <1>2, <1>4, <1>5, <1>6, <1>8, <1>9, FollowsCalm

\* Requests are as before when neither they nor the tokens change.
LEMMA RequestsStay ==
  ASSUME RequestInv, UNCHANGED <<session, issued, expired, cookie, call>>
  PROVE  RequestInv'
  BY DEF RequestInv, NoneSent, Live, SessionOf

\* The tabs are as before, but for what plays no part in a check.
LEMMA ChecksStay ==
  ASSUME IInv, RestTyped, RefreshInv, CalmInv, UNCHANGED <<expired, stored, call, wait>>,
         \A c \in Tabs : /\ tab'[c].saved \in {tab[c].saved, stored}
                         /\ tab'[c].asked = tab[c].asked
                         /\ tab'[c].current = tab[c].current,
         \A c \in Tabs : \/ exit'[c] = exit[c] /\ (tab[c].auth => tab'[c].auth)
                         \/ ~Idle(c) \/ LogoutStart(c) \/ SessionEnded(c)
  PROVE  CheckInv' /\ \A c \in Tabs : Unforced(c)
  <1>1. ASSUME NEW c \in Tabs PROVE Checking(View(c), stored)'
    <2> DEFINE old == View(c)
    <2>1. /\ Checking(old, stored)
          /\ old.tab = tab[c] /\ old.calls = call[c] /\ old.waits = wait[c]
      BY CalmTab
    <2> HIDE DEF old
    <2>2. View(c)'.tab = tab'[c] /\ View(c)'.calls = call[c] /\ View(c)'.waits = wait[c]
      BY DEF View
    <2> QED
      BY <2>1, <2>2 DEF Checking, Ready, Newer
  <1>2. ASSUME NEW c \in Tabs PROVE Unforced(c)
    BY DEF Unforced, Idle
  <1> QED
    BY <1>1, <1>2 DEF CheckInv

\* What is on record of a session stays when another ends.
LEMMA LiveStays ==
  ASSUME IInv, NEW n, EndSession(n), UNCHANGED issued, NEW m \in 0..Len(issued), m # 0
  PROVE  session'[issued'[m].session] \in {0, session[SessionOf(m)]}
  <1>1. m \in DOMAIN issued
    BY AtHand DEF IInv, AllIssued
  <1>2. SessionOf(m) \in Sessions
    BY <1>1, Entry DEF SessionOf
  <1> QED
    BY <1>2 DEF EndSession, SessionOf, IInv, AllIssued

\* The server ends a session.
LEMMA EndCalm ==
  ASSUME IInv, RestTyped, RefreshInv, CalmInv, NEW n, EndSession(n),
         UNCHANGED <<issued, expired, cookie, stored, tab, call, wait>>,
         \A c \in Tabs : exit'[c] = exit[c] \/ ~Idle(c)
  PROVE  CalmInv' /\ \A c \in Tabs : Unforced(c)
  <1>1. CheckInv' /\ \A c \in Tabs : Unforced(c)
    BY ChecksStay
  <1>2. ASSUME NEW m \in 0..Len(issued), Live(m)
        PROVE  m = 0 \/ session'[issued'[m].session] \in {0, m}
    BY <1>2, LiveStays DEF Live
  <1>3. cookie \in 0..Len(issued)
    BY DEF IInv, AllIssued
  <1>4. NoneSent => cookie = 0 \/ session'[issued'[cookie].session] \in {0, cookie}
    BY <1>2, <1>3 DEF CalmInv, RequestInv
  <1>5. ASSUME NEW c \in Tabs, NEW s \in Slots, NEW k, k = call[c][s]
        PROVE  /\ k.phase \in {"posted", "found"} =>
                    /\ cookie \in {0, k.cookie}
                    /\ k.cookie = 0 \/ session'[issued'[k.cookie].session] \in {0, k.cookie}
               /\ k.phase = "granted" =>
                    /\ k.token = 0 \/ session'[issued'[k.token].session] \in {0, k.token}
                    /\ k.token > expired
               /\ k.phase = "refused" =>
                    cookie = 0 \/ session'[issued'[cookie].session] = 0
    <2>1. k.cookie \in 0..Len(issued) /\ k.token \in 0..Len(issued)
      BY <1>5 DEF IInv, AllIssued, CallUpTo
    <2>2. /\ k.phase \in {"posted", "found"} => cookie \in {0, k.cookie} /\ Live(k.cookie)
          /\ k.phase = "granted" => Live(k.token) /\ k.token > expired
          /\ k.phase = "refused" => cookie = 0 \/ session[SessionOf(cookie)] = 0
      BY <1>5 DEF CalmInv, RequestInv
    <2>3. k.phase = "refused" => cookie = 0 \/ session'[issued'[cookie].session] = 0
      BY <1>3, <2>2, LiveStays
    <2> QED
      BY <1>2, <2>1, <2>2, <2>3
  <1>6. RequestInv'
    BY <1>4, <1>5 DEF RequestInv, NoneSent, Live, SessionOf
  <1> QED
    BY <1>1, <1>6 DEF CalmInv

\* A door that is not vacant.
LEMMA Busy ==
  ASSUME RestTyped, NEW b \in Tabs, NEW d \in Doors, exit[b][d].phase # "none",
         NEW x, exit' = [exit EXCEPT ![b][d] = x]
  PROVE  ~Idle(b) /\ \A c \in Tabs \ {b} : exit'[c] = exit[c]
  BY DEF Idle, RestTyped

\* The logout is served, or repeated.
LEMMA LogoutCalm ==
  ASSUME IInv, RestTyped, RefreshInv, CalmInv, secure, NEW b \in Tabs, NEW d \in Doors,
         LogoutServed(b, d) \/ LogoutServedAgain(b, d)
  PROVE  CalmInv' /\ \A c \in Tabs : Unforced(c)
  <1>1. /\ UNCHANGED <<issued, expired, cookie, stored>>
        /\ exit[b][d].phase # "none" /\ \E x : exit' = [exit EXCEPT ![b][d] = x]
    BY DEF LogoutServed, LogoutServedAgain, LogoutHandled, browser
  <1>2. ~Idle(b) /\ \A c \in Tabs \ {b} : exit'[c] = exit[c]
    BY <1>1, Busy
  <1>3. CASE (\E n : EndSession(n)) /\ UNCHANGED <<tab, call, wait>>
    BY <1>1, <1>2, <1>3, EndCalm
  <1>4. CASE UNCHANGED <<session, tab, call, wait>>
    BY <1>1, <1>2, <1>4, RequestsStay, ChecksStay DEF CalmInv
  <1>5. CASE UNCHANGED session /\ ~UNCHANGED <<tab, call, wait>>
    <2>1. /\ CanRefresh(View(b))
          /\ Becomes(b, refreshToken([View(b) EXCEPT !.tab.saved = getToken(tab[b], stored)],
                                     {"request"}, 1, stored, cookie))
      BY <1>5 DEF LogoutServed, LogoutServedAgain, LogoutHandled
    <2> QED
      BY <1>1, <1>2, <1>5, <2>1, RequestCalm DEF server
  <1> QED
    BY <1>3, <1>4, <1>5 DEF LogoutServed, LogoutServedAgain, LogoutHandled

\* A tab removes its tokens, when it has signed out or is about to sign in.
LEMMA RemovesCalm ==
  ASSUME IInv, RestTyped, RefreshInv, CalmInv, NEW b \in Tabs,
         LoginStart(b) \/ \E d \in Doors : LogoutDone(b, d)
  PROVE  CalmInv' /\ \A c \in Tabs : Unforced(c)
  <1> DEFINE view == View(b)
             removed == removeToken(view)
             out == [removed EXCEPT !.tab = SignedOut(@)]
  <1>1. /\ UNCHANGED <<server, expired>> /\ cookie' \in {0, cookie} /\ stored' = 0
        /\ Becomes(b, removed) \/ Becomes(b, out)
        /\ ~tab[b].auth \/ ~Idle(b)
        /\ \A c \in Tabs \ {b} : exit'[c] = exit[c]
    <2>1. CASE LoginStart(b)
      BY <2>1 DEF LoginStart, RestTyped
    <2>2. CASE \E d \in Doors : LogoutDone(b, d)
      <3>1. PICK d \in Doors : LogoutDone(b, d)
        BY <2>2
      <3>2. exit[b][d].phase # "none" /\ exit' = [exit EXCEPT ![b][d] = At("none")]
        BY <3>1 DEF LogoutDone
      <3>3. ~Idle(b) /\ \A c \in Tabs \ {b} : exit'[c] = exit[c]
        BY <3>2, Busy
      <3> QED
        BY <3>1, <3>3 DEF LogoutDone
    <2> QED
      BY <2>1, <2>2
  <1>2. /\ view \in Views /\ view.tab.asked <= expired /\ view.calls = call[b]
    BY CalmTab
  <1> HIDE DEF view
  <1>3. /\ removed \in Views /\ Sharing(removed) /\ Checking(removed, 0)
        /\ \A s \in Slots : /\ removed.calls[s].phase = call[b][s].phase
                            /\ removed.calls[s].cookie = call[b][s].cookie
                            /\ removed.calls[s].token = call[b][s].token
    BY <1>2, RemoveTokenFollows, RemoveTokenChecking
  <1> HIDE DEF removed
  <1>4. out \in Views /\ Checking(out, 0) /\ out.calls = removed.calls
    BY <1>3, OutFollows DEF Checking, Ready
  <1> HIDE DEF out
  <1>5. PICK next \in Views :
          /\ Becomes(b, next) /\ Checking(next, 0)
          /\ \A s \in Slots : /\ next.calls[s].phase = call[b][s].phase
                              /\ next.calls[s].cookie = call[b][s].cookie
                              /\ next.calls[s].token = call[b][s].token
    BY <1>1, <1>3, <1>4
  <1>6. CheckInv' /\ \A c \in Tabs : Unforced(c)
    <2>1. Checking(next, stored') /\ stored' \in Nat
      BY <1>1, <1>5
    <2> QED
      BY <1>1, <1>5, <2>1, ChecksCalm
  <1>7. call'[b] = next.calls /\ \A c \in Tabs \ {b} : call'[c] = call[c]
    BY <1>5, BecomesTyped DEF RefreshInv
  <1>8. NoneSent' => Live(cookie')
    <2> SUFFICES ASSUME NoneSent' PROVE Live(cookie')
      OBVIOUS
    <2>1. NoneSent
      BY <1>5, <1>7 DEF NoneSent, Sent
    <2> QED
      BY <1>1, <2>1 DEF CalmInv, RequestInv, Live
  <1>9. RequestInv'
    BY <1>1, <1>5, <1>7, <1>8, RequestsCalm DEF CalmInv
  <1> QED
    BY <1>6, <1>9 DEF CalmInv

\* Somebody signs in while no refresh is under way.
LEMMA LoginCalm ==
  ASSUME IInv, RestTyped, RefreshInv, CalmInv, NEW b \in Tabs,
         NEW d \in Doors, LoginDone(b, d), ~disturbed'
  PROVE  CalmInv' /\ \A c \in Tabs : Unforced(c)
  <1> DEFINE n == Len(issued) + 1
             t == AsksUser(tab[b], n)
             next == [View(b) EXCEPT !.tab = t]
  <1>1. PICK i \in NextSession :
          /\ issued' = Append(issued, [session |-> i, from |-> 0])
          /\ session' = [session EXCEPT ![i] = n]
    BY DEF LoginDone
  <1>2. /\ cookie' = n /\ stored' = n /\ tab' = [tab EXCEPT ![b] = t]
        /\ UNCHANGED <<expired, call, wait>>
        /\ \A c \in Tabs, s \in Slots : call[c][s].phase = "none"
    BY DEF LoginDone, Open
  <1>3. ~Idle(b) /\ \A c \in Tabs \ {b} : exit'[c] = exit[c]
    <2>1. exit[b][d].phase # "none" /\ exit' = [exit EXCEPT ![b][d] = At("none")]
      BY DEF LoginDone
    <2> QED
      BY <2>1, Busy
  <1>4. /\ Len(issued) \in Nat /\ expired \in 0..Len(issued) /\ i \in Sessions
        /\ issued \in Seq([session: Sessions, from: Nat]) /\ session \in [Sessions -> Nat]
    BY AtHand DEF RestTyped, IInv, AllIssued, NextSession
  <1>5. n \in Nat /\ n > expired /\ expired \in Nat
    BY <1>4
  <1>6. Append(issued, [session |-> i, from |-> 0])[Len(issued) + 1].session = i
    BY <1>4
  <1>7. issued'[n].session = i /\ session'[i] = n
    BY <1>1, <1>4, <1>6
  <1> HIDE DEF n
  <1>8. RequestInv'
    BY <1>2, <1>7 DEF RequestInv, NoneSent, Sent, Live, SessionOf
  <1>9. /\ View(b) \in Views /\ Checking(View(b), stored) /\ View(b).tab = tab[b]
        /\ View(b).calls = call[b] /\ View(b).waits = wait[b] /\ tab[b] \in Tab
    BY CalmTab
  <1>10. /\ t \in Tab /\ t.saved = n /\ t.asked = tab[b].asked /\ t.current = tab[b].current
    BY <1>5, <1>9 DEF AsksUser, Tab, Token
  <1> HIDE DEF t
  <1>11. /\ next \in Views /\ next.tab = t /\ next.calls = call[b] /\ next.waits = wait[b]
    BY <1>9, <1>10 DEF Views
  <1> HIDE DEF next
  <1>12. Becomes(b, next)
    BY <1>2, <1>11 DEF Becomes, RefreshInv, TabsTyped
  <1>13. Checking(next, stored')
    <2> DEFINE old == View(b)
    <2>1. /\ old \in Views /\ Checking(old, stored) /\ old.tab = tab[b]
          /\ old.calls = call[b] /\ old.waits = wait[b]
      BY <1>9
    <2> HIDE DEF old
    <2>2. Checking(old, n)
      BY <1>5, <2>1, StorageChecking
    <2>3. Checking(next, n)
      BY <1>5, <1>10, <1>11, <2>1, <2>2, SavedChecking
    <2> QED
      BY <1>2, <2>3
  <1>14. CheckInv' /\ \A c \in Tabs : Unforced(c)
    <2>1. stored' \in Nat /\ stored' > expired
      BY <1>2, <1>5
    <2> QED
      BY <1>2, <1>3, <1>11, <1>12, <1>13, <2>1, ChecksCalm
  <1> QED
    BY <1>8, <1>14 DEF CalmInv

\* A tab is closed while none of its refreshes is under way.
LEMMA CloseCalm ==
  ASSUME IInv, RestTyped, RefreshInv, CalmInv, NEW b \in Tabs, CloseTab(b), ~disturbed'
  PROVE  CalmInv' /\ \A c \in Tabs : Unforced(c)
  <1> DEFINE t == [open |-> FALSE, saved |-> 0, auth |-> FALSE, exp |-> 0, asked |-> 0,
                   user |-> FALSE, current |-> NoSlot]
             next == [tab |-> t, calls |-> [s \in Slots |-> NoCall],
                      waits |-> [c \in Callers |-> NoWait]]
  <1>1. /\ next \in Views
        /\ next.tab.saved = 0 /\ next.tab.asked = 0 /\ next.tab.current = NoSlot
        /\ next.waits["check"].slot = NoSlot
        /\ \A s \in Slots : next.calls[s].phase = "none"
    BY DEF Views, Tab, Token, NoCall, Call, Phases, NoWait, Wait, Callers
  <1>2. /\ Becomes(b, next) /\ UNCHANGED <<server, expired, cookie, stored>>
        /\ \A s \in Slots : call[b][s].phase = "none"
        /\ \A c \in Tabs \ {b} : exit'[c] = exit[c]
    BY DEF CloseTab, Becomes, Open, RestTyped
  <1> HIDE DEF next
  <1>3. expired \in Nat /\ stored \in Nat
    BY CalmTab
  <1>4. Checking(next, stored)
    BY <1>1, <1>3 DEF Checking, Ready, Newer
  <1>5. CheckInv' /\ \A c \in Tabs : Unforced(c)
    <2>1. /\ Checking(next, stored') /\ stored' \in Nat /\ stored' \in {0, stored}
      BY <1>2, <1>3, <1>4
    <2> QED
      BY <1>1, <1>2, <2>1, ChecksCalm
  <1>6. call'[b] = next.calls /\ \A c \in Tabs \ {b} : call'[c] = call[c]
    BY <1>1, <1>2, BecomesTyped DEF RefreshInv
  <1>7. NoneSent' => Live(cookie')
    <2> SUFFICES ASSUME NoneSent' PROVE Live(cookie')
      OBVIOUS
    <2>1. NoneSent
      BY <1>2, <1>6 DEF NoneSent, Sent
    <2> QED
      BY <1>2, <2>1 DEF CalmInv, RequestInv
  <1>8. RequestInv'
    BY <1>1, <1>2, <1>6, <1>7, RequestsCalm DEF CalmInv, Sent
  <1> QED
    BY <1>5, <1>8 DEF CalmInv

\* A token expires that every tab has received.
LEMMA ExpireCalm ==
  ASSUME IInv, RestTyped, RefreshInv, CalmInv, Expire, ~disturbed'
  PROVE  CalmInv' /\ \A c \in Tabs : Unforced(c)
  <1>1. /\ UNCHANGED <<session, issued, cookie, stored, tab, call, wait, exit>>
        /\ expired' = expired + 1 /\ expired \in Nat /\ stored \in Nat
    BY AtHand DEF Expire, server, browser, RestTyped
  <1>2. ASSUME NEW c \in Tabs, NEW s \in Slots
        PROVE  /\ call[c][s].token # expired + 1
               /\ call[c][s].phase = "queued" /\ stored = expired + 1
                    => call[c][s].before = expired + 1
               /\ call[c][s].token \in Nat
    BY <1>1 DEF Expire, Late, RefreshInv, TabsTyped, Call, Token
  <1>3. RequestInv'
    <2>1. ASSUME NEW c \in Tabs, NEW s \in Slots, call[c][s].phase = "granted"
          PROVE  call[c][s].token > expired + 1
      <3>1. call[c][s].token > expired
        BY <2>1 DEF CalmInv, RequestInv
      <3> QED
        BY <1>1, <1>2, <3>1
    <2> QED
      BY <1>1, <2>1 DEF CalmInv, RequestInv, NoneSent, Live, SessionOf
  <1>4. ASSUME NEW c \in Tabs PROVE Checking(View(c), stored)'
    <2> DEFINE old == View(c)
    <2>1. /\ Checking(old, stored) /\ tab[c] \in Tab
          /\ old.tab = tab[c] /\ old.calls = call[c] /\ old.waits = wait[c]
      BY CalmTab
    <2> HIDE DEF old
    <2>2. View(c)'.tab = tab[c] /\ View(c)'.calls = call[c] /\ View(c)'.waits = wait[c]
      BY <1>1 DEF View
    <2>3. tab[c].asked <= expired + 1
      BY <1>1, <2>1 DEF Checking, Ready, Tab, Token
    <2>4. ASSUME NEW s \in Slots, call[c][s].phase = "queued"
          PROVE  stored \in {0, call[c][s].before} \/ stored > expired + 1
      <3>1. stored \in {0, call[c][s].before} \/ stored > expired
        BY <2>1, <2>4 DEF Checking
      <3> QED
        BY <1>1, <1>2, <2>4, <3>1
    <2>5. /\ tab[c].current # NoSlot => ~call[c][tab[c].current].outdated
          /\ wait[c]["check"].slot # NoSlot /\ call[c][wait[c]["check"].slot].outdated
               => Newer(tab[c].saved, tab[c].asked) /\ Newer(stored, tab[c].asked)
      BY <2>1 DEF Checking, Ready
    <2> QED
      BY <1>1, <2>2, <2>3, <2>4, <2>5 DEF Checking, Ready, Newer
  <1>5. ASSUME NEW c \in Tabs PROVE Unforced(c)
    BY <1>1 DEF Unforced, Idle
  <1> QED
    BY <1>3, <1>4, <1>5 DEF CalmInv, CheckInv

\* A logout begins, of the user's will or because the tab has no token any more; a tab
\* opens, or has its user info or not.
LEMMA TabCalm ==
  ASSUME IInv, RestTyped, RefreshInv, CalmInv, NEW b \in Tabs, ~disturbed',
         LogoutStart(b) \/ OpenTab(b) \/ UserInfo(b) \/ UserInfoRefused(b)
  PROVE  CalmInv' /\ \A c \in Tabs : Unforced(c)
  <1> DEFINE n == getToken(tab[b], stored)
  <1>0. n \in {tab[b].saved, stored} /\ tab[b] \in Tab /\ tab \in [Tabs -> Tab]
    BY TokenTyped, CalmTab DEF RefreshInv, TabsTyped
  <1>1. UNCHANGED <<session, issued, expired, cookie, stored, call, wait>>
    BY DEF LogoutStart, OpenTab, UserInfo, UserInfoArrives, UserInfoFails, UserInfoRefused,
           server, browser
  <1>2. /\ \A c \in Tabs \ {b} : tab'[c] = tab[c] /\ exit'[c] = exit[c]
        /\ tab'[b].saved \in {tab[b].saved, stored} /\ tab'[b].asked = tab[b].asked
        /\ tab'[b].current = tab[b].current
        /\ \/ exit'[b] = exit[b] /\ (tab[b].auth => tab'[b].auth)
           \/ LogoutStart(b) \/ UserInfoRefused(b)
    <2> HIDE DEF n
    <2>1. CASE LogoutStart(b)
      BY <1>0, <2>1 DEF LogoutStart, RestTyped, Tab, n
    <2>2. CASE UserInfoRefused(b)
      BY <1>0, <2>2 DEF UserInfoRefused, RestTyped, Tab, n
    <2>3. CASE OpenTab(b) \/ UserInfo(b)
      BY <1>0, <2>3 DEF OpenTab, UserInfo, UserInfoArrives, UserInfoFails, Tab
    <2> QED
      BY <2>1, <2>2, <2>3
  <1>3. UserInfoRefused(b) => SessionEnded(b)
    BY DEF UserInfoRefused, SessionEnded
  <1>4. /\ \A c \in Tabs : /\ tab'[c].saved \in {tab[c].saved, stored}
                          /\ tab'[c].asked = tab[c].asked
                          /\ tab'[c].current = tab[c].current
        /\ \A c \in Tabs : \/ exit'[c] = exit[c] /\ (tab[c].auth => tab'[c].auth)
                          \/ ~Idle(c) \/ LogoutStart(c) \/ SessionEnded(c)
    BY <1>2, <1>3
  <1> QED
    BY <1>1, <1>4, RequestsStay, ChecksStay DEF CalmInv

\* What a calm step does, whichever it is.
LEMMA NextCalm ==
  ASSUME IInv, RestTyped, RefreshInv, CalmInv, secure, ~disturbed', [Next]_vars
  PROVE  CalmInv' /\ \A b \in Tabs : Unforced(b)
  <1>1. ASSUME NEW b \in Tabs, renewToken(b) \/ Navigate(b) \/ RequestRefused(b) \/ RequestAgain(b)
        PROVE  CalmInv' /\ \A c \in Tabs : Unforced(c)
    <2>1. UNCHANGED <<server, expired, cookie, stored, exit>>
      BY <1>1 DEF renewToken, Navigate, RequestRefused, RequestAgain, Unmoved, browser
    <2>2. CASE renewToken(b)
      <3>1. /\ CanRefresh(View(b))
            /\ Becomes(b, refreshToken(View(b), {"renew"}, 1, stored, cookie))
        BY <2>2 DEF renewToken
      <3> QED
        BY <2>1, <3>1, RenewCalm
    <2>3. CASE RequestAgain(b)
      <3>1. /\ CanRefresh(View(b))
            /\ Becomes(b, refreshToken(View(b), {"request"}, 2, stored, cookie))
        BY <2>3 DEF RequestAgain
      <3> QED
        BY <2>1, <3>1, RenewCalm
    <2>4. CASE Navigate(b)
      BY <2>1, <2>4, CheckCalm DEF Navigate
    <2>5. CASE RequestRefused(b)
      BY <2>1, <2>5, RequestCalm DEF RequestRefused
    <2> QED
      BY <1>1, <2>2, <2>3, <2>4, <2>5
  <1>2. ASSUME NEW b \in Tabs,
               LogoutStart(b) \/ OpenTab(b) \/ UserInfo(b) \/ UserInfoRefused(b)
        PROVE  CalmInv' /\ \A c \in Tabs : Unforced(c)
    BY <1>2, TabCalm
  <1>3. ASSUME NEW b \in Tabs, LoginStart(b) \/ \E d \in Doors : LogoutDone(b, d)
        PROVE  CalmInv' /\ \A c \in Tabs : Unforced(c)
    BY <1>3, RemovesCalm
  <1>4. ASSUME NEW b \in Tabs, CloseTab(b) PROVE CalmInv' /\ \A c \in Tabs : Unforced(c)
    BY <1>4, CloseCalm
  <1>5. ASSUME NEW b \in Tabs, Refresh(b) PROVE CalmInv' /\ \A c \in Tabs : Unforced(c)
    BY <1>5, RunUnderLockCalm, GetSessionCalm, RotateCalm, GrantedCalm, RefusedCalm
       DEF Refresh
  <1>6. ASSUME NEW b \in Tabs, NEW s \in Slots, AnswerLost(b, s) \/ SessionExpires(b, s)
        PROVE  CalmInv' /\ \A c \in Tabs : Unforced(c)
    BY <1>6, SessionExpiresCalm DEF AnswerLost
  <1>7. ASSUME NEW b \in Tabs, Exit(b) PROVE CalmInv' /\ \A c \in Tabs : Unforced(c)
    BY <1>3, <1>7, LogoutCalm, LoginCalm DEF Exit
  <1>8. CASE Expire
    BY <1>8, ExpireCalm
  <1>9. CASE UNCHANGED vars
    <2>1. UNCHANGED <<session, issued, expired, cookie, stored, tab, call, wait, exit>>
      BY <1>9 DEF vars, server, browser
    <2> QED
      BY <2>1, RequestsStay, ChecksStay DEF CalmInv
  <1> QED
    BY <1>1, <1>2, <1>3, <1>4, <1>5, <1>6, <1>7, <1>8, <1>9 DEF Next

\* At first every tab has the token of the one session.
LEMMA InitCalm == Init => CalmInv
  <1> SUFFICES ASSUME Init PROVE CalmInv
    OBVIOUS
  <1>1. \A b \in Tabs, s \in Slots : call[b][s].phase = "none"
    BY DEF Init, NoCall
  <1>2. issued[1].session = 1 /\ session[1] = 1 /\ cookie = 1
    BY BoundsAssumption DEF Init, Sessions
  <1>3. RequestInv
    BY <1>1, <1>2 DEF RequestInv, Live, SessionOf
  <1>4. ASSUME NEW b \in Tabs PROVE Checking(View(b), stored)
    <2>1. /\ View(b).tab.asked = 0 /\ View(b).tab.current = NoSlot
          /\ View(b).waits["check"].slot = NoSlot /\ View(b).calls = call[b]
      BY DEF Init, View, NoWait, Callers
    <2>2. expired = 0
      BY DEF Init
    <2> QED
      BY <1>1, <2>1, <2>2 DEF Checking, Ready
  <1> QED
    BY <1>3, <1>4 DEF CalmInv, CheckInv

\* As long as nothing disturbs a refresh, where there are locks.
CalmSoFar == secure /\ ~disturbed => CalmInv

\* Nobody is signed out against their will, with any number of tabs, refreshes, logouts,
\* tokens and sessions: where locks keep the tabs apart, every refresh is answered by a
\* token or by the refusal of its cookie, every new token arrives before it expires, the
\* server refuses no tab its user info, and nobody closes a tab or signs in during a
\* refresh, a tab signs out by itself only after its session has ended.
THEOREM NobodyIsForcedOut == Spec => NoSpuriousLogout
  <1>0. IInv /\ RefreshInv => TokensTyped
    BY AtHand DEF RefreshInv, TabsTyped, Tab, Token, TokensTyped
  <1>1. Init => CalmSoFar
    BY InitCalm DEF CalmSoFar
  <1>2. ASSUME IInv, RestTyped, RefreshInv, CalmSoFar, [Next]_vars, secure, ~disturbed'
        PROVE  CalmInv' /\ \A b \in Tabs : Unforced(b)
    <2>1. ~disturbed
      BY <1>2, <1>0, NextRestStep DEF RestStep
    <2> QED
      BY <1>2, <2>1, NextCalm DEF CalmSoFar
  <1>3. IInv /\ RestTyped /\ RefreshInv /\ CalmSoFar /\ [Next]_vars => CalmSoFar'
    <2> SUFFICES ASSUME IInv, RestTyped, RefreshInv, CalmSoFar, [Next]_vars,
                        secure', ~disturbed'
                 PROVE  CalmInv'
      BY DEF CalmSoFar
    <2>1. secure
      BY <1>0, NextRestStep DEF RestStep
    <2> QED
      BY <1>2, <2>1
  <1>4. IInv /\ RestTyped /\ RefreshInv /\ CalmSoFar /\ [Next]_vars
          => [secure /\ ~disturbed' =>
                \A b \in Tabs :
                  \/ ~tab[b].auth \/ SessionEnded(b) \/ ~Idle(b)
                  \/ LogoutStart(b) \/ CloseTab(b)
                  \/ tab'[b].auth /\ Idle(b)']_vars
    BY <1>2 DEF Unforced
  <1> QED
    BY <1>1, <1>3, <1>4, RefreshesHold, PTL DEF Spec, NoSpuriousLogout
=============================================================================
