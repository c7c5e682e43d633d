---------------------------- MODULE SessionTokens ----------------------------
(***************************************************************************)
(* The session of a browser: the tabs that share its cookie jar and local  *)
(* storage, and the server's session rows.  An access token is short-lived *)
(* and is renewed with the refresh token in the cookie, which the server   *)
(* replaces each time it is used.  A refresh token has the number of the   *)
(* access token it was issued with.  Tabs refresh on a timer, on focus, on *)
(* navigation and after a request was refused; refreshes of one tab are    *)
(* shared, and in a secure context a Web Lock keeps the tabs apart.        *)
(* Answers arrive late or never, or are errors; tabs are closed; sessions  *)
(* end of themselves; and a user signs out and in while refreshes are      *)
(* under way.  A tab asks for its user info when it has checked its token. *)
(***************************************************************************)
EXTENDS Naturals, Sequences, FiniteSets

CONSTANTS
    Tabs,        \* tabs of one browser
    Slots,       \* refreshes a tab may have open at a time
    NoSlot,
    Nobody,      \* nobody holds the lock
    Doors,       \* sign-outs and sign-ins a tab may have under way at a time
    Contexts,    \* whether the page may be in a secure context, where locks exist
    MaxIssued,   \* bound: once so many tokens were issued no more expire and no valid
                 \* token is renewed
    MaxBusy,     \* bound on the callers that wait for a refresh, logouts and logins that
                 \* are under way at a time; the user may sign out all the same
    MaxLogins,   \* bound on the sessions that follow the first
    EventTabs,   \* tabs in which the user signs in or out or closes the tab, an answer
                 \* is lost or an error, or the session ends of itself
    MaxEvents    \* bound on the number of these events, sign-ins apart

ASSUME SlotsAssumption == NoSlot \notin Slots /\ Nobody \notin Tabs \X Slots
ASSUME ContextsAssumption == Contexts \subseteq BOOLEAN
ASSUME BoundsAssumption ==
    /\ MaxIssued \in Nat /\ MaxBusy \in Nat /\ MaxLogins \in Nat
    /\ MaxEvents \in Nat

VARIABLES
    secure,    \* whether navigator.locks exists, fixed at the start
    session,   \* the refresh token each session row accepts, 0 without a row
    issued,    \* the session of each token and the refresh token spent on it
    expired,   \* tokens up to this one have expired
    cookie,    \* the refresh token in the cookie jar, 0 for none
    stored,    \* the token in local storage, 0 for none
    lock,      \* the refresh that holds the lock
    tab,       \* what each tab keeps
    call,      \* its refreshes
    wait,      \* which refresh each of its callers awaits
    exit,      \* how far its logouts and logins have come
    cut,       \* refreshes that were open when their tab removed its tokens, kept
               \* to state a property
    disturbed, \* whether an answer was lost, was an error or came late, the server
               \* refused a tab its user info, a tab closed in the middle of a refresh,
               \* or somebody signed in during one, kept likewise
    events     \* events of these kinds so far, bounded

server == <<session, issued>>
browser == <<cookie, stored, lock>>
ghosts == <<cut, disturbed>>
vars == <<secure, server, expired, browser, tab, call, wait, exit, ghosts, events>>

-----------------------------------------------------------------------------
(* Values *)

\* Who calls refreshToken: the renewal by timer or focus, checkAuth, and the
\* interceptor of refused requests.
Callers == {"renew", "check", "request"}

Token == Nat
Sessions == 1..(1 + MaxLogins)
Valid(n) == n > expired
SessionOf(n) == issued[n].session

\* A tab: the token in memory, whether it counts as signed in, the token whose
\* expiry the user info shows, the tokens that had expired when its checkAuth began,
\* whether it waits for its user info, the refresh that new callers share.
Tab == [open: BOOLEAN, saved: Token, auth: BOOLEAN, exp: Token, asked: Token,
        user: BOOLEAN, current: Slots \cup {NoSlot}]

\* A refresh: whether the tab's epoch has moved on since it captured it, while it
\* waits for the lock the stored token it started with, while its request is out
\* the cookie it carries, and the token it was granted.
Phases == {"none", "queued", "posted", "found", "granted", "refused"}
Call == [phase: Phases, outdated: BOOLEAN, before: Token, cookie: Token, token: Token]
NoCall == [phase |-> "none", outdated |-> FALSE, before |-> 0, cookie |-> 0, token |-> 0]

Wait == [slot: Slots \cup {NoSlot}, attempt: {0, 1, 2}]
NoWait == [slot |-> NoSlot, attempt |-> 0]
Paused == [slot |-> NoSlot, attempt |-> 1]   \* the interceptor's second of delay

\* A logout or a login, and the token that the request of a logout was sent with.
Exits == [phase: {"none", "sent", "renewing", "answered", "failed", "login"},
          token: Token]
At(phase) == [phase |-> phase, token |-> 0]

TypeOK ==
    /\ secure \in BOOLEAN
    /\ session \in [Sessions -> Token]
    /\ issued \in Seq([session: Sessions, from: Token])
    /\ expired \in 0..Len(issued)
    /\ cookie \in 0..Len(issued) /\ stored \in 0..Len(issued)
    /\ lock \in (Tabs \X Slots) \cup {Nobody}
    /\ tab \in [Tabs -> Tab]
    /\ call \in [Tabs -> [Slots -> Call]]
    /\ wait \in [Tabs -> [Callers -> Wait]]
    /\ exit \in [Tabs -> [Doors -> Exits]]
    /\ cut \in SUBSET (Tabs \X Slots) /\ disturbed \in BOOLEAN
    /\ events \in 0..MaxEvents

\* Every tab is signed in to one session.
Init ==
    /\ secure \in Contexts
    /\ session = [i \in Sessions |-> IF i = 1 THEN 1 ELSE 0]
    /\ issued = <<[session |-> 1, from |-> 0]>>
    /\ expired = 0 /\ cookie = 1 /\ stored = 1
    /\ lock = Nobody
    /\ tab = [b \in Tabs |-> [open |-> TRUE, saved |-> 1, auth |-> TRUE, exp |-> 1,
                              asked |-> 0, user |-> FALSE, current |-> NoSlot]]
    /\ call = [b \in Tabs |-> [s \in Slots |-> NoCall]]
    /\ wait = [b \in Tabs |-> [c \in Callers |-> NoWait]]
    /\ exit = [b \in Tabs |-> [d \in Doors |-> At("none")]]
    /\ cut = {} /\ disturbed = FALSE
    /\ events = 0

-----------------------------------------------------------------------------
(* Pieces of a tab's state.  A view is what one step of a tab b changes:     *)
(* the tab, its refreshes and its callers.                                   *)

Open(b, s) == call[b][s].phase # "none"
Free(calls) == {s \in Slots : calls[s].phase = "none"}
View(b) == [tab |-> tab[b], calls |-> call[b], waits |-> wait[b]]

getToken(t, storage) == IF t.saved # 0 THEN t.saved ELSE storage

\* The callers join the refresh the tab shares, or start it: under the lock
\* later, or at once where there is none.
refreshToken(view, callers, attempt, storage, jar) ==
    LET shared == view.tab.current # NoSlot
        s == IF shared THEN view.tab.current ELSE CHOOSE free \in Free(view.calls) : TRUE
        started == IF secure THEN [NoCall EXCEPT !.phase = "queued", !.before = storage]
                   ELSE [NoCall EXCEPT !.phase = "posted", !.cookie = jar]
    IN [tab |-> [view.tab EXCEPT !.current = s],
        calls |-> IF shared THEN view.calls ELSE [view.calls EXCEPT ![s] = started],
        waits |-> [c \in Callers |-> IF c \in callers
                     THEN [slot |-> s, attempt |-> attempt] ELSE view.waits[c]]]

CanRefresh(view) == view.tab.current # NoSlot \/ Free(view.calls) # {}

\* With a valid token the tab asks for its user info, and counts as signed in when
\* that arrives.
SignedOut(t) == [t EXCEPT !.auth = FALSE, !.exp = 0]
AsksUser(t, n) == [t EXCEPT !.user = TRUE, !.exp = n, !.saved = n]

\* Mutant: the epoch stays when the tokens are removed.
removeToken_SameEpoch(view) ==
    [view EXCEPT !.tab.saved = 0, !.tab.current = NoSlot]

\* The epoch moves on and nothing is shared any more.  Local storage is cleared
\* with it.
removeToken(view) ==
    [view EXCEPT !.tab.saved = 0, !.tab.current = NoSlot,
                 !.calls = [s \in Slots |-> IF @[s] = NoCall THEN NoCall
                                           ELSE [@[s] EXCEPT !.outdated = TRUE]]]
CutOff(b) == cut' = cut \cup {<<b, s>> : s \in {s \in Slots : Open(b, s)}}

\* checkAuth by the token the tab has: without one it is signed out, with a
\* valid one the user info is fetched, an expired one is refreshed first.  Its logout
\* at a token it cannot read is left out: all tokens are the server's.
checkAuth(view, storage, jar) ==
    LET n == getToken(view.tab, storage) IN
    IF n = 0 THEN [view EXCEPT !.tab = SignedOut(@)]
    ELSE IF Valid(n) THEN [view EXCEPT !.tab = AsksUser(@, n)]
    ELSE IF view.waits["check"] # NoWait \/ ~CanRefresh(view) THEN view
    ELSE refreshToken([view EXCEPT !.tab.saved = n, !.tab.asked = expired], {"check"}, 1,
                      storage, jar)

Becomes(b, view) ==
    /\ tab' = [tab EXCEPT ![b] = view.tab]
    /\ call' = [call EXCEPT ![b] = view.calls]
    /\ wait' = [wait EXCEPT ![b] = view.waits]

-----------------------------------------------------------------------------
(* The end of a refresh.  Its promise is no longer shared, its slot is free   *)
(* and its callers go on: those that failed once try again.                   *)

\* Mutant: whatever refresh the tab shares is forgotten.
Settled_Clobbers(view, s) ==
    [view EXCEPT !.tab.current = NoSlot, !.calls[s] = NoCall]

Settled(view, s) ==
    [view EXCEPT !.tab.current = IF @ = s THEN NoSlot ELSE @, !.calls[s] = NoCall]

Waiting(view, s) == {c \in Callers : view.waits[c].slot = s}
Released(view, callers) ==
    [view EXCEPT !.waits = [c \in Callers |-> IF c \in callers THEN NoWait ELSE @[c]],
                 !.tab.asked = IF "check" \in callers THEN 0 ELSE @]

\* The refresh succeeded, or gave way to a logout.  checkAuth holds the token it has
\* now against the time it began at.  renewToken ends in checkAuth, which does nothing
\* if it ran less than a minute ago.
Resolved(view, s, storage, jar, throttled) ==
    LET callers == Waiting(view, s)
        over == Released(Settled(view, s), callers)
        n == getToken(over.tab, storage)
        checked == IF "check" \notin callers THEN over
                   ELSE IF n > view.tab.asked THEN [over EXCEPT !.tab = AsksUser(@, n)]
                   ELSE [over EXCEPT !.tab = SignedOut([@ EXCEPT !.saved = n])]
    IN IF "renew" \in callers /\ ~throttled THEN checkAuth(checked, storage, jar)
       ELSE checked

Again(view, s) == {c \in Waiting(view, s) \ {"request"} : view.waits[c].attempt = 1}

\* The refresh failed.  A first attempt is repeated, at once by renewToken and
\* checkAuth and after a second by the interceptor; after a second one checkAuth
\* leaves the tab signed out.
Rejected(view, s, storage, jar) ==
    LET again == Again(view, s)
        pausing == {c \in Waiting(view, s) \cap {"request"} : view.waits[c].attempt = 1}
        over == Released(Settled(view, s), Waiting(view, s) \ again)
        paused == [over EXCEPT !.waits = [c \in Callers |->
                     IF c \in pausing THEN Paused ELSE @[c]]]
        left == IF "check" \in Waiting(view, s) \ again
                THEN [paused EXCEPT !.tab = SignedOut(@)] ELSE paused
    IN IF again = {} THEN left ELSE refreshToken(left, again, 2, storage, jar)

-----------------------------------------------------------------------------
(* logout().  A tab may call it again while a logout is under way.           *)

Idle(b) == \A d \in Doors : exit[b][d].phase = "none"
Vacant(doors) == {d \in Doors : doors[d].phase = "none"}

\* A logout sends its request with the token n.
Logout(doors, n) ==
    [doors EXCEPT ![CHOOSE d \in Vacant(doors) : TRUE] = [phase |-> "sent", token |-> n]]

\* renewToken failed for good: it signs out if the server answered, with whatever
\* status, and the expiry the tab shows has passed.
RenewGivesUp(b, s, answered) ==
    /\ answered
    /\ wait[b]["renew"].slot = s /\ "renew" \notin Again(View(b), s)
    /\ ~Valid(tab[b].exp)

\* refreshUserInfo signs out if its request was refused and cannot be repeated, the
\* interceptor having failed twice to renew the token.
UserGivesUp(b, s) ==
    tab[b].user /\ wait[b]["request"].slot = s /\ wait[b]["request"].attempt = 2

-----------------------------------------------------------------------------
(* What starts a refresh *)

MayIssue == Len(issued) < MaxIssued
MayStart ==
    Cardinality({p \in Tabs \X Callers : wait[p[1]][p[2]] # NoWait})
        + Cardinality({p \in Tabs \X Doors : exit[p[1]][p[2]].phase # "none"}) < MaxBusy

Event(b) == b \in EventTabs /\ events < MaxEvents /\ events' = events + 1

Unmoved == UNCHANGED <<secure, server, expired, browser, exit, ghosts, events>>

\* The timer before the expiry, or the focus of the window.
renewToken(b) ==
    /\ tab[b].auth /\ wait[b]["renew"] = NoWait
    /\ MayIssue /\ MayStart /\ CanRefresh(View(b))
    /\ Becomes(b, refreshToken(View(b), {"renew"}, 1, stored, cookie))
    /\ Unmoved

\* The router's guard, and the application's start in a new tab.  Bound: one tab at a
\* time asks for its user info here, and none while it signs in or out.
Navigate(b) ==
    /\ tab[b].open /\ Idle(b)
    /\ LET n == getToken(tab[b], stored) IN
         \/ n = 0
         \/ Valid(n) /\ MayStart /\ \A c \in Tabs : ~tab[c].user
         \/ ~Valid(n) /\ MayStart /\ wait[b]["check"] = NoWait /\ CanRefresh(View(b))
    /\ Becomes(b, checkAuth(View(b), stored, cookie))
    /\ Unmoved

\* A request is refused because the tab's token has expired.  It shares the
\* interceptor's refresh with the others, the logout's among them.
RequestRefused(b) ==
    /\ tab[b].open /\ wait[b]["request"] = NoWait
    /\ \A d \in Doors : exit[b][d].phase # "renewing"
    /\ MayStart /\ CanRefresh(View(b))
    /\ LET n == getToken(tab[b], stored) IN
         /\ n # 0 /\ ~Valid(n)
         /\ Becomes(b, refreshToken([View(b) EXCEPT !.tab.saved = n], {"request"}, 1,
                                   stored, cookie))
    /\ Unmoved

\* The interceptor's second attempt.
RequestAgain(b) ==
    /\ wait[b]["request"] = Paused
    /\ CanRefresh(View(b))
    /\ Becomes(b, refreshToken(View(b), {"request"}, 2, stored, cookie))
    /\ Unmoved

-----------------------------------------------------------------------------
(* A refresh *)

Posts(b, s) == call' = [call EXCEPT ![b][s] = [NoCall EXCEPT !.phase = "posted", !.cookie = cookie]]

\* Mutant: the request goes out without waiting for the lock.
RunUnderLock_NoLock(b, s) ==
    /\ call[b][s].phase = "queued" /\ ~call[b][s].outdated
    /\ Posts(b, s)
    /\ UNCHANGED <<secure, server, browser, expired, tab, wait, exit, ghosts, events>>

\* With the lock: nothing to do after a logout, another tab's token is adopted,
\* otherwise the request goes out with the cookie of the moment.
RunUnderLock(b, s) ==
    /\ call[b][s].phase = "queued" /\ lock = Nobody
    /\ \/ /\ call[b][s].outdated
          /\ \E throttled \in BOOLEAN :
               Becomes(b, Resolved(View(b), s, stored, cookie, throttled))
          /\ cut' = cut \ {<<b, s>>}
          /\ UNCHANGED browser
       \/ /\ ~call[b][s].outdated
          /\ stored \notin {0, call[b][s].before}
          /\ \E throttled \in BOOLEAN :
               Becomes(b, Resolved([View(b) EXCEPT !.tab.saved = stored],
                                   s, stored, cookie, throttled))
          /\ cut' = cut \ {<<b, s>>}
          /\ UNCHANGED browser
       \/ /\ ~call[b][s].outdated
          /\ stored \in {0, call[b][s].before}
          /\ lock' = <<b, s>>
          /\ Posts(b, s)
          /\ UNCHANGED <<cookie, stored, tab, wait, cut>>
    /\ UNCHANGED <<secure, server, expired, exit, disturbed, events>>

\* The request is answered: with a token, or with 0, a refusal.
Answered(b, s, n) ==
    call' = [call EXCEPT ![b][s].phase = IF n = 0 THEN "refused" ELSE "granted",
                         ![b][s].cookie = 0, ![b][s].token = n]

ServerStep == UNCHANGED <<secure, expired, browser, tab, wait, exit, ghosts, events>>

\* The server looks the refresh token up ...
GetSessionByRefreshToken(b, s) ==
    /\ call[b][s].phase = "posted"
    /\ LET c == call[b][s].cookie IN
         IF c # 0 /\ session[SessionOf(c)] = c
         THEN call' = [call EXCEPT ![b][s].phase = "found"] ELSE Answered(b, s, 0)
    /\ UNCHANGED server
    /\ ServerStep

EndSession(n) == session' = [session EXCEPT ![SessionOf(n)] = 0]

\* ... deletes the session that is too old or whose user is disabled ...
SessionExpires(b, s) ==
    /\ call[b][s].phase = "found"
    /\ LET c == call[b][s].cookie IN
         /\ session[SessionOf(c)] = c
         /\ EndSession(c)
    /\ Answered(b, s, 0)
    /\ Event(b)
    /\ UNCHANGED <<secure, issued, expired, browser, tab, wait, exit, ghosts>>

\* Mutant: the update is not restricted to the token that was looked up.
RotateRefreshToken_Unchecked(b, s) ==
    /\ call[b][s].phase = "found"
    /\ LET c == call[b][s].cookie
           n == Len(issued) + 1
       IN /\ issued' = Append(issued, [session |-> SessionOf(c), from |-> c])
          /\ session' = [session EXCEPT ![SessionOf(c)] = n]
          /\ Answered(b, s, n)
    /\ ServerStep

\* ... and replaces it, unless it was replaced or deleted in between.
RotateRefreshToken(b, s) ==
    /\ call[b][s].phase = "found"
    /\ LET c == call[b][s].cookie
           n == Len(issued) + 1
       IN IF session[SessionOf(c)] = c
          THEN /\ issued' = Append(issued, [session |-> SessionOf(c), from |-> c])
               /\ session' = [session EXCEPT ![SessionOf(c)] = n]
               /\ Answered(b, s, n)
          ELSE Answered(b, s, 0) /\ UNCHANGED server
    /\ ServerStep

\* Mutant: a refresh keeps the lock when it ends.
Unlock_Never(b, s) == UNCHANGED lock

Unlock(b, s) == lock' = IF lock = <<b, s>> THEN Nobody ELSE lock

\* The answer with the new token arrives.  The browser takes the cookie in any
\* case, the tab the token only if it has not removed its tokens since.
RefreshGranted(b, s) ==
    /\ call[b][s].phase = "granted"
    /\ LET n == call[b][s].token
           kept == ~call[b][s].outdated
       IN /\ cookie' = n
          /\ stored' = IF kept THEN n ELSE stored
          /\ \E throttled \in BOOLEAN :
               Becomes(b, Resolved(IF kept THEN [View(b) EXCEPT !.tab.saved = n] ELSE View(b),
                                   s, stored', cookie', throttled))
    /\ Unlock(b, s)
    /\ cut' = cut \ {<<b, s>>}
    /\ UNCHANGED <<secure, server, expired, exit, disturbed, events>>

\* The refusal arrives, another error, or nothing does.  The user info may be among
\* the requests that were waiting.
RefreshFailed(b, s, answered) ==
    /\ LET n == getToken(tab[b], stored)
           view == Rejected(View(b), s, stored, cookie)
           renewed == IF RenewGivesUp(b, s, answered) THEN Logout(exit[b], n) ELSE exit[b]
       IN /\ RenewGivesUp(b, s, answered) => Vacant(exit[b]) # {}
          /\ \/ Becomes(b, view) /\ exit' = [exit EXCEPT ![b] = renewed]
             \/ /\ UserGivesUp(b, s) /\ Vacant(renewed) # {}
                /\ Becomes(b, [view EXCEPT !.tab.user = FALSE])
                /\ exit' = [exit EXCEPT ![b] = Logout(renewed, n)]
    /\ Unlock(b, s)
    /\ cut' = cut \ {<<b, s>>}
    /\ UNCHANGED <<secure, server, expired, cookie, stored>>

RefreshRefused(b, s) ==
    /\ call[b][s].phase = "refused"
    /\ RefreshFailed(b, s, TRUE)
    /\ UNCHANGED <<disturbed, events>>

\* No answer arrives, or another error of the server or of what is in front of it.
AnswerLost(b, s) ==
    /\ call[b][s].phase \in {"posted", "found", "granted", "refused"}
    /\ \E answered \in BOOLEAN : RefreshFailed(b, s, answered)
    /\ disturbed' = TRUE
    /\ Event(b)

-----------------------------------------------------------------------------
(* The user info *)

\* It arrives, whatever has become of the tab's tokens.
UserInfoArrives(b) ==
    /\ tab[b].user
    /\ tab' = [tab EXCEPT ![b].user = FALSE, ![b].auth = TRUE]
    /\ UNCHANGED <<secure, server, expired, browser, call, wait, exit, ghosts, events>>

\* There is no answer, or an error of the server: checkAuth is left.
UserInfoFails(b) ==
    /\ tab[b].user
    /\ tab' = [tab EXCEPT ![b].user = FALSE]
    /\ Event(b)
    /\ UNCHANGED <<secure, server, expired, browser, call, wait, exit, ghosts>>

\* The server refuses it, or the tab has no token any more to repeat it with:
\* refreshUserInfo signs out.
UserInfoRefused(b) ==
    /\ tab[b].user /\ Vacant(exit[b]) # {}
    /\ Event(b)
    /\ LET n == getToken(tab[b], stored) IN
         /\ tab' = [tab EXCEPT ![b].user = FALSE, ![b].saved = n]
         /\ exit' = [exit EXCEPT ![b] = Logout(@, n)]
         /\ disturbed' = (disturbed \/ n # 0)
    /\ UNCHANGED <<secure, server, expired, browser, call, wait, cut>>

-----------------------------------------------------------------------------
(* Signing out and in *)

\* The user signs out.
LogoutStart(b) ==
    /\ tab[b].auth /\ Vacant(exit[b]) # {}
    /\ Event(b)
    /\ LET n == getToken(tab[b], stored) IN
         /\ tab' = [tab EXCEPT ![b].saved = n]
         /\ exit' = [exit EXCEPT ![b] = Logout(@, n)]
    /\ UNCHANGED <<secure, server, expired, browser, call, wait, ghosts>>

\* The server deletes the session of the token n that the request carries, or the
\* request comes to nothing.
LogoutHandled(b, d, n) ==
    \/ EndSession(n) /\ exit' = [exit EXCEPT ![b][d] = At("answered")]
    \/ UNCHANGED session /\ exit' = [exit EXCEPT ![b][d] = At("failed")]

\* With an expired token, or none, the interceptor comes in, as for any other request.
LogoutServed(b, d) ==
    /\ exit[b][d].phase = "sent"
    /\ LET k == exit[b][d].token
           n == getToken(tab[b], stored)
       IN
       \/ /\ k # 0 /\ Valid(k) /\ LogoutHandled(b, d, k)
          /\ UNCHANGED <<tab, call, wait>>
       \/ /\ (k = 0 \/ ~Valid(k)) /\ n # 0 /\ CanRefresh(View(b))
          /\ IF wait[b]["request"] = NoWait
             THEN Becomes(b, refreshToken([View(b) EXCEPT !.tab.saved = n], {"request"}, 1,
                                          stored, cookie))
             ELSE UNCHANGED <<tab, call, wait>>
          /\ exit' = [exit EXCEPT ![b][d] = At("renewing")]
          /\ UNCHANGED session
       \/ /\ (k = 0 \/ ~Valid(k)) /\ n = 0
          /\ exit' = [exit EXCEPT ![b][d] = At("failed")]
          /\ UNCHANGED <<session, tab, call, wait>>
    /\ UNCHANGED <<secure, issued, expired, browser, ghosts, events>>

\* The request is repeated with a renewed token, once.
LogoutServedAgain(b, d) ==
    /\ exit[b][d].phase = "renewing" /\ wait[b]["request"] = NoWait
    /\ LET n == getToken(tab[b], stored) IN
         IF n # 0 /\ Valid(n)
         THEN LogoutHandled(b, d, n)
         ELSE UNCHANGED session /\ exit' = [exit EXCEPT ![b][d] = At("failed")]
    /\ UNCHANGED <<secure, issued, expired, browser, tab, call, wait, ghosts, events>>

\* With the answer, which clears the cookie, or without one the tab removes its
\* tokens and clears local storage.  It goes to the login page, where checkAuth finds
\* it signed out.
LogoutDone(b, d) ==
    /\ exit[b][d].phase \in {"answered", "failed"}
    /\ cookie' = IF exit[b][d].phase = "answered" THEN 0 ELSE cookie
    /\ stored' = 0
    /\ Becomes(b, [removeToken(View(b)) EXCEPT !.tab = SignedOut(@)])
    /\ CutOff(b)
    /\ exit' = [exit EXCEPT ![b][d] = At("none")]
    /\ UNCHANGED <<secure, server, expired, lock, disturbed, events>>

NextSession == {i \in Sessions : \A k \in DOMAIN issued : issued[k].session < i}

\* The user submits the login form, which waits for one answer at a time.
LoginStart(b) ==
    /\ b \in EventTabs /\ MayStart
    /\ tab[b].open /\ ~tab[b].auth
    /\ NextSession # {} /\ Vacant(exit[b]) # {}
    /\ \A d \in Doors : exit[b][d].phase # "login"
    /\ stored' = 0
    /\ Becomes(b, removeToken(View(b)))
    /\ CutOff(b)
    /\ exit' = [exit EXCEPT ![b][CHOOSE d \in Vacant(exit[b]) : TRUE] = At("login")]
    /\ UNCHANGED <<secure, server, expired, cookie, lock, disturbed, events>>

LoginDone(b, d) ==
    /\ exit[b][d].phase = "login"
    /\ \E i \in NextSession :
         LET n == Len(issued) + 1 IN
         /\ \A k \in NextSession : i <= k
         /\ issued' = Append(issued, [session |-> i, from |-> 0])
         /\ session' = [session EXCEPT ![i] = n]
         /\ cookie' = n /\ stored' = n
         /\ tab' = [tab EXCEPT ![b] = AsksUser(@, n)]
    /\ exit' = [exit EXCEPT ![b][d] = At("none")]
    /\ disturbed' = (disturbed \/ \E c \in Tabs, s \in Slots : Open(c, s))
    /\ UNCHANGED <<secure, expired, lock, call, wait, cut, events>>

-----------------------------------------------------------------------------
(* The environment *)

\* A token has not reached all the tabs that wait for it: it is granted, or another
\* tab stored it and theirs have yet to adopt it.
Late(n) ==
    \E b \in Tabs, s \in Slots :
        LET c == call[b][s] IN
        c.token = n \/ (c.phase = "queued" /\ stored = n /\ c.before # n)

\* Tokens expire in the order they were issued.
Expire ==
    /\ expired < Len(issued) /\ MayIssue
    /\ expired' = expired + 1
    /\ disturbed' = (disturbed \/ Late(expired'))
    /\ UNCHANGED <<secure, server, browser, tab, call, wait, exit, cut, events>>

\* A tab is closed: its refreshes end, its lock is released.
CloseTab(b) ==
    /\ tab[b].open
    /\ tab' = [tab EXCEPT ![b] = [open |-> FALSE, saved |-> 0, auth |-> FALSE, exp |-> 0,
                                  asked |-> 0, user |-> FALSE, current |-> NoSlot]]
    /\ call' = [call EXCEPT ![b] = [s \in Slots |-> NoCall]]
    /\ wait' = [wait EXCEPT ![b] = [c \in Callers |-> NoWait]]
    /\ exit' = [exit EXCEPT ![b] = [d \in Doors |-> At("none")]]
    /\ lock' = IF \E s \in Slots : lock = <<b, s>> THEN Nobody ELSE lock
    /\ cut' = {p \in cut : p[1] # b}
    /\ disturbed' = (disturbed \/ \E s \in Slots : Open(b, s))
    /\ Event(b)
    /\ UNCHANGED <<secure, server, expired, cookie, stored>>

OpenTab(b) ==
    /\ ~tab[b].open
    /\ tab' = [tab EXCEPT ![b].open = TRUE]
    /\ UNCHANGED <<secure, server, expired, browser, call, wait, exit, ghosts, events>>

\* A logout or login of a tab goes on.
Exit(b) ==
    \E d \in Doors :
        \/ LogoutServed(b, d) \/ LogoutServedAgain(b, d) \/ LogoutDone(b, d)
        \/ LoginDone(b, d)

\* The user info of a tab arrives or does not.
UserInfo(b) == UserInfoArrives(b) \/ UserInfoFails(b)

\* A refresh of a tab goes on.
Refresh(b) ==
    \E s \in Slots :
        \/ RunUnderLock(b, s) \/ GetSessionByRefreshToken(b, s)
        \/ RotateRefreshToken(b, s) \/ RefreshGranted(b, s) \/ RefreshRefused(b, s)

Next ==
    \/ \E b \in Tabs :
         \/ renewToken(b) \/ Navigate(b) \/ RequestRefused(b)
         \/ LogoutStart(b) \/ LoginStart(b) \/ CloseTab(b) \/ OpenTab(b)
         \/ Refresh(b) \/ RequestAgain(b) \/ Exit(b) \/ UserInfo(b) \/ UserInfoRefused(b)
         \/ \E s \in Slots : AnswerLost(b, s) \/ SessionExpires(b, s)
    \/ Expire

Spec == Init /\ [][Next]_vars

\* The server answers, browsers run promises and timers and serve their lock
\* queues in order.  A user who signed in goes on to use the tab.
FairSpec ==
    /\ Spec
    /\ \A b \in Tabs : /\ SF_vars(Refresh(b)) /\ SF_vars(Navigate(b))
                       /\ WF_vars(RequestAgain(b)) /\ WF_vars(Exit(b))
                       /\ WF_vars(UserInfo(b))

-----------------------------------------------------------------------------
(* Properties *)

\* The server accepts a refresh token once, whoever presents it again.
RotatedOnce ==
    \A i, k \in DOMAIN issued : i # k /\ issued[i].from = issued[k].from
                                  => issued[i].from = 0

\* A tab has at most one refresh of its present sign-in under way, whatever
\* timers, requests and older refreshes do; and in a secure context the whole
\* browser has one request out.
OneRefreshPerTab ==
    /\ \A b \in Tabs : \A s, r \in {s \in Slots : Open(b, s)} :
         ~call[b][s].outdated /\ ~call[b][r].outdated => s = r
    /\ secure => \A b \in Tabs, s \in Slots :
         call[b][s].phase \notin {"none", "queued"} => lock = <<b, s>>

\* A refresh that was under way when its tab signed out brings no token back.
LogoutSticks ==
    [][\A b \in Tabs, s \in Slots :
         <<b, s>> \in cut /\ Open(b, s) /\ call'[b][s] = NoCall
           => tab'[b].saved \in {0, tab[b].saved, stored} /\ stored' \in {0, stored}]_vars

\* Nobody is signed out against their will: where locks keep the tabs apart, every
\* refresh is answered by a token or by the refusal of its cookie, every new token
\* arrives before it expires, the server refuses no tab its user info, and nobody
\* closes a tab or signs in during a refresh, a tab signs out by itself only after its
\* session, or the one its browser went on to, has ended.
SessionEnded(b) ==
    \E n \in {getToken(tab[b], stored), cookie} : n = 0 \/ session[SessionOf(n)] = 0
NoSpuriousLogout ==
    [][secure /\ ~disturbed' =>
         \A b \in Tabs :
           \/ ~tab[b].auth \/ SessionEnded(b) \/ ~Idle(b)
           \/ LogoutStart(b) \/ CloseTab(b)
           \/ tab'[b].auth /\ Idle(b)']_vars

\* A tab that is used ends up with a valid token or signed out.
TabsCatchUp ==
    []<>(\A b \in Tabs : ~tab[b].auth \/ Valid(getToken(tab[b], stored)))
=============================================================================
