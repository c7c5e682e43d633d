----------------------------- MODULE LiveUpdates -----------------------------
(***************************************************************************)
(* How the notifications of a user reach the page: the WebSocket the page  *)
(* keeps open and opens again, the server's connection behind each socket, *)
(* and the list in the header, which is loaded once, filled by pushed      *)
(* events, loaded again when the socket closes and polled while there is   *)
(* none.  Sockets fail at any time and their close is noticed late, loads  *)
(* are answered late, out of order or never, tokens are refused, buffers   *)
(* fill up, and the user signs out and in.  A socket is followed until its *)
(* close handler has run; what the server keeps of it after that reaches   *)
(* nobody.  The page is taken to be visible.                               *)
(***************************************************************************)
EXTENDS Naturals, Sequences, FiniteSets, SequencesExt

CONSTANTS
    Notices,     \* notifications the user gets
    Sockets,     \* bound: sockets that exist at a time
    NoSocket,
    Loads,       \* bound: loads of the list that are open at a time
    SendBuffer,  \* messages the server keeps for a connection
    MaxLogins    \* bound on the sessions that follow the first

ASSUME SocketsAssumption == NoSocket \notin Sockets /\ Sockets # {}
ASSUME BoundsAssumption == SendBuffer \in Nat \ {0} /\ MaxLogins \in Nat

VARIABLES
    token,    \* whether the tab has an access token
    leaving,  \* a logout waits for the server's answer
    logins,
    ws,       \* the state of the module useWebSocket
    sock,     \* the sockets, with the server's side of each
    page,     \* the list's component: absent, before or after its first load
    listed,   \* what it shows
    load,     \* loads of the list under way
    created,  \* notifications in the database
    queue     \* those whose event the listener has not handled

user == <<token, leaving, logins>>
shown == <<page, listed>>
db == <<created, queue>>
vars == <<user, ws, sock, shown, load, db>>

-----------------------------------------------------------------------------
(* Values *)

Requests == {"auth", "subscribe", "unsubscribe"}
Replies == {"success", "invalid", "required"}

ASSUME NoticesAssumption == Notices \cap Replies = {}

\* What a socket is to the page, what has become of the server's connection, and the
\* messages on their way in both directions.
Unused == [state |-> "none", peer |-> "none", auth |-> FALSE, subscribed |-> FALSE,
           up |-> <<>>, down |-> <<>>]
Connecting == [Unused EXCEPT !.state = "connecting"]
Socket == [state : {"none", "connecting", "open", "closing"}, peer : {"none", "up", "gone"},
           auth : BOOLEAN, subscribed : BOOLEAN,
           up : Seq(Requests), down : Seq(Replies \cup Notices)]

\* The loads of an unmounted component end in a list nobody sees; only what follows its
\* first load is kept.
NotSent == [read |-> FALSE, ids |-> {}]
NoLoad == [open |-> FALSE, first |-> FALSE, live |-> FALSE, answer |-> NotSent]
Load == [open : BOOLEAN, first : BOOLEAN, live : BOOLEAN,
         answer : [read : BOOLEAN, ids : SUBSET Notices]]
NewLoad(isFirst) == [open |-> TRUE, first |-> isFirst, live |-> TRUE, answer |-> NotSent]

Both == [ws |-> ws, sock |-> sock]

-----------------------------------------------------------------------------
(* The composable useWebSocket; its functions take the module's state and the *)
(* sockets and return both.                                                   *)

IsOpen(b, s) == s # NoSocket /\ b.sock[s].state = "open"

sendMessage(b, msg) ==
    IF IsOpen(b, b.ws.cur)
    THEN [b EXCEPT !.sock[b.ws.cur].up = Append(@, msg)]
    ELSE b

sendAuth(b) == IF token THEN sendMessage(b, "auth") ELSE b

resubscribeAll(b) == IF b.ws.subs = {} THEN b ELSE sendMessage(b, "subscribe")

\* Closing a socket: its close handler runs later, no message is received any more.
CloseCurrent(b) ==
    IF b.ws.cur = NoSocket THEN b
    ELSE [b EXCEPT !.sock[b.ws.cur] = [Unused EXCEPT !.state = "closing"],
                   !.ws.cur = NoSocket]

scheduleReconnect(b) == IF b.ws.manual THEN b ELSE [b EXCEPT !.ws.timer = TRUE]

HasSocket(b) == b.ws.cur # NoSocket /\ b.sock[b.ws.cur].state \in {"connecting", "open"}

FreeSockets(k) == {s \in Sockets : k[s].state = "none"}
NewSocket == CHOOSE s \in FreeSockets(sock) : TRUE

\* A constructor that throws is left out: it makes no socket and schedules the next try.
connect(b, hasToken, s) ==
    IF HasSocket(b) \/ ~hasToken THEN b
    ELSE [ws |-> [b.ws EXCEPT !.manual = FALSE, !.authenticated = FALSE, !.cur = s],
          sock |-> [b.sock EXCEPT ![s] = Connecting]]

disconnect(b) ==
    LET c == CloseCurrent(b)
    IN  [c EXCEPT !.ws = [@ EXCEPT !.manual = TRUE, !.timer = FALSE, !.connected = FALSE,
                                   !.authenticated = FALSE, !.subs = {}]]

subscribe(b, who) ==
    LET added == [b EXCEPT !.ws.subs = @ \cup {who}]
    IN  IF b.ws.authenticated THEN sendMessage(added, "subscribe") ELSE added

\* Mutant: the server is not told that nobody listens any more.
unsubscribe_Silent(b, who) == [b EXCEPT !.ws.subs = @ \ {who}]

unsubscribe(b, who) ==
    LET left == [b EXCEPT !.ws.subs = @ \ {who}]
    IN  IF b.ws.subs = {who} THEN sendMessage(left, "unsubscribe") ELSE left

\* Mutant: a success only sets the flag.
OnSuccess_NoResubscribe(b) == [b EXCEPT !.ws.authenticated = TRUE]

OnSuccess(b) == resubscribeAll([b EXCEPT !.ws.authenticated = TRUE])

\* A refused token, or a subscription sent before the token, ends the attempts.
OnRefused(b) ==
    CloseCurrent([b EXCEPT !.ws = [@ EXCEPT !.manual = TRUE, !.authenticated = FALSE,
                                            !.connected = FALSE]])

onopen(b, s) ==
    sendAuth([b EXCEPT !.sock[s].state = "open", !.sock[s].peer = "up",
                       !.ws.connected = TRUE])

\* Mutant: the handler leaves the next attempt to somebody else.
onclose_NoReconnect(b, s) ==
    [b EXCEPT !.sock[s] = Unused,
              !.ws = [@ EXCEPT !.connected = FALSE, !.authenticated = FALSE,
                               !.cur = NoSocket]]

\* The handler is the module's, whichever socket it is called for.
onclose(b, s) ==
    scheduleReconnect(
        [b EXCEPT !.sock[s] = Unused,
                  !.ws = [@ EXCEPT !.connected = FALSE, !.authenticated = FALSE,
                                   !.cur = NoSocket]])

-----------------------------------------------------------------------------
(* The list of notifications *)

FreeLoads == {l \in Loads : ~load[l].open}

StartLoad(isFirst) ==
    /\ FreeLoads # {}
    /\ load' = [load EXCEPT ![CHOOSE l \in FreeLoads : TRUE] = NewLoad(isFirst)]

\* Mutant: nothing is loaded when the connection goes down.
Watcher_Off(b) == UNCHANGED load

\* The watcher on the connection: a load for each time it goes down.
Watcher(b) ==
    IF ws.connected /\ ~b.ws.connected /\ page # "none"
    THEN StartLoad(FALSE)
    ELSE UNCHANGED load

Commit(b) ==
    /\ ws' = b.ws
    /\ sock' = b.sock

OnNotification(list, n) == IF n \in Range(list) THEN list ELSE <<n>> \o list

TypeOK ==
    /\ token \in BOOLEAN /\ leaving \in BOOLEAN /\ logins \in 0..MaxLogins
    /\ ws \in [cur : Sockets \cup {NoSocket}, timer : BOOLEAN, connected : BOOLEAN,
               authenticated : BOOLEAN, manual : BOOLEAN, subs : SUBSET {"live", "dead"}]
    /\ sock \in [Sockets -> Socket]
    /\ \A s \in Sockets : Len(sock[s].down) <= SendBuffer + 1
    /\ page \in {"none", "loading", "ready"}
    /\ listed \in Seq(Notices)
    /\ load \in [Loads -> Load]
    /\ queue \subseteq created /\ created \subseteq Notices

Init ==
    /\ token = TRUE /\ leaving = FALSE /\ logins = 0
    /\ LET s == CHOOSE k \in Sockets : TRUE
           l == CHOOSE k \in Loads : TRUE
       IN /\ ws = [cur |-> s, timer |-> FALSE, connected |-> FALSE,
                   authenticated |-> FALSE, manual |-> FALSE, subs |-> {}]
          /\ sock = [k \in Sockets |-> IF k = s THEN Connecting ELSE Unused]
          /\ load = [k \in Loads |-> IF k = l THEN NewLoad(TRUE) ELSE NoLoad]
    /\ page = "loading" /\ listed = <<>>
    /\ created = {} /\ queue = {}

-----------------------------------------------------------------------------
(* Events of the sockets *)

\* The server accepts the socket; the token goes out on whichever socket is current.
Accept(s) ==
    /\ sock[s].state = "connecting"
    /\ Commit(onopen(Both, s))
    /\ UNCHANGED <<user, shown, load, db>>

\* The next message of an open socket.
Receive(s) ==
    /\ sock[s].state = "open" /\ sock[s].down # <<>>
    /\ LET msg == Head(sock[s].down)
           got == [Both EXCEPT !.sock[s].down = Tail(@)]
           b == CASE msg = "success" -> OnSuccess(got)
                  [] msg \in {"invalid", "required"} -> OnRefused(got)
                  [] OTHER -> got
       IN  /\ Commit(b)
           /\ Watcher(b)
           /\ listed' = IF msg \in Notices /\ "live" \in ws.subs
                        THEN OnNotification(listed, msg) ELSE listed
    /\ UNCHANGED <<user, page, db>>

\* A failure: the server, the network or the browser gives the socket up, with what
\* was under way.
Break(s) ==
    /\ sock[s].state \in {"connecting", "open"}
    /\ sock' = [sock EXCEPT ![s] = [Unused EXCEPT !.state = "closing"]]
    /\ UNCHANGED <<user, ws, shown, load, db>>

Refused(s) == sock[s].state = "connecting" /\ Break(s)

\* The server's close arrives after what it sent before.
PeerClosed(s) ==
    /\ sock[s].state = "open" /\ sock[s].peer = "gone" /\ sock[s].down = <<>>
    /\ sock' = [sock EXCEPT ![s] = [Unused EXCEPT !.state = "closing"]]
    /\ UNCHANGED <<user, ws, shown, load, db>>

\* The close handler runs.
Close(s) ==
    /\ sock[s].state = "closing"
    /\ LET b == onclose(Both, s)
       IN  Commit(b) /\ Watcher(b)
    /\ UNCHANGED <<user, shown, db>>

\* The timer of the next attempt.
Reconnect ==
    /\ ws.timer
    /\ FreeSockets(sock) # {}
    /\ LET b == connect([Both EXCEPT !.ws.timer = FALSE], token, NewSocket)
       IN  Commit(b)
    /\ UNCHANGED <<user, shown, load, db>>

-----------------------------------------------------------------------------
(* The server *)

Put(c, msg) == IF Len(c.down) < SendBuffer THEN [c EXCEPT !.down = Append(@, msg)] ELSE c

\* An authenticated connection answers a second token with an error that the page
\* ignores, and which is left out here.  A refused one is told past the buffer and closed.
handleAuth(c, valid) ==
    IF c.auth THEN c
    ELSE IF valid THEN Put([c EXCEPT !.auth = TRUE], "success")
    ELSE [c EXCEPT !.down = Append(@, "invalid"), !.peer = "gone"]

handleSubscription(c, wanted) ==
    IF ~c.auth THEN Put(c, "required") ELSE [c EXCEPT !.subscribed = wanted]

ReadLoop(s) ==
    /\ sock[s].peer = "up" /\ sock[s].up # <<>>
    /\ LET c == [sock[s] EXCEPT !.up = Tail(@)]
           msg == Head(sock[s].up)
       IN  sock' \in {[sock EXCEPT ![s] =
                          IF msg = "auth" THEN handleAuth(c, valid)
                          ELSE handleSubscription(c, msg = "subscribe")]
                      : valid \in BOOLEAN}
    /\ UNCHANGED <<user, ws, shown, load, db>>

\* A connection that sends no token in time is closed.
AuthTimeout(s) ==
    /\ sock[s].peer = "up" /\ ~sock[s].auth
    /\ sock' = [sock EXCEPT ![s].peer = "gone"]
    /\ UNCHANGED <<user, ws, shown, load, db>>

CreateNotice(n) ==
    /\ n \notin created
    /\ created' = created \cup {n}
    /\ queue' = queue \cup {n}
    /\ UNCHANGED <<user, ws, sock, shown, load>>

PublishForUser(k, n) ==
    [s \in Sockets |-> IF k[s].peer = "up" /\ k[s].auth /\ k[s].subscribed
                       THEN Put(k[s], n) ELSE k[s]]

\* The listener of a created notification; when it cannot load the row it gives up.
PushNotice(n) ==
    /\ n \in queue
    /\ queue' = queue \ {n}
    /\ sock' \in {PublishForUser(sock, n), sock}
    /\ UNCHANGED <<user, ws, shown, load, created>>

-----------------------------------------------------------------------------
(* Loads *)

\* The poll of a page without a connection.
Poll ==
    /\ page = "ready" /\ ~ws.connected
    /\ StartLoad(FALSE)
    /\ UNCHANGED <<user, ws, sock, shown, db>>

ReadNotices(l) ==
    /\ load[l].live /\ ~load[l].answer.read
    /\ load' = [load EXCEPT ![l].answer = [read |-> TRUE, ids |-> created]]
    /\ UNCHANGED <<user, ws, sock, shown, db>>

\* After its first load, whatever became of it, the component subscribes and starts to
\* poll, even when it was unmounted in the meantime.
Mounted(l) ==
    IF ~load[l].first THEN UNCHANGED <<ws, sock, page>>
    ELSE /\ Commit(subscribe(Both, IF load[l].live THEN "live" ELSE "dead"))
         /\ page' = IF load[l].live THEN "ready" ELSE page

LoadAnswered(l) ==
    /\ load[l].live /\ load[l].answer.read
    /\ load' = [load EXCEPT ![l] = NoLoad]
    /\ listed' = SetToSeq(load[l].answer.ids)
    /\ Mounted(l)
    /\ UNCHANGED <<user, db>>

\* A load that is lost on either way reads nothing that matters.
LoadFailed(l) ==
    /\ load[l].open /\ ~load[l].answer.read
    /\ load' = [load EXCEPT ![l] = NoLoad]
    /\ Mounted(l)
    /\ UNCHANGED <<user, listed, db>>

-----------------------------------------------------------------------------
(* The user *)

\* Signing out disconnects first and then waits for the server.
StartLogout ==
    /\ token /\ ~leaving
    /\ leaving' = TRUE
    /\ LET b == disconnect(Both)
       IN  Commit(b) /\ Watcher(b)
    /\ UNCHANGED <<token, logins, shown, db>>

Unmount ==
    /\ page' = "none" /\ listed' = <<>>
    /\ load' = [l \in Loads |-> IF load[l].first THEN [NewLoad(TRUE) EXCEPT !.live = FALSE]
                                ELSE NoLoad]
    /\ Commit(unsubscribe(Both, "live"))

\* Signed out, or the session has ended without anyone disconnecting.
EndSession ==
    /\ token
    /\ token' = FALSE /\ leaving' = FALSE
    /\ Unmount
    /\ UNCHANGED <<logins, db>>

\* Signing in mounts the page, which connects and loads.
Login ==
    /\ ~token /\ logins < MaxLogins
    /\ token' = TRUE /\ logins' = logins + 1
    /\ page' = "loading"
    /\ StartLoad(TRUE)
    /\ FreeSockets(sock) # {}
    /\ LET b == connect(Both, TRUE, NewSocket)
       IN  Commit(b)
    /\ UNCHANGED <<leaving, listed, db>>

Next ==
    \/ \E s \in Sockets :
          \/ Accept(s) \/ Receive(s) \/ Break(s) \/ PeerClosed(s) \/ Close(s)
          \/ ReadLoop(s) \/ AuthTimeout(s)
    \/ Reconnect
    \/ \E n \in Notices : CreateNotice(n) \/ PushNotice(n)
    \/ Poll
    \/ \E l \in Loads : ReadNotices(l) \/ LoadAnswered(l) \/ LoadFailed(l)
    \/ StartLogout \/ EndSession \/ Login

Spec == Init /\ [][Next]_vars

\* A browser calls the handlers of its sockets and timers, a server reads what was sent
\* and times out, and a load that is repeated for ever does not fail for ever.
FairSpec ==
    /\ Spec
    /\ \A s \in Sockets :
          /\ WF_vars(Accept(s) \/ Refused(s))
          /\ WF_vars(Receive(s) \/ PeerClosed(s) \/ Close(s))
          /\ WF_vars(ReadLoop(s) \/ AuthTimeout(s))
    /\ WF_vars(Reconnect)
    /\ WF_vars(Poll)
    /\ \A l \in Loads : SF_vars(ReadNotices(l)) /\ WF_vars(LoadAnswered(l))

-----------------------------------------------------------------------------
(* Properties *)

\* A mounted page whose socket was not given up on purpose has one, or waits for a
\* close handler or the timer that will open one.
NeverStranded ==
    page # "none" /\ ~ws.manual =>
        \/ ws.timer
        \/ ws.cur # NoSocket /\ sock[ws.cur].state # "none"
        \/ \E s \in Sockets : sock[s].state = "closing"

\* When the messages of the current socket have arrived, the server sends events on it
\* exactly when somebody listens.
SubscriptionsAgree ==
    IsOpen(Both, ws.cur) =>
        LET c == sock[ws.cur]
        IN  c.up = <<>> /\ c.down = <<>> /\ c.peer = "up" /\ c.auth =>
                (c.subscribed <=> ws.subs # {})

Live(s) == sock[s].state = "open" /\ sock[s].auth /\ sock[s].subscribed

\* A page that stays connected is eventually subscribed on a socket it listens to.
ConnectedIsSubscribed ==
    <>[](page = "ready" /\ ws.connected) => []<>(\E s \in Sockets : Live(s))

\* What was missed without a connection is loaded: a page that is without one again
\* and again, or for good, ends up showing every notification.
MissedIsLoaded ==
    <>[](page = "ready") /\ []<>(~ws.connected) => <>[](created = Range(listed))

=============================================================================
