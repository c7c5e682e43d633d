--------------------------- MODULE LiveUpdatesProofs ---------------------------
(***************************************************************************)
(* The page is never left without a socket or an attempt at one, and at    *)
(* rest the server sends it what it wants, for any number of sockets,      *)
(* loads, notifications and logins.  The argument: whatever is under way   *)
(* between the current socket and the server leads both to agree when it   *)
(* has been read.  Each function of useWebSocket keeps this, and so does   *)
(* each step of the server; what an old socket still brings is read by     *)
(* the same functions and leaves the current one alone.                    *)
(***************************************************************************)
EXTENDS LiveUpdates, FiniteSetTheorems, TLAPS

\* What useWebSocket keeps between its calls, and what it and the sockets are together.
WebSocket == [cur : Sockets \cup {NoSocket}, timer : BOOLEAN, connected : BOOLEAN,
              authenticated : BOOLEAN, manual : BOOLEAN, subs : SUBSET {"live", "dead"}]
Pair == [ws : WebSocket, sock : [Sockets -> Socket]]

\* Whether a refusal or the answer to an authentication is on its way to the page.
Refusals == {"invalid", "required"}
Doomed(c) == \E i \in DOMAIN c.down : c.down[i] \in Refusals
Succeeds(c) == \E i \in DOMAIN c.down : c.down[i] = "success"

\* Whether the server will send events when it has read all it was sent.
Wanted(c) ==
    \/ c.subscribed /\ \A i \in DOMAIN c.up : c.up[i] = "auth"
    \/ \E i \in DOMAIN c.up :
          c.up[i] = "subscribe" /\ \A j \in DOMAIN c.up : j > i => c.up[j] = "auth"

\* What is true of each socket.
SocketInv(c) ==
    /\ Len(c.down) <= SendBuffer + 1
    /\ c.state # "open" =>
          c.peer = "none" /\ ~c.auth /\ ~c.subscribed /\ c.up = <<>> /\ c.down = <<>>
    /\ c.peer = "up" => Len(c.down) <= SendBuffer
    /\ c.peer = "up" /\ ~c.auth => \A i \in DOMAIN c.down : c.down[i] = "required"
    /\ ~c.auth => ~c.subscribed

\* What is true of the current one.
CurrentInv(w, c) ==
    c.state = "open" /\ c.peer = "up" /\ ~Doomed(c) =>
        /\ w.subs = {} => ~Wanted(c)
        /\ c.auth /\ ~w.authenticated => Succeeds(c)
        /\ c.auth /\ w.subs # {} => Wanted(c) \/ Succeeds(c)

\* The sockets are consistent with each other and with the state of useWebSocket.
Sound(b) ==
    /\ b \in Pair
    /\ \A s \in Sockets : SocketInv(b.sock[s])
    /\ b.ws.cur # NoSocket => CurrentInv(b.ws, b.sock[b.ws.cur])

\* A page holds on to a socket, a timer or its own decision to stop.
Held(b) ==
    \/ b.ws.manual \/ b.ws.timer
    \/ b.ws.cur # NoSocket /\ b.sock[b.ws.cur].state # "none"
    \/ \E s \in Sockets : b.sock[s].state = "closing"

\* The loads of the page are well-formed, and under way only while it is mounted.
LoadInv ==
    /\ load \in [Loads -> Load]
    /\ \A l \in Loads : IsFiniteSet(load[l].answer.ids)
    /\ \A l \in Loads : load[l].live => page # "none"

\* What the page and the database keep is well-formed.
DataInv ==
    /\ token \in BOOLEAN /\ leaving \in BOOLEAN /\ logins \in 0..MaxLogins
    /\ page \in {"none", "loading", "ready"} /\ (page # "none" => token)
    /\ listed \in Seq(Notices)
    /\ queue \subseteq created /\ created \subseteq Notices /\ IsFiniteSet(created)
    /\ LoadInv

\* The inductive invariant.
IInv ==
    /\ DataInv
    /\ Sound(Both)
    /\ page # "none" => Held(Both)

-----------------------------------------------------------------------------

\* What a message appended to a buffer leaves alone.
LEMMA AppendUp ==
  ASSUME NEW T, NEW q \in Seq(T), NEW x \in T
  PROVE  /\ Append(q, x) \in Seq(T)
         /\ DOMAIN Append(q, x) = 1..(Len(q) + 1)
         /\ DOMAIN q = 1..Len(q) /\ Len(q) \in Nat
         /\ \A i \in DOMAIN q : Append(q, x)[i] = q[i]
         /\ Append(q, x)[Len(q) + 1] = x
  OBVIOUS

\* What is left of a buffer when its first message is taken.
LEMMA TailOf ==
  ASSUME NEW T, NEW q \in Seq(T), q # <<>>
  PROVE  /\ Head(q) \in T /\ Head(q) = q[1]
         /\ Tail(q) \in Seq(T)
         /\ Len(q) \in Nat \ {0} /\ Len(Tail(q)) = Len(q) - 1
         /\ DOMAIN q = 1..Len(q) /\ DOMAIN Tail(q) = 1..(Len(q) - 1)
         /\ \A i \in DOMAIN Tail(q) : Tail(q)[i] = q[i + 1]
  OBVIOUS

\* A socket the server has nothing of.
Blank(st) == [Unused EXCEPT !.state = st]

\* A socket that is new, or given up, owes nothing to anybody.
LEMMA BlankSocket ==
  ASSUME NEW st \in {"none", "connecting", "closing"}
  PROVE  /\ Blank(st) \in Socket /\ Blank(st).state = st
         /\ SocketInv(Blank(st))
  <1>1. Unused \in Socket
    BY DEF Unused, Socket
  <1>2. Blank(st) \in Socket /\ Blank(st).state = st
    BY <1>1 DEF Blank, Socket
  <1>3. Blank(st).peer = "none" /\ Blank(st).up = <<>> /\ Blank(st).down = <<>>
    BY DEF Blank, Unused
  <1>4. ~Blank(st).auth /\ ~Blank(st).subscribed
    BY DEF Blank, Unused
  <1>5. SendBuffer \in Nat /\ Len(<<>>) = 0
    BY BoundsAssumption
  <1> QED
    BY <1>2, <1>3, <1>4, <1>5 DEF SocketInv

\* An unused socket is one of them.
LEMMA UnusedIsBlank == Unused = Blank("none")
  BY DEF Blank, Unused

\* A message appended to what the server is sent.
LEMMA Appended ==
  ASSUME NEW c \in Socket, NEW msg \in Requests
  PROVE  LET d == [c EXCEPT !.up = Append(c.up, msg)]
         IN  /\ d \in Socket
             /\ d.up = Append(c.up, msg)
             /\ d.state = c.state /\ d.peer = c.peer /\ d.auth = c.auth
             /\ d.subscribed = c.subscribed /\ d.down = c.down
  BY AppendUp DEF Socket

\* sendMessage adds to what the current socket sends, if it is open.
LEMMA SendMessageIs ==
  ASSUME NEW b \in Pair, NEW msg
  PROVE  sendMessage(b, msg) =
            IF IsOpen(b, b.ws.cur)
            THEN [ws |-> b.ws,
                  sock |-> [b.sock EXCEPT ![b.ws.cur] =
                                [b.sock[b.ws.cur] EXCEPT !.up = Append(b.sock[b.ws.cur].up, msg)]]]
            ELSE b
  BY DEF sendMessage, Pair

\* What is sent last decides what the server will do in the end.
LEMMA LastMessage ==
  ASSUME NEW c \in Socket
  PROVE  /\ Wanted([c EXCEPT !.up = Append(c.up, "subscribe")])
         /\ ~Wanted([c EXCEPT !.up = Append(c.up, "unsubscribe")])
         /\ Wanted([c EXCEPT !.up = Append(c.up, "auth")]) <=> Wanted(c)
  <1>1. c.up \in Seq(Requests) /\ c.up = c.up
    BY DEF Socket
  <1>2. \A x \in Requests :
          /\ DOMAIN Append(c.up, x) = 1..(Len(c.up) + 1)
          /\ DOMAIN c.up = 1..Len(c.up) /\ Len(c.up) \in Nat
          /\ \A i \in DOMAIN c.up : Append(c.up, x)[i] = c.up[i]
          /\ Append(c.up, x)[Len(c.up) + 1] = x
    BY <1>1, AppendUp
  <1>3. \A x \in Requests : LET d == [c EXCEPT !.up = Append(c.up, x)]
                            IN  d.up = Append(c.up, x) /\ d.subscribed = c.subscribed
    BY Appended
  <1>4. {"subscribe", "unsubscribe", "auth"} \subseteq Requests
    BY DEF Requests
  <1>5. Wanted([c EXCEPT !.up = Append(c.up, "subscribe")])
    BY <1>2, <1>3, <1>4 DEF Wanted
  <1>6. ~Wanted([c EXCEPT !.up = Append(c.up, "unsubscribe")])
    BY <1>2, <1>3, <1>4 DEF Wanted
  <1>7. Wanted([c EXCEPT !.up = Append(c.up, "auth")]) <=> Wanted(c)
    BY <1>2, <1>3, <1>4 DEF Wanted
  <1> QED
    BY <1>5, <1>6, <1>7

\* What the server does with its next message does not change that, once the token is in.
LEMMA MessageRead ==
  ASSUME NEW c \in Socket, c.up # <<>>, NEW d \in Socket, d.up = Tail(c.up),
         \/ c.up[1] = "auth" /\ (d.subscribed <=> c.subscribed)
         \/ c.up[1] # "auth" /\ (d.subscribed <=> c.up[1] = "subscribe")
  PROVE  Wanted(d) <=> Wanted(c)
  <1>1. c.up \in Seq(Requests)
    BY DEF Socket
  <1>2. /\ Len(c.up) \in Nat \ {0} /\ Len(d.up) = Len(c.up) - 1
        /\ DOMAIN c.up = 1..Len(c.up) /\ DOMAIN d.up = 1..(Len(c.up) - 1)
        /\ \A i \in DOMAIN d.up : d.up[i] = c.up[i + 1]
    BY <1>1, TailOf
  <1>3. c.up[1] \in Requests
    BY <1>1, <1>2
  <1>4. \A i \in DOMAIN c.up \ {1} : i - 1 \in DOMAIN d.up /\ d.up[i - 1] = c.up[i]
    BY <1>2
  <1>5. \A i \in DOMAIN d.up : i + 1 \in DOMAIN c.up \ {1}
    BY <1>2
  <1>6. ASSUME Wanted(c) PROVE Wanted(d)
    <2>1. CASE c.subscribed /\ \A i \in DOMAIN c.up : c.up[i] = "auth"
      <3>1. d.subscribed /\ \A i \in DOMAIN d.up : d.up[i] = "auth"
        BY <1>2, <1>5, <2>1
      <3> QED
        BY <3>1 DEF Wanted
    <2>2. CASE \E i \in DOMAIN c.up :
                  c.up[i] = "subscribe" /\ \A j \in DOMAIN c.up : j > i => c.up[j] = "auth"
      <3>1. PICK i \in DOMAIN c.up :
                  c.up[i] = "subscribe" /\ \A j \in DOMAIN c.up : j > i => c.up[j] = "auth"
        BY <2>2
      <3>2. CASE i = 1
        <4>1. \A j \in DOMAIN d.up : d.up[j] = "auth"
          BY <1>2, <1>5, <3>1, <3>2
        <4> QED
          BY <3>1, <3>2, <4>1 DEF Wanted
      <3>3. CASE i # 1
        <4>1. i - 1 \in DOMAIN d.up /\ d.up[i - 1] = "subscribe"
          BY <1>4, <3>1, <3>3
        <4>2. \A j \in DOMAIN d.up : j > i - 1 => d.up[j] = "auth"
          BY <1>2, <1>5, <3>1
        <4> QED
          BY <4>1, <4>2 DEF Wanted
      <3> QED
        BY <3>2, <3>3
    <2> QED
      BY <1>6, <2>1, <2>2 DEF Wanted
  <1>7. ASSUME Wanted(d) PROVE Wanted(c)
    <2>1. CASE d.subscribed /\ \A i \in DOMAIN d.up : d.up[i] = "auth"
      <3>1. \A i \in DOMAIN c.up \ {1} : c.up[i] = "auth"
        BY <1>4, <2>1
      <3>2. 1 \in DOMAIN c.up /\ \A j \in DOMAIN c.up : j > 1 => j \in DOMAIN c.up \ {1}
        BY <1>2
      <3> QED
        BY <2>1, <3>1, <3>2 DEF Wanted
    <2>2. CASE \E i \in DOMAIN d.up :
                  d.up[i] = "subscribe" /\ \A j \in DOMAIN d.up : j > i => d.up[j] = "auth"
      <3>1. PICK i \in DOMAIN d.up :
                  d.up[i] = "subscribe" /\ \A j \in DOMAIN d.up : j > i => d.up[j] = "auth"
        BY <2>2
      <3>2. i + 1 \in DOMAIN c.up /\ c.up[i + 1] = "subscribe"
        BY <1>2, <1>5, <3>1
      <3>3. \A j \in DOMAIN c.up : j > i + 1 => c.up[j] = "auth"
        <4> SUFFICES ASSUME NEW j \in DOMAIN c.up, j > i + 1 PROVE c.up[j] = "auth"
          OBVIOUS
        <4>1. j \in DOMAIN c.up \ {1} /\ j - 1 > i
          BY <1>2
        <4> QED
          BY <1>4, <3>1, <4>1
      <3> QED
        BY <3>2, <3>3 DEF Wanted
    <2> QED
      BY <1>7, <2>1, <2>2 DEF Wanted
  <1> QED
    BY <1>6, <1>7

-----------------------------------------------------------------------------
(* The functions of useWebSocket *)

\* One socket and the module's state are replaced.
LEMMA Replaced ==
  ASSUME NEW b \in Pair, \A k \in Sockets : SocketInv(b.sock[k]),
         NEW w \in WebSocket, NEW s \in Sockets, NEW c \in Socket, SocketInv(c),
         NEW d, d = [ws |-> w, sock |-> [b.sock EXCEPT ![s] = c]]
  PROVE  /\ d \in Pair /\ d.ws = w /\ \A k \in Sockets : SocketInv(d.sock[k])
         /\ d.sock[s] = c /\ \A k \in Sockets \ {s} : d.sock[k] = b.sock[k]
  BY DEF Pair

\* The two parts of the state, and their parts.
LEMMA PairIs ==
  ASSUME NEW b \in Pair
  PROVE  /\ b = [ws |-> b.ws, sock |-> b.sock]
         /\ b.ws \in WebSocket /\ b.sock \in [Sockets -> Socket]
         /\ \A s \in Sockets : b.sock[s] \in Socket
         /\ b.ws.cur # NoSocket => b.ws.cur \in Sockets
  BY DEF Pair, WebSocket

\* A message changes what is sent on the current socket and nothing else.
LEMMA SendMessageSound ==
  ASSUME NEW b \in Pair, NEW msg \in Requests,
         \A k \in Sockets : SocketInv(b.sock[k]),
         IsOpen(b, b.ws.cur) =>
            CurrentInv(b.ws, [b.sock[b.ws.cur] EXCEPT !.up = Append(b.sock[b.ws.cur].up, msg)])
  PROVE  /\ Sound(sendMessage(b, msg))
         /\ sendMessage(b, msg).ws = b.ws
         /\ \A k \in Sockets : sendMessage(b, msg).sock[k].state = b.sock[k].state
  <1> DEFINE s == b.ws.cur
             c == b.sock[s]
             d == [c EXCEPT !.up = Append(c.up, msg)]
             next == sendMessage(b, msg)
  <1>1. CASE ~IsOpen(b, s)
    <2>1. next = b
      BY <1>1, SendMessageIs
    <2>2. s # NoSocket => CurrentInv(b.ws, c)
      BY <1>1 DEF IsOpen, CurrentInv
    <2> QED
      BY <2>1, <2>2 DEF Sound
  <1>2. CASE IsOpen(b, s)
    <2>1. s # NoSocket /\ s \in Sockets /\ c \in Socket /\ c.state = "open" /\ SocketInv(c)
      BY <1>2, PairIs DEF IsOpen
    <2>2. /\ d \in Socket /\ d.state = "open" /\ d.peer = c.peer /\ d.auth = c.auth
          /\ d.subscribed = c.subscribed /\ d.down = c.down
      BY <2>1, Appended
    <2>3. next = [ws |-> b.ws, sock |-> [b.sock EXCEPT ![s] = d]]
      BY <1>2, SendMessageIs
    <2>4. CurrentInv(b.ws, d)
      BY <1>2
    <2> HIDE DEF d, next
    <2>5. SocketInv(d)
      BY <2>1, <2>2 DEF SocketInv
    <2>6. /\ next \in Pair /\ next.ws = b.ws /\ \A k \in Sockets : SocketInv(next.sock[k])
          /\ next.sock[s] = d /\ \A k \in Sockets \ {s} : next.sock[k] = b.sock[k]
      BY <2>1, <2>2, <2>3, <2>5, PairIs, Replaced
    <2>7. Sound(next)
      BY <2>4, <2>6 DEF Sound
    <2> QED
      BY <2>1, <2>2, <2>6, <2>7 DEF next
  <1> QED
    BY <1>1, <1>2

\* What keeps a page from being stranded survives a step that closes and forgets nothing.
LEMMA HeldKept ==
  ASSUME NEW b \in Pair, Held(b), NEW d,
         d.ws.manual = b.ws.manual, d.ws.timer = b.ws.timer, d.ws.cur = b.ws.cur,
         \A k \in Sockets : /\ b.sock[k].state # "none" => d.sock[k].state # "none"
                            /\ b.sock[k].state = "closing" => d.sock[k].state = "closing"
  PROVE  Held(d)
  BY PairIs DEF Held

\* A socket opens and the token goes out on the current one.
LEMMA OnOpenSound ==
  ASSUME NEW b, Sound(b), NEW s \in Sockets, b.sock[s].state = "connecting"
  PROVE  Sound(onopen(b, s)) /\ (Held(b) => Held(onopen(b, s)))
  <1> DEFINE w == [b.ws EXCEPT !.connected = TRUE]
             c == [b.sock[s] EXCEPT !.state = "open", !.peer = "up"]
             d == [ws |-> w, sock |-> [b.sock EXCEPT ![s] = c]]
  <1>1. /\ b \in Pair /\ b.ws \in WebSocket /\ b.sock[s] \in Socket
        /\ \A k \in Sockets : SocketInv(b.sock[k])
    BY PairIs DEF Sound
  <1>2. onopen(b, s) = sendAuth(d)
    <2> DEFINE c1 == [b.sock[s] EXCEPT !.state = "open"]
               e == [ws |-> b.ws, sock |-> [b.sock EXCEPT ![s] = c1]]
               f == [ws |-> b.ws, sock |-> [b.sock EXCEPT ![s] = c]]
    <2>1. [b EXCEPT !.sock[s].state = "open"] = e
      BY <1>1 DEF Pair
    <2>2. c1 \in Socket /\ c \in Socket /\ [c1 EXCEPT !.peer = "up"] = c
      BY <1>1 DEF Socket
    <2> HIDE DEF c1, c
    <2>3. e \in Pair /\ e.ws = b.ws /\ e.sock[s] = c1 /\ [e.sock EXCEPT ![s] = c] = [b.sock EXCEPT ![s] = c]
      BY <1>1, <2>2 DEF Pair
    <2> HIDE DEF e
    <2>4. [e EXCEPT !.sock[s].peer = "up"] = f
      BY <2>2, <2>3 DEF Pair
    <2>5. [f EXCEPT !.ws.connected = TRUE] = d
      <3>1. f \in Pair /\ f.ws = b.ws /\ f.sock = [b.sock EXCEPT ![s] = c]
        BY <1>1, <2>2 DEF Pair
      <3> HIDE DEF f
      <3>2. [f EXCEPT !.ws.connected = TRUE] = [f EXCEPT !.ws = w]
        BY <3>1
      <3> HIDE DEF w
      <3>3. [f EXCEPT !.ws = w] = d
        BY <3>1 DEF Pair
      <3> QED
        BY <3>2, <3>3
    <2> HIDE DEF d, f
    <2> QED
      BY <2>1, <2>4, <2>5, Zenon DEF onopen
  <1>3. /\ w \in WebSocket /\ w.cur = b.ws.cur /\ w.timer = b.ws.timer
        /\ w.manual = b.ws.manual /\ w.subs = b.ws.subs /\ w.authenticated = b.ws.authenticated
    BY <1>1 DEF WebSocket
  <1>4. /\ c \in Socket /\ c.state = "open" /\ c.peer = "up" /\ c.up = <<>> /\ c.down = <<>>
        /\ ~c.auth /\ ~c.subscribed
    <2>1. /\ b.sock[s].up = <<>> /\ b.sock[s].down = <<>>
          /\ ~b.sock[s].auth /\ ~b.sock[s].subscribed
      BY <1>1 DEF SocketInv
    <2> QED
      BY <1>1, <2>1 DEF Socket
  <1> HIDE DEF w, c
  <1>5. SocketInv(c)
    BY <1>4, BoundsAssumption DEF SocketInv
  <1>6. /\ d \in Pair /\ d.ws = w /\ \A k \in Sockets : SocketInv(d.sock[k])
        /\ d.sock[s] = c /\ \A k \in Sockets \ {s} : d.sock[k] = b.sock[k]
    BY <1>1, <1>3, <1>4, <1>5, Replaced
  <1> HIDE DEF d
  <1>7. ASSUME w.cur # NoSocket PROVE CurrentInv(w, d.sock[w.cur])
    <2>1. CASE w.cur = s
      <3>1. ~Wanted(c)
        BY <1>4 DEF Wanted
      <3> QED
        BY <1>4, <1>6, <2>1, <3>1 DEF CurrentInv
    <2>2. CASE w.cur # s
      <3>1. d.sock[w.cur] = b.sock[w.cur] /\ CurrentInv(b.ws, b.sock[w.cur])
        BY <1>1, <1>3, <1>6, <1>7, <2>2, PairIs DEF Sound
      <3> QED
        BY <1>3, <3>1 DEF CurrentInv
    <2> QED
      BY <2>1, <2>2
  <1>8. Sound(d)
    BY <1>6, <1>7 DEF Sound
  <1>9. Held(b) => Held(d)
    BY <1>1, <1>3, <1>4, <1>6, HeldKept
  <1>10. CASE ~token
    BY <1>2, <1>8, <1>9, <1>10 DEF sendAuth
  <1>11. CASE token
    <2> DEFINE k == d.ws.cur
               next == sendMessage(d, "auth")
    <2>1. onopen(b, s) = next
      BY <1>2, <1>11 DEF sendAuth
    <2>2. ASSUME IsOpen(d, k)
          PROVE  CurrentInv(d.ws, [d.sock[k] EXCEPT !.up = Append(d.sock[k].up, "auth")])
      <3> DEFINE e == [d.sock[k] EXCEPT !.up = Append(d.sock[k].up, "auth")]
      <3>1. k # NoSocket /\ d.sock[k] \in Socket /\ "auth" \in Requests
        BY <1>6, <2>2, PairIs DEF IsOpen, Requests
      <3>2. /\ e.state = d.sock[k].state /\ e.peer = d.sock[k].peer /\ e.auth = d.sock[k].auth
            /\ e.down = d.sock[k].down
        BY <3>1, Appended
      <3>3. Wanted(e) <=> Wanted(d.sock[k])
        BY <3>1, LastMessage
      <3> HIDE DEF e
      <3>4. CurrentInv(d.ws, d.sock[k])
        BY <1>8, <3>1 DEF Sound
      <3>5. CurrentInv(d.ws, e)
        BY <3>2, <3>3, <3>4 DEF CurrentInv, Doomed, Succeeds
      <3> QED
        BY <3>5 DEF e
    <2>3. /\ Sound(next) /\ next.ws = d.ws
          /\ \A j \in Sockets : next.sock[j].state = d.sock[j].state
      BY <1>6, <2>2, SendMessageSound DEF Requests
    <2> HIDE DEF next
    <2>4. Held(d) => Held(next)
      BY <1>6, <2>3, HeldKept
    <2> QED
      BY <1>9, <2>1, <2>3, <2>4
  <1> QED
    BY <1>10, <1>11

\* A close handler forgets the current socket and sees to the next attempt.
LEMMA OnCloseSound ==
  ASSUME NEW b, Sound(b), NEW s \in Sockets
  PROVE  Sound(onclose(b, s)) /\ Held(onclose(b, s))
  <1> DEFINE w == [b.ws EXCEPT !.connected = FALSE, !.authenticated = FALSE, !.cur = NoSocket]
             v == IF w.manual THEN w ELSE [w EXCEPT !.timer = TRUE]
             d == [ws |-> v, sock |-> [b.sock EXCEPT ![s] = Blank("none")]]
  <1>1. /\ b \in Pair /\ b.ws \in WebSocket
        /\ \A k \in Sockets : SocketInv(b.sock[k])
    BY PairIs DEF Sound
  <1>2. onclose(b, s) = d
    BY <1>1, UnusedIsBlank DEF onclose, scheduleReconnect, Pair
  <1>3. w \in WebSocket /\ w.cur = NoSocket
    BY <1>1 DEF WebSocket
  <1>4. v \in WebSocket /\ v.cur = NoSocket /\ (v.manual \/ v.timer)
    BY <1>3 DEF WebSocket
  <1> HIDE DEF w, v
  <1>5. d \in Pair /\ d.ws = v /\ \A k \in Sockets : SocketInv(d.sock[k])
    BY <1>1, <1>4, BlankSocket, Replaced
  <1> HIDE DEF d
  <1> QED
    BY <1>2, <1>4, <1>5 DEF Sound, Held

\* The current socket is closed and forgotten.
LEMMA CloseCurrentIs ==
  ASSUME NEW b \in Pair, \A k \in Sockets : SocketInv(b.sock[k])
  PROVE  LET d == CloseCurrent(b)
         IN  /\ d \in Pair /\ d.ws = [b.ws EXCEPT !.cur = NoSocket]
             /\ \A k \in Sockets : SocketInv(d.sock[k])
  <1> DEFINE s == b.ws.cur
             w == [b.ws EXCEPT !.cur = NoSocket]
             d == CloseCurrent(b)
  <1>1. b.ws \in WebSocket /\ w \in WebSocket
    BY PairIs DEF WebSocket
  <1>2. CASE s = NoSocket
    <2>1. d = b
      BY <1>2 DEF CloseCurrent
    <2>2. w = b.ws
      BY <1>1, <1>2 DEF WebSocket
    <2> QED
      BY <2>1, <2>2
  <1>3. CASE s # NoSocket
    <2>1. s \in Sockets
      BY <1>3, PairIs
    <2>2. d = [ws |-> w, sock |-> [b.sock EXCEPT ![s] = Blank("closing")]]
      BY <1>3 DEF CloseCurrent, Pair, Blank
    <2> HIDE DEF w, d
    <2>3. d \in Pair /\ d.ws = w /\ \A k \in Sockets : SocketInv(d.sock[k])
      BY <1>1, <2>1, <2>2, BlankSocket, Replaced
    <2> QED
      BY <2>3 DEF w, d
  <1> QED
    BY <1>2, <1>3

\* A refusal ends the attempts.
LEMMA OnRefusedSound ==
  ASSUME NEW b \in Pair, \A k \in Sockets : SocketInv(b.sock[k])
  PROVE  Sound(OnRefused(b)) /\ Held(OnRefused(b))
  <1> DEFINE w == [b.ws EXCEPT !.manual = TRUE, !.authenticated = FALSE, !.connected = FALSE]
             e == [ws |-> w, sock |-> b.sock]
             d == CloseCurrent(e)
  <1>1. OnRefused(b) = d
    BY DEF OnRefused, Pair
  <1>2. b.ws \in WebSocket /\ w \in WebSocket /\ w.manual
    BY PairIs DEF WebSocket
  <1> HIDE DEF w
  <1>3. e \in Pair /\ e.ws = w /\ \A k \in Sockets : SocketInv(e.sock[k])
    BY <1>2 DEF Pair
  <1> HIDE DEF e
  <1>4. /\ d \in Pair /\ d.ws = [w EXCEPT !.cur = NoSocket]
        /\ \A k \in Sockets : SocketInv(d.sock[k])
    BY <1>3, CloseCurrentIs
  <1> HIDE DEF d
  <1>5. d.ws.manual /\ d.ws.cur = NoSocket
    BY <1>2, <1>4 DEF WebSocket
  <1> QED
    BY <1>1, <1>4, <1>5 DEF Sound, Held

\* Disconnecting on purpose.
LEMMA DisconnectSound ==
  ASSUME NEW b, Sound(b)
  PROVE  Sound(disconnect(b)) /\ Held(disconnect(b))
  <1> DEFINE c == CloseCurrent(b)
             w == [c.ws EXCEPT !.manual = TRUE, !.timer = FALSE, !.connected = FALSE,
                               !.authenticated = FALSE, !.subs = {}]
             d == [ws |-> w, sock |-> c.sock]
  <1>1. /\ c \in Pair /\ c.ws = [b.ws EXCEPT !.cur = NoSocket] /\ b.ws \in WebSocket
        /\ \A k \in Sockets : SocketInv(c.sock[k])
    BY CloseCurrentIs, PairIs DEF Sound
  <1>2. disconnect(b) = [c EXCEPT !.ws = [@ EXCEPT !.manual = TRUE, !.timer = FALSE,
                             !.connected = FALSE, !.authenticated = FALSE, !.subs = {}]]
    BY DEF disconnect
  <1> HIDE DEF c
  <1>3. disconnect(b) = d
    BY <1>1, <1>2 DEF Pair
  <1>4. c.ws \in WebSocket /\ c.ws.cur = NoSocket
    BY <1>1 DEF WebSocket
  <1>5. w \in WebSocket /\ w.cur = NoSocket /\ w.manual
    BY <1>4 DEF WebSocket
  <1> HIDE DEF w
  <1>6. d \in Pair /\ d.ws = w /\ \A k \in Sockets : SocketInv(d.sock[k])
    BY <1>1, <1>5 DEF Pair
  <1> HIDE DEF d
  <1> QED
    BY <1>3, <1>5, <1>6 DEF Sound, Held

\* A new socket is current from the start.
LEMMA ConnectSound ==
  ASSUME NEW b, Sound(b), NEW hasToken, NEW s \in Sockets
  PROVE  /\ Sound(connect(b, hasToken, s))
         /\ hasToken => Held(connect(b, hasToken, s))
  <1> DEFINE w == [b.ws EXCEPT !.manual = FALSE, !.authenticated = FALSE, !.cur = s]
             d == [ws |-> w, sock |-> [b.sock EXCEPT ![s] = Blank("connecting")]]
  <1>1. /\ b \in Pair /\ b.ws \in WebSocket
        /\ \A k \in Sockets : SocketInv(b.sock[k])
    BY PairIs DEF Sound
  <1>2. CASE HasSocket(b) \/ ~hasToken
    <2>1. connect(b, hasToken, s) = b
      BY <1>2 DEF connect
    <2>2. HasSocket(b) => Held(b)
      BY DEF HasSocket, Held
    <2> QED
      BY <1>2, <2>1, <2>2
  <1>3. CASE ~(HasSocket(b) \/ ~hasToken)
    <2>1. connect(b, hasToken, s) = d
      BY <1>1, <1>3 DEF connect, Connecting, Blank
    <2>2. w \in WebSocket /\ w.cur = s
      BY <1>1 DEF WebSocket
    <2> HIDE DEF w
    <2>3. /\ d \in Pair /\ d.ws = w /\ \A k \in Sockets : SocketInv(d.sock[k])
          /\ d.sock[s] = Blank("connecting")
      BY <1>1, <2>2, BlankSocket, Replaced
    <2> HIDE DEF d
    <2>4. d.sock[s].state = "connecting"
      BY <2>3, BlankSocket
    <2>5. CurrentInv(d.ws, d.sock[d.ws.cur])
      BY <2>2, <2>3, <2>4 DEF CurrentInv
    <2> QED
      BY <2>1, <2>2, <2>3, <2>4, <2>5, SocketsAssumption DEF Sound, Held
  <1> QED
    BY <1>2, <1>3

\* A listener is added; the server is told if it knows the session.
LEMMA SubscribeSound ==
  ASSUME NEW b, Sound(b), NEW who \in {"live", "dead"}
  PROVE  Sound(subscribe(b, who)) /\ (Held(b) => Held(subscribe(b, who)))
  <1> DEFINE w == [b.ws EXCEPT !.subs = b.ws.subs \cup {who}]
             d == [ws |-> w, sock |-> b.sock]
             k == b.ws.cur
             next == subscribe(b, who)
  <1>1. /\ b \in Pair /\ b.ws \in WebSocket
        /\ \A j \in Sockets : SocketInv(b.sock[j])
    BY PairIs DEF Sound
  <1>2. next = IF b.ws.authenticated THEN sendMessage(d, "subscribe") ELSE d
    BY <1>1 DEF subscribe, Pair
  <1>3. /\ w \in WebSocket /\ w.cur = k /\ w.manual = b.ws.manual /\ w.timer = b.ws.timer
        /\ w.authenticated = b.ws.authenticated /\ w.subs # {}
    BY <1>1 DEF WebSocket
  <1> HIDE DEF w
  <1>4. d \in Pair /\ d.ws = w /\ d.sock = b.sock
    BY <1>1, <1>3 DEF Pair
  <1> HIDE DEF d
  <1>5. Held(b) => Held(d)
    BY <1>1, <1>3, <1>4, HeldKept
  <1>6. CASE ~b.ws.authenticated
    <2>1. ASSUME k # NoSocket PROVE CurrentInv(d.ws, d.sock[k])
      <3>1. CurrentInv(b.ws, b.sock[k])
        BY <2>1 DEF Sound
      <3> QED
        BY <1>3, <1>4, <1>6, <3>1 DEF CurrentInv
    <2>2. Sound(d)
      BY <1>1, <1>3, <1>4, <2>1 DEF Sound
    <2> QED
      BY <1>2, <1>5, <1>6, <2>2
  <1>7. CASE b.ws.authenticated
    <2> HIDE DEF next
    <2>1. next = sendMessage(d, "subscribe")
      BY <1>2, <1>7
    <2>2. ASSUME IsOpen(d, k)
          PROVE  CurrentInv(d.ws, [d.sock[k] EXCEPT !.up = Append(d.sock[k].up, "subscribe")])
      <3>1. d.sock[k] \in Socket
        BY <1>1, <1>4, <2>2, PairIs DEF IsOpen
      <3> QED
        BY <1>3, <1>4, <1>7, <3>1, LastMessage DEF CurrentInv
    <2>3. /\ Sound(next) /\ next.ws = d.ws
          /\ \A j \in Sockets : next.sock[j].state = d.sock[j].state
      BY <1>1, <1>3, <1>4, <2>1, <2>2, SendMessageSound DEF Requests
    <2>4. Held(d) => Held(next)
      BY <1>4, <2>3, HeldKept
    <2> QED
      BY <1>5, <2>3, <2>4 DEF next
  <1> QED
    BY <1>6, <1>7

\* A listener is removed; the server is told when it was the last one.
LEMMA UnsubscribeSound ==
  ASSUME NEW b, Sound(b), NEW who
  PROVE  Sound(unsubscribe(b, who))
  <1> DEFINE w == [b.ws EXCEPT !.subs = b.ws.subs \ {who}]
             d == [ws |-> w, sock |-> b.sock]
             k == b.ws.cur
  <1>1. /\ b \in Pair /\ b.ws \in WebSocket
        /\ \A j \in Sockets : SocketInv(b.sock[j])
    BY PairIs DEF Sound
  <1>2. unsubscribe(b, who) = IF b.ws.subs = {who} THEN sendMessage(d, "unsubscribe") ELSE d
    BY <1>1 DEF unsubscribe, Pair
  <1>3. /\ w \in WebSocket /\ w.cur = k /\ w.authenticated = b.ws.authenticated
        /\ w.subs = b.ws.subs \ {who}
    BY <1>1 DEF WebSocket
  <1> HIDE DEF w
  <1>4. d \in Pair /\ d.ws = w /\ d.sock = b.sock
    BY <1>1, <1>3 DEF Pair
  <1> HIDE DEF d
  <1>5. CASE b.ws.subs # {who}
    <2>1. ASSUME k # NoSocket PROVE CurrentInv(d.ws, d.sock[k])
      <3>1. CurrentInv(b.ws, b.sock[k])
        BY <2>1 DEF Sound
      <3>2. w.subs = {} <=> b.ws.subs = {}
        BY <1>3, <1>5
      <3> QED
        BY <1>3, <1>4, <3>1, <3>2 DEF CurrentInv
    <2>2. Sound(d)
      BY <1>1, <1>3, <1>4, <2>1 DEF Sound
    <2> QED
      BY <1>2, <1>5, <2>2
  <1>6. CASE b.ws.subs = {who}
    <2>1. ASSUME IsOpen(d, k)
          PROVE  CurrentInv(d.ws, [d.sock[k] EXCEPT !.up = Append(d.sock[k].up, "unsubscribe")])
      <3> DEFINE e == [d.sock[k] EXCEPT !.up = Append(d.sock[k].up, "unsubscribe")]
      <3>1. d.sock[k] \in Socket /\ k # NoSocket /\ "unsubscribe" \in Requests
        BY <1>1, <1>4, <2>1, PairIs DEF IsOpen, Requests
      <3>2. /\ ~Wanted(e)
            /\ e.state = d.sock[k].state /\ e.peer = d.sock[k].peer /\ e.auth = d.sock[k].auth
            /\ e.down = d.sock[k].down
        BY <3>1, LastMessage, Appended
      <3>3. CurrentInv(b.ws, b.sock[k]) /\ w.subs = {}
        BY <1>3, <1>6, <3>1 DEF Sound
      <3> HIDE DEF e
      <3>4. CurrentInv(d.ws, e)
        BY <1>3, <1>4, <3>2, <3>3 DEF CurrentInv, Doomed, Succeeds
      <3> QED
        BY <3>4 DEF e
    <2>2. Sound(sendMessage(d, "unsubscribe"))
      BY <1>1, <1>3, <1>4, <2>1, SendMessageSound DEF Requests
    <2> QED
      BY <1>2, <1>6, <2>2
  <1> QED
    BY <1>5, <1>6

-----------------------------------------------------------------------------
(* The messages of one socket *)

\* One socket changes and the module's state does not.
LEMMA OneSocket ==
  ASSUME NEW b, Sound(b), NEW s \in Sockets, NEW c \in Socket, SocketInv(c),
         s = b.ws.cur => CurrentInv(b.ws, c),
         b.sock[s].state # "none" => c.state # "none",
         b.sock[s].state = "closing" => c.state = "closing",
         NEW d, d = [ws |-> b.ws, sock |-> [b.sock EXCEPT ![s] = c]]
  PROVE  Sound(d) /\ (Held(b) => Held(d))
  <1>1. b \in Pair /\ b.ws \in WebSocket /\ \A k \in Sockets : SocketInv(b.sock[k])
    BY PairIs DEF Sound
  <1>2. /\ d \in Pair /\ d.ws = b.ws /\ \A k \in Sockets : SocketInv(d.sock[k])
        /\ d.sock[s] = c /\ \A k \in Sockets \ {s} : d.sock[k] = b.sock[k]
    BY <1>1 DEF Pair
  <1>3. ASSUME b.ws.cur # NoSocket PROVE CurrentInv(b.ws, d.sock[b.ws.cur])
    <2>1. b.ws.cur \in Sockets /\ CurrentInv(b.ws, b.sock[b.ws.cur])
      BY <1>1, <1>3, PairIs DEF Sound
    <2> QED
      BY <1>2, <2>1
  <1>4. Sound(d)
    BY <1>2, <1>3 DEF Sound
  <1>5. Held(b) => Held(d)
    <2>1. \A k \in Sockets : /\ b.sock[k].state # "none" => d.sock[k].state # "none"
                             /\ b.sock[k].state = "closing" => d.sock[k].state = "closing"
      BY <1>2
    <2> QED
      BY <1>1, <1>2, <2>1, HeldKept
  <1> QED
    BY <1>4, <1>5

\* The page takes the next message from a socket.
LEMMA MessageTaken ==
  ASSUME NEW c \in Socket, SocketInv(c), c.state = "open", c.down # <<>>,
         NEW e, e = [c EXCEPT !.down = Tail(c.down)]
  PROVE  /\ e \in Socket /\ SocketInv(e)
         /\ e.state = "open" /\ e.peer = c.peer /\ e.auth = c.auth
         /\ Wanted(e) <=> Wanted(c)
         /\ Head(c.down) \in Replies \cup Notices
         /\ Head(c.down) \notin Refusals => (Doomed(e) <=> Doomed(c))
         /\ Head(c.down) # "success" => (Succeeds(e) <=> Succeeds(c))
  <1>1. c.down \in Seq(Replies \cup Notices)
    BY DEF Socket
  <1>2. /\ Head(c.down) \in Replies \cup Notices /\ Head(c.down) = c.down[1]
        /\ Tail(c.down) \in Seq(Replies \cup Notices)
        /\ Len(c.down) \in Nat \ {0} /\ Len(Tail(c.down)) = Len(c.down) - 1
        /\ DOMAIN c.down = 1..Len(c.down) /\ DOMAIN Tail(c.down) = 1..(Len(c.down) - 1)
        /\ \A i \in DOMAIN Tail(c.down) : Tail(c.down)[i] = c.down[i + 1]
    BY <1>1, TailOf
  <1>3. /\ e \in Socket /\ e.down = Tail(c.down) /\ e.up = c.up
        /\ e.state = "open" /\ e.peer = c.peer /\ e.auth = c.auth /\ e.subscribed = c.subscribed
    BY <1>2 DEF Socket
  <1>4. SocketInv(e)
    <2>1. \A i \in DOMAIN e.down : i + 1 \in DOMAIN c.down /\ e.down[i] = c.down[i + 1]
      BY <1>2, <1>3
    <2>2. SendBuffer \in Nat
      BY BoundsAssumption
    <2> QED
      BY <1>2, <1>3, <2>1, <2>2 DEF SocketInv
  <1>5. Wanted(e) <=> Wanted(c)
    BY <1>3 DEF Wanted
  <1>6. \A x : x # c.down[1] =>
          ((\E i \in DOMAIN e.down : e.down[i] = x) <=> (\E i \in DOMAIN c.down : c.down[i] = x))
    <2> SUFFICES ASSUME NEW x, x # c.down[1]
                 PROVE  (\E i \in DOMAIN e.down : e.down[i] = x)
                           <=> (\E i \in DOMAIN c.down : c.down[i] = x)
      OBVIOUS
    <2>1. ASSUME NEW i \in DOMAIN e.down, e.down[i] = x
          PROVE  \E j \in DOMAIN c.down : c.down[j] = x
      <3>1. i + 1 \in DOMAIN c.down /\ c.down[i + 1] = x
        BY <1>2, <1>3, <2>1
      <3> QED
        BY <3>1
    <2>2. ASSUME NEW i \in DOMAIN c.down, c.down[i] = x
          PROVE  \E j \in DOMAIN e.down : e.down[j] = x
      <3>1. i # 1
        BY <2>2
      <3>2. i - 1 \in DOMAIN e.down /\ e.down[i - 1] = x
        BY <1>2, <1>3, <2>2, <3>1
      <3> QED
        BY <3>2
    <2> QED
      BY <2>1, <2>2
  <1>7. Head(c.down) # "success" => (Succeeds(e) <=> Succeeds(c))
    BY <1>2, <1>6 DEF Succeeds
  <1>8. Head(c.down) \notin Refusals => (Doomed(e) <=> Doomed(c))
    <2>1. \A f \in {c, e} : Doomed(f) <=> \/ \E i \in DOMAIN f.down : f.down[i] = "invalid"
                                         \/ \E i \in DOMAIN f.down : f.down[i] = "required"
      BY DEF Doomed, Refusals
    <2> QED
      BY <1>2, <1>6, <2>1 DEF Refusals
  <1> QED
    BY <1>2, <1>3, <1>4, <1>5, <1>7, <1>8

\* A message is put into the buffer of a connection.
Filled(c, x) == [c EXCEPT !.down = Append(c.down, x)]

\* It changes nothing else of the connection.
LEMMA DownAppended ==
  ASSUME NEW c \in Socket, NEW x \in Replies \cup Notices
  PROVE  /\ Filled(c, x) \in Socket /\ Len(Filled(c, x).down) = Len(c.down) + 1
         /\ Filled(c, x).state = c.state /\ Filled(c, x).peer = c.peer
         /\ Filled(c, x).auth = c.auth /\ Filled(c, x).subscribed = c.subscribed
         /\ Filled(c, x).up = c.up
  <1>1. c.down \in Seq(Replies \cup Notices)
    BY DEF Socket
  <1>2. /\ Append(c.down, x) \in Seq(Replies \cup Notices)
        /\ Len(Append(c.down, x)) = Len(c.down) + 1
    BY <1>1
  <1> QED
    BY <1>2 DEF Socket, Filled

\* The buffer then holds what it held, and the message.
LEMMA DownContents ==
  ASSUME NEW c \in Socket, NEW x \in Replies \cup Notices
  PROVE  /\ \A i \in DOMAIN Filled(c, x).down :
               \/ i \in DOMAIN c.down /\ Filled(c, x).down[i] = c.down[i]
               \/ Filled(c, x).down[i] = x
         /\ \A i \in DOMAIN c.down :
               i \in DOMAIN Filled(c, x).down /\ Filled(c, x).down[i] = c.down[i]
         /\ \E i \in DOMAIN Filled(c, x).down : Filled(c, x).down[i] = x
  <1> DEFINE e == Filled(c, x)
  <1>1. c.down \in Seq(Replies \cup Notices)
    BY DEF Socket
  <1>2. /\ Append(c.down, x) \in Seq(Replies \cup Notices)
        /\ DOMAIN Append(c.down, x) = 1..(Len(c.down) + 1)
        /\ DOMAIN c.down = 1..Len(c.down) /\ Len(c.down) \in Nat
        /\ \A i \in DOMAIN c.down : Append(c.down, x)[i] = c.down[i]
        /\ Append(c.down, x)[Len(c.down) + 1] = x
    BY <1>1
  <1>3. e.down = Append(c.down, x)
    BY DEF Socket, Filled
  <1> HIDE DEF e
  <1>5. /\ \A i \in DOMAIN e.down : \/ i \in DOMAIN c.down /\ e.down[i] = c.down[i]
                                    \/ e.down[i] = x
        /\ \A i \in DOMAIN c.down : i \in DOMAIN e.down /\ e.down[i] = c.down[i]
        /\ \E i \in DOMAIN e.down : e.down[i] = x
    BY <1>2, <1>3
  <1> QED
    BY <1>5 DEF e

\* Only a refusal dooms a connection, and only a success makes one succeed.
LEMMA DownMeans ==
  ASSUME NEW c \in Socket, NEW x \in Replies \cup Notices
  PROVE  /\ x \notin Refusals => (Doomed(Filled(c, x)) <=> Doomed(c))
         /\ x \in Refusals => Doomed(Filled(c, x))
         /\ x # "success" => (Succeeds(Filled(c, x)) <=> Succeeds(c))
         /\ x = "success" => Succeeds(Filled(c, x))
         /\ Wanted(Filled(c, x)) <=> Wanted(c)
  <1>1. Wanted(Filled(c, x)) <=> Wanted(c)
    BY DownAppended DEF Wanted
  <1>2. /\ x \notin Refusals => (Doomed(Filled(c, x)) <=> Doomed(c))
        /\ x \in Refusals => Doomed(Filled(c, x))
    BY DownContents DEF Doomed
  <1>3. /\ x # "success" => (Succeeds(Filled(c, x)) <=> Succeeds(c))
        /\ x = "success" => Succeeds(Filled(c, x))
    BY DownContents DEF Succeeds
  <1> QED
    BY <1>1, <1>2, <1>3

\* The server pushes an event to a subscribed connection, if there is room for it.
LEMMA EventPut ==
  ASSUME NEW c \in Socket, SocketInv(c), c.peer = "up", c.auth, NEW n \in Notices,
         NEW w \in WebSocket
  PROVE  /\ Put(c, n) \in Socket /\ SocketInv(Put(c, n)) /\ Put(c, n).state = c.state
         /\ CurrentInv(w, c) => CurrentInv(w, Put(c, n))
  <1>1. CASE ~(Len(c.down) < SendBuffer)
    BY <1>1 DEF Put
  <1>2. CASE Len(c.down) < SendBuffer
    <2> DEFINE e == Filled(c, n)
    <2>1. Put(c, n) = e
      BY <1>2 DEF Put, Filled
    <2>2. n \in Replies \cup Notices /\ n \notin Refusals /\ n # "success"
      BY NoticesAssumption DEF Replies, Refusals
    <2>3. /\ e \in Socket /\ Len(e.down) = Len(c.down) + 1
          /\ e.state = c.state /\ e.peer = c.peer /\ e.auth = c.auth
          /\ e.subscribed = c.subscribed /\ e.up = c.up
      BY <2>2, DownAppended
    <2>4. /\ Doomed(e) <=> Doomed(c)
          /\ Succeeds(e) <=> Succeeds(c)
          /\ Wanted(e) <=> Wanted(c)
      BY <2>2, DownMeans
    <2> HIDE DEF e
    <2>5. SocketInv(e)
      <3>1. Len(c.down) \in Nat
        BY DEF Socket
      <3> QED
        BY <1>2, <2>3, <3>1, BoundsAssumption DEF SocketInv
    <2>6. CurrentInv(w, c) => CurrentInv(w, e)
      BY <2>3, <2>4 DEF CurrentInv
    <2> QED
      BY <2>1, <2>3, <2>5, <2>6
  <1> QED
    BY <1>1, <1>2

\* The server reads the next message of a connection.
LEMMA MessageHandled ==
  ASSUME NEW c \in Socket, SocketInv(c), c.peer = "up", c.up # <<>>,
         NEW valid \in BOOLEAN, NEW w \in WebSocket,
         NEW r, r = [c EXCEPT !.up = Tail(c.up)],
         NEW e, e = IF Head(c.up) = "auth" THEN handleAuth(r, valid)
                    ELSE handleSubscription(r, Head(c.up) = "subscribe")
  PROVE  /\ e \in Socket /\ SocketInv(e) /\ e.state = c.state
         /\ CurrentInv(w, c) => CurrentInv(w, e)
  <1> USE BoundsAssumption
  <1>1. c.up \in Seq(Requests) /\ c.down \in Seq(Replies \cup Notices) /\ Len(c.down) \in Nat
    BY DEF Socket
  <1>2. Head(c.up) = c.up[1] /\ Head(c.up) \in Requests /\ Tail(c.up) \in Seq(Requests)
    BY <1>1, TailOf
  <1>3. c.state = "open" /\ Len(c.down) <= SendBuffer
    BY DEF SocketInv
  <1>4. /\ r \in Socket /\ r.up = Tail(c.up) /\ r.down = c.down /\ r.state = "open"
        /\ r.peer = "up" /\ r.auth = c.auth /\ r.subscribed = c.subscribed
    BY <1>2, <1>3 DEF Socket
  <1>5. SocketInv(r)
    BY <1>4 DEF SocketInv
  <1>6. (Doomed(r) <=> Doomed(c)) /\ (Succeeds(r) <=> Succeeds(c))
    BY <1>4 DEF Doomed, Succeeds
  <1>7. CASE Head(c.up) = "auth"
    <2>1. Wanted(r) <=> Wanted(c)
      <3>1. c.up[1] = "auth" /\ (r.subscribed <=> c.subscribed) /\ r.up = Tail(c.up)
        BY <1>2, <1>4, <1>7
      <3> QED
        BY <1>4, <3>1, MessageRead
    <2>2. CASE c.auth
      <3>1. e = r
        BY <1>4, <1>7, <2>2 DEF handleAuth
      <3> QED
        BY <1>3, <1>4, <1>5, <1>6, <2>1, <3>1 DEF CurrentInv
    <2>3. CASE ~c.auth /\ ~valid
      <3>1. e = [r EXCEPT !.down = Append(r.down, "invalid"), !.peer = "gone"]
        BY <1>4, <1>7, <2>3 DEF handleAuth
      <3>2. /\ e \in Socket /\ e.state = "open" /\ e.peer = "gone" /\ e.auth = c.auth
            /\ e.subscribed = c.subscribed /\ e.down = Append(c.down, "invalid")
        <4>1. Append(r.down, "invalid") \in Seq(Replies \cup Notices)
          BY <1>1, <1>4 DEF Replies
        <4> QED
          BY <1>4, <3>1, <4>1 DEF Socket
      <3>3. Len(e.down) = Len(c.down) + 1
        BY <1>1, <3>2
      <3>4. SocketInv(e)
        <4>1. SendBuffer \in Nat /\ Len(e.down) <= SendBuffer + 1
          BY <1>1, <1>3, <3>3
        <4>2. ~e.auth /\ ~e.subscribed
          BY <1>5, <1>4, <2>3, <3>2 DEF SocketInv
        <4> QED
          BY <3>2, <4>1, <4>2 DEF SocketInv
      <3>5. CurrentInv(w, e)
        BY <3>2 DEF CurrentInv
      <3> QED
        BY <1>3, <3>2, <3>4, <3>5
    <2>4. CASE ~c.auth /\ valid
      <3> DEFINE a == [r EXCEPT !.auth = TRUE]
                 p == Filled(a, "success")
      <3>1. /\ a \in Socket /\ a.up = r.up /\ a.down = r.down /\ a.state = "open"
            /\ a.peer = "up" /\ a.auth /\ a.subscribed = r.subscribed
        BY <1>4 DEF Socket
      <3>2. e = Put(a, "success")
        BY <1>4, <1>7, <2>4 DEF handleAuth
      <3> HIDE DEF a
      <3>3. Wanted(a) <=> Wanted(c)
        BY <2>1, <3>1 DEF Wanted
      <3>4. Doomed(a) <=> Doomed(c)
        BY <1>6, <3>1 DEF Doomed
      <3>5. CASE ~(Len(c.down) < SendBuffer)
        <4>1. e = a
          BY <1>4, <3>1, <3>2, <3>5 DEF Put
        <4>2. Doomed(c)
          <5>1. Len(c.down) # 0 /\ 1 \in DOMAIN c.down
            BY <1>1, <3>5
          <5>2. c.down[1] = "required"
            BY <2>4, <5>1 DEF SocketInv
          <5> QED
            BY <5>1, <5>2 DEF Doomed, Refusals
        <4>3. SocketInv(a)
          BY <1>3, <1>4, <3>1 DEF SocketInv
        <4> QED
          BY <1>3, <3>1, <3>4, <4>1, <4>2, <4>3 DEF CurrentInv
      <3>6. CASE Len(c.down) < SendBuffer
        <4>1. e = p
          BY <1>4, <3>1, <3>2, <3>6 DEF Put, Filled
        <4>2. "success" \in Replies \cup Notices /\ "success" \notin Refusals
          BY DEF Replies, Refusals
        <4>3. /\ p \in Socket /\ Len(p.down) = Len(c.down) + 1
              /\ p.state = "open" /\ p.peer = "up" /\ p.auth /\ p.up = a.up
              /\ Doomed(p) <=> Doomed(c)
              /\ Wanted(p) <=> Wanted(c)
              /\ Succeeds(p)
          <5>1. /\ p \in Socket /\ Len(p.down) = Len(a.down) + 1
                /\ p.state = a.state /\ p.peer = a.peer /\ p.auth = a.auth /\ p.up = a.up
            BY <3>1, <4>2, DownAppended
          <5>2. (Doomed(p) <=> Doomed(a)) /\ (Wanted(p) <=> Wanted(a)) /\ Succeeds(p)
            BY <3>1, <4>2, DownMeans
          <5> QED
            BY <1>4, <3>1, <3>3, <3>4, <5>1, <5>2
        <4> HIDE DEF p
        <4>4. SocketInv(p)
          BY <1>1, <3>6, <4>3 DEF SocketInv
        <4> QED
          BY <1>3, <4>1, <4>3, <4>4 DEF CurrentInv
      <3> QED
        BY <3>5, <3>6
    <2> QED
      BY <2>2, <2>3, <2>4
  <1>8. CASE Head(c.up) # "auth"
    <2> DEFINE wanted == Head(c.up) = "subscribe"
    <2>1. CASE c.auth
      <3>1. e = [r EXCEPT !.subscribed = wanted]
        BY <1>4, <1>8, <2>1 DEF handleSubscription
      <3>2. /\ e \in Socket /\ e.state = "open" /\ e.peer = "up" /\ e.auth = c.auth
            /\ e.up = Tail(c.up) /\ e.down = c.down /\ (e.subscribed <=> wanted)
        BY <1>4, <3>1 DEF Socket
      <3>3. Wanted(e) <=> Wanted(c)
        BY <1>2, <1>8, <3>2, MessageRead
      <3>4. (Doomed(e) <=> Doomed(c)) /\ (Succeeds(e) <=> Succeeds(c))
        BY <3>2 DEF Doomed, Succeeds
      <3>5. SocketInv(e)
        BY <1>1, <1>3, <2>1, <3>2 DEF SocketInv
      <3> QED
        BY <1>3, <3>2, <3>3, <3>4, <3>5 DEF CurrentInv
    <2>2. CASE ~c.auth
      <3>1. e = Put(r, "required")
        BY <1>4, <1>8, <2>2 DEF handleSubscription
      <3>2. CASE ~(Len(c.down) < SendBuffer)
        <4>1. e = r
          BY <1>4, <3>1, <3>2 DEF Put
        <4>2. Doomed(c)
          <5>1. Len(c.down) # 0 /\ 1 \in DOMAIN c.down
            BY <1>1, <3>2
          <5>2. c.down[1] = "required"
            BY <2>2, <5>1 DEF SocketInv
          <5> QED
            BY <5>1, <5>2 DEF Doomed, Refusals
        <4> QED
          BY <1>3, <1>4, <1>5, <1>6, <4>1, <4>2 DEF CurrentInv
      <3>3. CASE Len(c.down) < SendBuffer
        <4> DEFINE p == Filled(r, "required")
        <4>1. e = p
          BY <1>4, <3>1, <3>3 DEF Put, Filled
        <4>2. "required" \in Replies \cup Notices /\ "required" \in Refusals
          BY DEF Replies, Refusals
        <4>3. /\ p \in Socket /\ Len(p.down) = Len(c.down) + 1
              /\ p.state = "open" /\ p.peer = "up" /\ p.auth = c.auth
              /\ p.subscribed = c.subscribed
              /\ \A i \in DOMAIN p.down :
                    (i \in DOMAIN c.down /\ p.down[i] = c.down[i]) \/ p.down[i] = "required"
              /\ Doomed(p)
          <5>1. /\ p \in Socket /\ Len(p.down) = Len(r.down) + 1
                /\ p.state = r.state /\ p.peer = r.peer /\ p.auth = r.auth
                /\ p.subscribed = r.subscribed
            BY <1>4, <4>2, DownAppended
          <5>3. /\ \A i \in DOMAIN p.down :
                      (i \in DOMAIN r.down /\ p.down[i] = r.down[i]) \/ p.down[i] = "required"
            BY <1>4, <4>2, DownContents
          <5>2. Doomed(p)
            BY <1>4, <4>2, DownMeans
          <5> QED
            BY <1>4, <5>1, <5>2, <5>3
        <4> HIDE DEF p
        <4>4. \A i \in DOMAIN p.down : p.down[i] = "required"
          BY <2>2, <4>3 DEF SocketInv
        <4>5. SocketInv(p)
          BY <1>1, <2>2, <3>3, <4>3, <4>4 DEF SocketInv
        <4> QED
          BY <1>3, <4>1, <4>3, <4>5 DEF CurrentInv
      <3> QED
        BY <3>2, <3>3
    <2> QED
      BY <2>1, <2>2
  <1> QED
    BY <1>7, <1>8

-----------------------------------------------------------------------------
(* The page and its loads *)

\* A set as a sequence.
LEMMA SequenceOfSet ==
  ASSUME NEW S, IsFiniteSet(S)
  PROVE  SetToSeq(S) \in Seq(S)
  <1>1. ExistsBijection(1..Cardinality(S), S) /\ Cardinality(S) \in Nat
    BY FS_CardinalityType
  <1>2. PICK f \in Bijection(1..Cardinality(S), S) : TRUE
    BY <1>1 DEF ExistsBijection
  <1>3. f \in [1..Cardinality(S) -> S] /\ IsInjective(f)
    BY <1>2 DEF Bijection, Injection, IsInjective
  <1>4. SetToSeq(S) \in [1..Cardinality(S) -> S]
    BY <1>3 DEF SetToSeq
  <1> QED
    BY <1>1, <1>4

\* The loads the page begins and gives up are well-formed.
LEMMA LoadValues ==
  /\ NoLoad \in Load /\ ~NoLoad.live /\ IsFiniteSet(NoLoad.answer.ids)
  /\ \A f \in BOOLEAN : /\ NewLoad(f) \in Load /\ IsFiniteSet(NewLoad(f).answer.ids)
                        /\ [NewLoad(f) EXCEPT !.live = FALSE] \in Load
                        /\ ~[NewLoad(f) EXCEPT !.live = FALSE].live
                        /\ IsFiniteSet([NewLoad(f) EXCEPT !.live = FALSE].answer.ids)
  <1>1. NotSent \in [read : BOOLEAN, ids : SUBSET Notices] /\ IsFiniteSet(NotSent.ids)
    BY FS_EmptySet DEF NotSent
  <1>2. NoLoad \in Load /\ ~NoLoad.live /\ NoLoad.answer = NotSent
    BY <1>1 DEF NoLoad, Load
  <1>3. \A f \in BOOLEAN : NewLoad(f) \in Load /\ NewLoad(f).answer = NotSent
    BY <1>1 DEF NewLoad, Load
  <1>4. \A f \in BOOLEAN : /\ [NewLoad(f) EXCEPT !.live = FALSE] \in Load
                           /\ ~[NewLoad(f) EXCEPT !.live = FALSE].live
                           /\ [NewLoad(f) EXCEPT !.live = FALSE].answer = NotSent
    BY <1>3 DEF Load
  <1> QED
    BY <1>1, <1>2, <1>3, <1>4

\* A load starts on a page that is there.
LEMMA StartLoadKeeps ==
  ASSUME LoadInv, NEW first \in BOOLEAN, StartLoad(first), page' # "none"
  PROVE  LoadInv'
  <1> DEFINE l == CHOOSE k \in FreeLoads : TRUE
  <1>1. l \in Loads
    BY DEF StartLoad, FreeLoads
  <1>2. load' = [load EXCEPT ![l] = NewLoad(first)]
    BY DEF StartLoad
  <1> HIDE DEF l
  <1> QED
    BY <1>1, <1>2, LoadValues DEF LoadInv

\* The watcher of the login may load the list, which keeps the loads well-formed.
LEMMA WatcherKeeps ==
  ASSUME LoadInv, NEW b, Watcher(b), UNCHANGED page
  PROVE  LoadInv'
  <1>1. CASE load' = load
    BY <1>1 DEF LoadInv
  <1>2. CASE page # "none" /\ StartLoad(FALSE)
    BY <1>2, StartLoadKeeps
  <1> QED
    BY <1>1, <1>2 DEF Watcher

\* The end of a load does not bring a page back.
LEMMA MountedKeeps ==
  ASSUME DataInv, NEW l \in Loads, Mounted(l), load' = [load EXCEPT ![l] = NoLoad],
         UNCHANGED token
  PROVE  /\ LoadInv' /\ page' \in {"none", "loading", "ready"} /\ (page' # "none" => token')
         /\ page' # "none" => page # "none"
         /\ page # "none" => page' # "none"
  <1>1. page' = page \/ (page' = "ready" /\ load[l].live)
    BY DEF Mounted
  <1>2. (page' # "none" <=> page # "none") /\ page' \in {"none", "loading", "ready"}
    BY <1>1 DEF DataInv, LoadInv
  <1>3. LoadInv'
    BY <1>2, LoadValues DEF DataInv, LoadInv
  <1> QED
    BY <1>2, <1>3 DEF DataInv

\* Every step keeps the data well-formed.
LEMMA DataStep ==
  ASSUME DataInv, Sound(Both), [Next]_vars
  PROVE  DataInv'
  <1> USE DEF user, shown, db
  <1>1. CASE UNCHANGED vars
    BY <1>1 DEF vars, DataInv, LoadInv
  <1>2. ASSUME NEW s \in Sockets, Accept(s) \/ Break(s) \/ PeerClosed(s) \/ ReadLoop(s) \/ AuthTimeout(s)
        PROVE  DataInv'
    BY <1>2 DEF Accept, Break, PeerClosed, ReadLoop, AuthTimeout, DataInv, LoadInv
  <1>3. ASSUME NEW s \in Sockets, Receive(s) PROVE DataInv'
    <2> DEFINE msg == Head(sock[s].down)
    <2>1. LoadInv'
      BY <1>3, WatcherKeeps DEF Receive, DataInv
    <2>2. listed' = IF msg \in Notices /\ "live" \in ws.subs THEN OnNotification(listed, msg) ELSE listed
      BY <1>3 DEF Receive
    <2> HIDE DEF msg
    <2>3. listed' \in Seq(Notices)
      BY <2>2 DEF OnNotification, DataInv
    <2> QED
      BY <1>3, <2>1, <2>3 DEF Receive, DataInv
  <1>4. ASSUME NEW s \in Sockets, Close(s) PROVE DataInv'
    <2>1. LoadInv'
      BY <1>4, WatcherKeeps DEF Close, DataInv
    <2> QED
      BY <1>4, <2>1 DEF Close, DataInv
  <1>5. CASE Reconnect
    BY <1>5 DEF Reconnect, DataInv, LoadInv
  <1>6. ASSUME NEW n \in Notices, CreateNotice(n) PROVE DataInv'
    <2>1. IsFiniteSet(created')
      BY <1>6, FS_AddElement DEF CreateNotice, DataInv
    <2> QED
      BY <1>6, <2>1 DEF CreateNotice, DataInv, LoadInv
  <1>7. ASSUME NEW n \in Notices, PushNotice(n) PROVE DataInv'
    BY <1>7 DEF PushNotice, DataInv, LoadInv
  <1>8. CASE Poll
    <2>1. LoadInv'
      BY <1>8, StartLoadKeeps DEF Poll, DataInv
    <2> QED
      BY <1>8, <2>1 DEF Poll, DataInv
  <1>9. ASSUME NEW l \in Loads, ReadNotices(l) PROVE DataInv'
    <2> DEFINE a == [read |-> TRUE, ids |-> created]
               d == [load[l] EXCEPT !.answer = a]
    <2>1. a \in [read : BOOLEAN, ids : SUBSET Notices] /\ IsFiniteSet(a.ids)
      BY DEF DataInv
    <2>2. load' = [load EXCEPT ![l] = d]
      BY <1>9 DEF ReadNotices
    <2> HIDE DEF a
    <2>3. d \in Load /\ d.answer = a /\ d.live = load[l].live
      BY <2>1 DEF DataInv, LoadInv, Load
    <2> HIDE DEF d
    <2>4. page' = page
      BY <1>9 DEF ReadNotices
    <2>5. LoadInv'
      BY <2>1, <2>2, <2>3, <2>4 DEF DataInv, LoadInv
    <2> QED
      BY <1>9, <2>5 DEF ReadNotices, DataInv
  <1>10. ASSUME NEW l \in Loads, LoadAnswered(l) PROVE DataInv'
    <2>1. LoadInv' /\ page' \in {"none", "loading", "ready"} /\ (page' # "none" => token')
      BY <1>10, MountedKeeps DEF LoadAnswered
    <2>2. IsFiniteSet(load[l].answer.ids) /\ load[l].answer.ids \subseteq Notices
      BY DEF DataInv, LoadInv, Load
    <2>3. listed' \in Seq(load[l].answer.ids)
      BY <1>10, <2>2, SequenceOfSet DEF LoadAnswered
    <2>4. listed' \in Seq(Notices)
      BY <2>2, <2>3
    <2> QED
      BY <1>10, <2>1, <2>4 DEF LoadAnswered, DataInv
  <1>11. ASSUME NEW l \in Loads, LoadFailed(l) PROVE DataInv'
    <2>1. LoadInv' /\ page' \in {"none", "loading", "ready"} /\ (page' # "none" => token')
      BY <1>11, MountedKeeps DEF LoadFailed
    <2> QED
      BY <1>11, <2>1 DEF LoadFailed, DataInv
  <1>12. CASE StartLogout
    <2>1. LoadInv'
      BY <1>12, WatcherKeeps DEF StartLogout, DataInv
    <2> QED
      BY <1>12, <2>1 DEF StartLogout, DataInv
  <1>13. CASE EndSession
    <2>1. /\ page' = "none" /\ listed' = <<>>
          /\ load' = [l \in Loads |-> IF load[l].first THEN [NewLoad(TRUE) EXCEPT !.live = FALSE]
                                      ELSE NoLoad]
      BY <1>13 DEF EndSession, Unmount
    <2>2. \A l \in Loads : load'[l] \in Load /\ ~load'[l].live /\ IsFiniteSet(load'[l].answer.ids)
      BY <2>1, LoadValues
    <2>3. LoadInv'
      BY <2>1, <2>2 DEF LoadInv
    <2>4. listed' \in Seq(Notices) /\ page' \in {"none", "loading", "ready"}
      BY <2>1
    <2>5. /\ token' = FALSE /\ leaving' = FALSE /\ logins' = logins
          /\ created' = created /\ queue' = queue
      BY <1>13 DEF EndSession
    <2> QED
      BY <2>1, <2>3, <2>4, <2>5 DEF DataInv
  <1>14. CASE Login
    <2>1. LoadInv'
      BY <1>14, StartLoadKeeps DEF Login, DataInv
    <2>2. logins' \in 0..MaxLogins
      BY <1>14, BoundsAssumption DEF Login, DataInv
    <2> QED
      BY <1>14, <2>1, <2>2 DEF Login, DataInv
  <1> QED
    BY <1>1, <1>2, <1>3, <1>4, <1>5, <1>6, <1>7, <1>8, <1>9, <1>10, <1>11, <1>12, <1>13,
       <1>14 DEF Next

-----------------------------------------------------------------------------
(* The sockets *)

\* A handler leaves what it has computed.
LEMMA Committed ==
  ASSUME NEW b \in Pair, Commit(b)
  PROVE  Both' = b
  BY PairIs DEF Commit, Both

\* A new socket is one of them.
LEMMA NewSocketIs ==
  ASSUME FreeSockets(sock) # {}
  PROVE  NewSocket \in Sockets
  BY DEF NewSocket, FreeSockets

\* A step that sets one socket and nothing else of the two.
LEMMA SocketSet ==
  ASSUME Sound(Both), NEW s \in Sockets, NEW c \in Socket, SocketInv(c),
         s = ws.cur => CurrentInv(ws, c),
         sock[s].state # "none" => c.state # "none",
         sock[s].state = "closing" => c.state = "closing",
         sock' = [sock EXCEPT ![s] = c], ws' = ws
  PROVE  Sound(Both') /\ (Held(Both) => Held(Both'))
  <1>1. Both.ws = ws /\ Both.sock = sock /\ Both' = [ws |-> ws, sock |-> [sock EXCEPT ![s] = c]]
    BY DEF Both
  <1> QED
    BY <1>1, OneSocket

\* A message that arrives keeps the sockets consistent, whichever it is.
LEMMA ReceiveSound ==
  ASSUME Sound(Both), NEW s \in Sockets, Receive(s)
  PROVE  Sound(Both') /\ (Held(Both) => Held(Both'))
  <1> DEFINE c == sock[s]
             e == [c EXCEPT !.down = Tail(c.down)]
             got == [ws |-> ws, sock |-> [sock EXCEPT ![s] = e]]
             msg == Head(c.down)
             b == CASE msg = "success" -> OnSuccess(got)
                    [] msg \in {"invalid", "required"} -> OnRefused(got)
                    [] OTHER -> got
  <1>1. /\ Both \in Pair /\ Both.ws = ws /\ Both.sock = sock /\ ws \in WebSocket
        /\ sock \in [Sockets -> Socket] /\ \A k \in Sockets : SocketInv(sock[k])
        /\ ws.cur # NoSocket => ws.cur \in Sockets /\ CurrentInv(ws, sock[ws.cur])
    BY PairIs DEF Sound, Both
  <1>2. c \in Socket /\ SocketInv(c) /\ c.state = "open" /\ c.down # <<>>
    BY <1>1 DEF Receive
  <1>3. [Both EXCEPT !.sock[s].down = Tail(@)] = got
    <2>1. [Both EXCEPT !.sock[s].down = Tail(@)] = [Both EXCEPT !.sock[s] = e]
      BY <1>1
    <2> HIDE DEF e
    <2>2. [Both EXCEPT !.sock[s] = e] = got
      BY <1>1 DEF Pair
    <2> QED
      BY <2>1, <2>2
  <1>4. Commit(b)
    BY <1>3 DEF Receive
  <1>5. /\ e \in Socket /\ SocketInv(e)
        /\ e.state = "open" /\ e.peer = c.peer /\ e.auth = c.auth
        /\ Wanted(e) <=> Wanted(c)
        /\ msg \in Replies \cup Notices
        /\ msg \notin Refusals => (Doomed(e) <=> Doomed(c))
        /\ msg # "success" => (Succeeds(e) <=> Succeeds(c))
    BY <1>2, MessageTaken
  <1> HIDE DEF e
  <1>6. /\ got \in Pair /\ got.ws = ws /\ \A k \in Sockets : SocketInv(got.sock[k])
        /\ got.sock[s] = e /\ \A k \in Sockets \ {s} : got.sock[k] = sock[k]
    BY <1>1, <1>5 DEF Pair
  <1> HIDE DEF got
  <1>7. Held(Both) => Held(got)
    <2>1. \A k \in Sockets : /\ sock[k].state # "none" => got.sock[k].state # "none"
                             /\ sock[k].state = "closing" => got.sock[k].state = "closing"
      BY <1>2, <1>5, <1>6
    <2> QED
      BY <1>1, <1>6, <2>1, HeldKept
  <1>8. CASE msg = "success"
    <2> DEFINE w == [ws EXCEPT !.authenticated = TRUE]
               d == [ws |-> w, sock |-> got.sock]
               k == ws.cur
               next == resubscribeAll(d)
    <2>1. [got EXCEPT !.ws.authenticated = TRUE] = d
      <3>1. [got EXCEPT !.ws.authenticated = TRUE] = [got EXCEPT !.ws = w]
        BY <1>6
      <3> HIDE DEF w
      <3>2. [got EXCEPT !.ws = w] = d
        BY <1>6 DEF Pair
      <3> QED
        BY <3>1, <3>2
    <2>2. b = next
      BY <1>8, <2>1 DEF OnSuccess
    <2>3. /\ w \in WebSocket /\ w.cur = k /\ w.manual = ws.manual /\ w.timer = ws.timer
          /\ w.subs = ws.subs /\ w.authenticated
      BY <1>1 DEF WebSocket
    <2> HIDE DEF w
    <2>4. d \in Pair /\ d.ws = w /\ d.sock = got.sock
      BY <1>6, <2>3 DEF Pair
    <2> HIDE DEF d
    <2>5. Held(got) => Held(d)
      BY <1>6, <2>3, <2>4, HeldKept
    <2>6. ASSUME ws.subs = {}, k # NoSocket PROVE CurrentInv(w, d.sock[k])
      <3>1. k \in Sockets /\ CurrentInv(ws, sock[k])
        BY <1>1, <2>6
      <3>2. msg \notin Refusals
        BY <1>8 DEF Refusals
      <3>3. /\ d.sock[k].state = sock[k].state /\ d.sock[k].peer = sock[k].peer
            /\ Wanted(d.sock[k]) <=> Wanted(sock[k])
            /\ Doomed(d.sock[k]) <=> Doomed(sock[k])
        BY <1>2, <1>5, <1>6, <2>4, <3>1, <3>2
      <3> QED
        BY <2>3, <2>6, <3>1, <3>3 DEF CurrentInv
    <2>7. CASE ws.subs = {}
      <3>1. next = d
        BY <2>3, <2>4, <2>7 DEF resubscribeAll
      <3>2. Sound(d)
        BY <1>6, <2>3, <2>4, <2>6, <2>7 DEF Sound
      <3>3. Both' = d
        BY <1>4, <2>2, <2>4, <3>1, Committed
      <3> QED
        BY <1>7, <2>5, <3>2, <3>3
    <2>8. CASE ws.subs # {}
      <3> HIDE DEF next, b
      <3>1. next = sendMessage(d, "subscribe")
        BY <2>3, <2>4, <2>8 DEF resubscribeAll, next
      <3>2. ASSUME IsOpen(d, k)
            PROVE  CurrentInv(d.ws, [d.sock[k] EXCEPT !.up = Append(d.sock[k].up, "subscribe")])
        <4>1. d.sock[k] \in Socket
          BY <1>1, <1>6, <2>4, <3>2 DEF IsOpen, Pair
        <4> QED
          BY <2>3, <2>4, <2>8, <4>1, LastMessage DEF CurrentInv
      <3>3. /\ Sound(next) /\ next.ws = d.ws
            /\ \A j \in Sockets : next.sock[j].state = d.sock[j].state
        BY <1>6, <2>3, <2>4, <3>1, <3>2, SendMessageSound DEF Requests
      <3>4. Held(d) => Held(next)
        BY <2>4, <3>3, HeldKept
      <3>5. Both' = next
        BY <1>4, <2>2, <3>3, Committed DEF Sound
      <3> QED
        BY <1>7, <2>5, <3>3, <3>4, <3>5
    <2> QED
      BY <2>7, <2>8
  <1>9. CASE msg \in {"invalid", "required"}
    <2>1. b = OnRefused(got)
      BY <1>9
    <2>2. Sound(OnRefused(got)) /\ Held(OnRefused(got))
      BY <1>6, OnRefusedSound
    <2>3. Both' = OnRefused(got)
      BY <1>4, <2>1, <2>2, Committed DEF Sound
    <2> QED
      BY <2>2, <2>3
  <1>10. CASE msg \notin {"success", "invalid", "required"}
    <2>1. b = got
      BY <1>10
    <2>2. Both' = got
      BY <1>4, <1>6, <2>1, Committed
    <2>3. ASSUME ws.cur # NoSocket PROVE CurrentInv(ws, got.sock[ws.cur])
      <3>1. ws.cur \in Sockets /\ CurrentInv(ws, sock[ws.cur])
        BY <1>1, <2>3
      <3>2. msg \notin Refusals /\ msg # "success"
        BY <1>10 DEF Refusals
      <3>3. CASE ws.cur = s
        BY <1>2, <1>5, <1>6, <3>1, <3>2, <3>3 DEF CurrentInv
      <3>4. CASE ws.cur # s
        BY <1>6, <3>1, <3>4
      <3> QED
        BY <3>3, <3>4
    <2>4. Sound(got)
      BY <1>6, <2>3 DEF Sound
    <2> QED
      BY <1>7, <2>2, <2>4
  <1> QED
    BY <1>8, <1>9, <1>10

\* So does a notification that is pushed to every connection of its user.
LEMMA PushNoticeSound ==
  ASSUME Sound(Both), NEW n \in Notices, PushNotice(n)
  PROVE  Sound(Both') /\ (Held(Both) => Held(Both'))
  <1> DEFINE d == [ws |-> ws, sock |-> PublishForUser(sock, n)]
  <1>1. /\ Both \in Pair /\ Both.ws = ws /\ Both.sock = sock /\ ws \in WebSocket
        /\ sock \in [Sockets -> Socket] /\ \A k \in Sockets : SocketInv(sock[k])
        /\ ws.cur # NoSocket => ws.cur \in Sockets /\ CurrentInv(ws, sock[ws.cur])
    BY PairIs DEF Sound, Both
  <1>2. CASE sock' = sock
    BY <1>2 DEF PushNotice, Both
  <1>3. CASE sock' = PublishForUser(sock, n)
    <2>1. Both' = d
      BY <1>3 DEF PushNotice, Both
    <2>2. /\ d.ws = ws
          /\ d.sock = [k \in Sockets |->
                         IF sock[k].peer = "up" /\ sock[k].auth /\ sock[k].subscribed
                         THEN Put(sock[k], n) ELSE sock[k]]
      BY DEF PublishForUser
    <2>3. d = [ws |-> d.ws, sock |-> d.sock]
      OBVIOUS
    <2> HIDE DEF d
    <2>4. ASSUME NEW k \in Sockets
          PROVE  /\ d.sock[k] \in Socket /\ SocketInv(d.sock[k])
                 /\ d.sock[k].state = sock[k].state
                 /\ CurrentInv(ws, sock[k]) => CurrentInv(ws, d.sock[k])
      <3>1. CASE sock[k].peer = "up" /\ sock[k].auth /\ sock[k].subscribed
        <4>1. d.sock[k] = Put(sock[k], n)
          BY <2>2, <3>1
        <4> QED
          BY <1>1, <3>1, <4>1, EventPut
      <3>2. CASE ~(sock[k].peer = "up" /\ sock[k].auth /\ sock[k].subscribed)
        BY <1>1, <2>2, <3>2
      <3> QED
        BY <3>1, <3>2
    <2>5. d.sock \in [Sockets -> Socket]
      BY <2>2, <2>4
    <2>6. d \in Pair
      BY <1>1, <2>2, <2>3, <2>5 DEF Pair
    <2>7. Sound(d)
      BY <1>1, <2>2, <2>4, <2>6 DEF Sound
    <2>8. Held(Both) => Held(d)
      BY <1>1, <2>2, <2>4, HeldKept
    <2> QED
      BY <2>1, <2>7, <2>8
  <1> QED
    BY <1>2, <1>3 DEF PushNotice

\* Every step keeps the sockets consistent, and a mounted page holds on to one.
LEMMA SocketStep ==
  ASSUME DataInv, Sound(Both), page # "none" => Held(Both), [Next]_vars
  PROVE  Sound(Both') /\ (page' # "none" => Held(Both'))
  <1> USE DEF user, shown, db
  <1>1. /\ Both \in Pair /\ Both.ws = ws /\ Both.sock = sock /\ ws \in WebSocket
        /\ sock \in [Sockets -> Socket] /\ \A k \in Sockets : SocketInv(sock[k])
        /\ ws.cur # NoSocket => ws.cur \in Sockets /\ CurrentInv(ws, sock[ws.cur])
    BY PairIs DEF Sound, Both
  <1>2. CASE UNCHANGED vars
    BY <1>2 DEF vars, Both
  <1>3. ASSUME NEW s \in Sockets, Accept(s)
        PROVE  Sound(Both') /\ (Held(Both) => Held(Both'))
    <2>1. Sound(onopen(Both, s)) /\ (Held(Both) => Held(onopen(Both, s)))
      BY <1>1, <1>3, OnOpenSound DEF Accept
    <2>2. Both' = onopen(Both, s)
      BY <1>3, <2>1, Committed DEF Accept, Sound
    <2> QED
      BY <2>1, <2>2
  <1>4. ASSUME NEW s \in Sockets, Receive(s)
        PROVE  Sound(Both') /\ (Held(Both) => Held(Both'))
    BY <1>4, ReceiveSound
  <1>5. ASSUME NEW s \in Sockets, Break(s) \/ PeerClosed(s)
        PROVE  Sound(Both') /\ (Held(Both) => Held(Both'))
    <2>1. sock' = [sock EXCEPT ![s] = Blank("closing")] /\ ws' = ws
      BY <1>5 DEF Break, PeerClosed, Blank
    <2>2. /\ Blank("closing") \in Socket /\ Blank("closing").state = "closing"
          /\ SocketInv(Blank("closing"))
      BY BlankSocket
    <2>3. CurrentInv(ws, Blank("closing"))
      BY <2>2 DEF CurrentInv
    <2> QED
      BY <2>1, <2>2, <2>3, SocketSet
  <1>6. ASSUME NEW s \in Sockets, Close(s)
        PROVE  Sound(Both') /\ Held(Both')
    <2>1. Sound(onclose(Both, s)) /\ Held(onclose(Both, s))
      BY OnCloseSound
    <2>2. Both' = onclose(Both, s)
      BY <1>6, <2>1, Committed DEF Close, Sound
    <2> QED
      BY <2>1, <2>2
  <1>7. ASSUME NEW s \in Sockets, ReadLoop(s)
        PROVE  Sound(Both') /\ (Held(Both) => Held(Both'))
    <2> DEFINE c == sock[s]
               r == [c EXCEPT !.up = Tail(c.up)]
               e(valid) == IF Head(c.up) = "auth" THEN handleAuth(r, valid)
                           ELSE handleSubscription(r, Head(c.up) = "subscribe")
    <2>1. c.peer = "up" /\ c.up # <<>> /\ ws' = ws /\ c \in Socket /\ SocketInv(c)
      BY <1>1, <1>7 DEF ReadLoop
    <2>2. PICK valid \in BOOLEAN : sock' = [sock EXCEPT ![s] = e(valid)]
      BY <1>7 DEF ReadLoop
    <2>3. /\ e(valid) \in Socket /\ SocketInv(e(valid)) /\ e(valid).state = c.state
          /\ CurrentInv(ws, c) => CurrentInv(ws, e(valid))
      <3> DEFINE f == e(valid)
      <3>1. /\ r = [c EXCEPT !.up = Tail(c.up)]
            /\ f = IF Head(c.up) = "auth" THEN handleAuth(r, valid)
                   ELSE handleSubscription(r, Head(c.up) = "subscribe")
        OBVIOUS
      <3>2. /\ f \in Socket /\ SocketInv(f) /\ f.state = c.state
            /\ CurrentInv(ws, c) => CurrentInv(ws, f)
        <4> HIDE DEF c, r, f
        <4> QED
          BY <1>1, <2>1, <3>1, MessageHandled
      <3> QED
        BY <3>2
    <2> HIDE DEF e
    <2>4. s = ws.cur => CurrentInv(ws, e(valid))
      BY <1>1, <2>3, SocketsAssumption
    <2> QED
      BY <2>1, <2>2, <2>3, <2>4, SocketSet
  <1>8. ASSUME NEW s \in Sockets, AuthTimeout(s)
        PROVE  Sound(Both') /\ (Held(Both) => Held(Both'))
    <2> DEFINE c == [sock[s] EXCEPT !.peer = "gone"]
    <2>1. sock' = [sock EXCEPT ![s] = c] /\ ws' = ws /\ sock[s].peer = "up"
      BY <1>8 DEF AuthTimeout
    <2>2. /\ c \in Socket /\ c.state = sock[s].state /\ c.peer = "gone"
          /\ c.auth = sock[s].auth /\ c.subscribed = sock[s].subscribed
          /\ c.up = sock[s].up /\ c.down = sock[s].down
      BY <1>1 DEF Socket
    <2> HIDE DEF c
    <2>3. SocketInv(c)
      BY <1>1, <2>1, <2>2 DEF SocketInv
    <2>4. CurrentInv(ws, c)
      BY <2>2 DEF CurrentInv
    <2> QED
      BY <2>1, <2>2, <2>3, <2>4, SocketSet
  <1>9. CASE Reconnect
    <2> DEFINE w == [ws EXCEPT !.timer = FALSE]
               d == [ws |-> w, sock |-> sock]
               next == connect(d, token, NewSocket)
    <2>1. NewSocket \in Sockets
      BY <1>9, NewSocketIs DEF Reconnect
    <2>2. [Both EXCEPT !.ws.timer = FALSE] = d
      <3>1. [Both EXCEPT !.ws.timer = FALSE] = [Both EXCEPT !.ws = w]
        BY <1>1
      <3> HIDE DEF w
      <3>2. [Both EXCEPT !.ws = w] = d
        BY <1>1 DEF Pair
      <3> QED
        BY <3>1, <3>2
    <2>3. Commit(next) /\ page' = page
      BY <1>9, <2>2 DEF Reconnect
    <2>4. w \in WebSocket /\ w.cur = ws.cur /\ w.subs = ws.subs /\ w.authenticated = ws.authenticated
      BY <1>1 DEF WebSocket
    <2> HIDE DEF w
    <2>5. d \in Pair /\ d.ws = w /\ d.sock = sock
      BY <1>1, <2>4 DEF Pair
    <2> HIDE DEF d
    <2>6. Sound(d)
      <3>1. ASSUME ws.cur # NoSocket PROVE CurrentInv(w, sock[ws.cur])
        <4>1. CurrentInv(ws, sock[ws.cur])
          BY <1>1, <3>1
        <4> QED
          BY <2>4, <4>1 DEF CurrentInv
      <3> QED
        BY <1>1, <2>4, <2>5, <3>1 DEF Sound
    <2>7. Sound(next) /\ (token => Held(next))
      BY <2>1, <2>6, ConnectSound
    <2>8. Both' = next
      BY <2>3, <2>7, Committed DEF Sound
    <2>9. page' # "none" => token
      BY <2>3 DEF DataInv
    <2> QED
      BY <2>7, <2>8, <2>9
  <1>10. ASSUME NEW n \in Notices, CreateNotice(n) PROVE Both' = Both
    BY <1>10 DEF CreateNotice, Both
  <1>11. ASSUME NEW n \in Notices, PushNotice(n)
         PROVE  Sound(Both') /\ (Held(Both) => Held(Both'))
    BY <1>11, PushNoticeSound
  <1>12. CASE Poll
    BY <1>12 DEF Poll, Both
  <1>13. ASSUME NEW l \in Loads, ReadNotices(l) PROVE Both' = Both
    BY <1>13 DEF ReadNotices, Both
  <1>14. ASSUME NEW l \in Loads, LoadAnswered(l) \/ LoadFailed(l)
         PROVE  Sound(Both') /\ (Held(Both) => Held(Both')) /\ (page' # "none" => page # "none")
    <2>1. Mounted(l) /\ load' = [load EXCEPT ![l] = NoLoad] /\ UNCHANGED token
      BY <1>14 DEF LoadAnswered, LoadFailed
    <2>2. page' # "none" => page # "none"
      BY <2>1, MountedKeeps
    <2>3. CASE UNCHANGED <<ws, sock, page>>
      BY <2>2, <2>3 DEF Both
    <2>4. ASSUME NEW who \in {"live", "dead"}, Commit(subscribe(Both, who))
          PROVE  Sound(Both') /\ (Held(Both) => Held(Both'))
      <3>1. Sound(subscribe(Both, who)) /\ (Held(Both) => Held(subscribe(Both, who)))
        BY SubscribeSound
      <3>2. Both' = subscribe(Both, who)
        BY <2>4, <3>1, Committed DEF Sound
      <3> QED
        BY <3>1, <3>2
    <2>5. \/ UNCHANGED <<ws, sock, page>>
          \/ Commit(subscribe(Both, "live")) \/ Commit(subscribe(Both, "dead"))
      BY <2>1 DEF Mounted
    <2> QED
      BY <2>2, <2>3, <2>4, <2>5
  <1>15. CASE StartLogout
    <2>1. Sound(disconnect(Both)) /\ Held(disconnect(Both))
      BY DisconnectSound
    <2>2. Both' = disconnect(Both)
      BY <1>15, <2>1, Committed DEF StartLogout, Sound
    <2> QED
      BY <2>1, <2>2
  <1>16. CASE EndSession
    <2>1. Sound(unsubscribe(Both, "live"))
      BY UnsubscribeSound
    <2>2. Both' = unsubscribe(Both, "live")
      BY <1>16, <2>1, Committed DEF EndSession, Unmount, Sound
    <2> QED
      BY <1>16, <2>1, <2>2 DEF EndSession, Unmount
  <1>17. CASE Login
    <2>1. NewSocket \in Sockets
      BY <1>17, NewSocketIs DEF Login
    <2>2. Sound(connect(Both, TRUE, NewSocket)) /\ Held(connect(Both, TRUE, NewSocket))
      BY <2>1, ConnectSound
    <2>3. Both' = connect(Both, TRUE, NewSocket)
      BY <1>17, <2>2, Committed DEF Login, Sound
    <2> QED
      BY <2>2, <2>3
  <1>18. \/ UNCHANGED vars \/ Reconnect \/ Poll \/ StartLogout \/ EndSession \/ Login
         \/ \E s \in Sockets : \/ Accept(s) \/ Receive(s) \/ Break(s) \/ PeerClosed(s)
                               \/ Close(s) \/ ReadLoop(s) \/ AuthTimeout(s)
         \/ \E n \in Notices : CreateNotice(n) \/ PushNotice(n)
         \/ \E l \in Loads : ReadNotices(l) \/ LoadAnswered(l) \/ LoadFailed(l)
    BY DEF Next
  <1>19. CASE \E s \in Sockets : \/ Accept(s) \/ Receive(s) \/ Break(s) \/ PeerClosed(s)
                                 \/ ReadLoop(s) \/ AuthTimeout(s)
    <2>1. page' = page
      BY <1>19 DEF Accept, Receive, Break, PeerClosed, ReadLoop, AuthTimeout
    <2> QED
      BY <1>3, <1>4, <1>5, <1>7, <1>8, <1>19, <2>1
  <1>20. CASE \E n \in Notices : CreateNotice(n) \/ PushNotice(n)
    <2>1. page' = page
      BY <1>20 DEF CreateNotice, PushNotice
    <2> QED
      BY <1>10, <1>11, <1>20, <2>1
  <1>21. CASE \E l \in Loads : ReadNotices(l)
    <2>1. page' = page
      BY <1>21 DEF ReadNotices
    <2> QED
      BY <1>13, <1>21, <2>1
  <1> QED
    BY <1>2, <1>6, <1>9, <1>12, <1>14, <1>15, <1>16, <1>17, <1>18, <1>19, <1>20, <1>21
       DEF Poll, vars

-----------------------------------------------------------------------------
(* Theorems *)

\* The invariant holds at first.
LEMMA InitIInv == Init => IInv
  <1> SUFFICES ASSUME Init PROVE IInv
    OBVIOUS
  <1> DEFINE s == CHOOSE k \in Sockets : TRUE
             l == CHOOSE k \in Loads : TRUE
  <1>1. s \in Sockets
    BY SocketsAssumption
  <1>2. /\ ws = [cur |-> s, timer |-> FALSE, connected |-> FALSE,
                 authenticated |-> FALSE, manual |-> FALSE, subs |-> {}]
        /\ sock = [k \in Sockets |-> IF k = s THEN Connecting ELSE Unused]
        /\ load = [k \in Loads |-> IF k = l THEN NewLoad(TRUE) ELSE NoLoad]
    BY DEF Init
  <1> HIDE DEF s, l
  <1>3. ws \in WebSocket /\ ws.cur = s
    BY <1>1, <1>2 DEF WebSocket
  <1>4. Connecting = Blank("connecting")
    BY DEF Connecting, Blank
  <1>5. \A k \in Sockets : sock[k] \in Socket /\ SocketInv(sock[k])
    BY <1>2, <1>4, UnusedIsBlank, BlankSocket
  <1>6. sock[s].state = "connecting"
    BY <1>1, <1>2, <1>4, BlankSocket
  <1>7. Sound(Both)
    <2>1. CurrentInv(ws, sock[s])
      BY <1>6 DEF CurrentInv
    <2>2. Both \in Pair
      BY <1>2, <1>3, <1>5 DEF Both, Pair
    <2> QED
      BY <1>3, <1>5, <2>1, <2>2 DEF Sound, Both
  <1>8. Held(Both)
    BY <1>1, <1>3, <1>6, SocketsAssumption DEF Held, Both
  <1>9. LoadInv
    <2>1. page = "loading"
      BY DEF Init
    <2> QED
      BY <1>2, <2>1, LoadValues DEF LoadInv
  <1>10. DataInv
    <2>1. listed \in Seq(Notices) /\ 0 \in 0..MaxLogins
      BY BoundsAssumption DEF Init
    <2>2. queue \subseteq created /\ created \subseteq Notices /\ IsFiniteSet(created)
      BY FS_EmptySet DEF Init
    <2> QED
      BY <1>9, <2>1, <2>2 DEF Init, DataInv
  <1> QED
    BY <1>7, <1>8, <1>10 DEF IInv

\* Every step keeps it.
LEMMA StepIInv == IInv /\ [Next]_vars => IInv'
  <1> SUFFICES ASSUME IInv, [Next]_vars PROVE IInv'
    OBVIOUS
  <1>1. DataInv'
    BY DataStep DEF IInv
  <1>2. Sound(Both') /\ (page' # "none" => Held(Both'))
    BY SocketStep DEF IInv
  <1> QED
    BY <1>1, <1>2 DEF IInv

\* The messages in each direction always lead the current socket to what the page wants of
\* it: what useWebSocket has sent or will send, and what the server has read or will read,
\* agree in the end.
THEOREM InductiveInvariant == Spec => []IInv
  BY InitIInv, StepIInv, PTL DEF Spec

\* Every variable keeps its type, and no connection holds more messages than its buffer
\* and the refusal that is sent past it.
THEOREM TypeCorrect == Spec => []TypeOK
  <1>1. IInv => TypeOK
    <2> SUFFICES ASSUME IInv PROVE TypeOK
      OBVIOUS
    <2>1. Both \in Pair /\ \A k \in Sockets : SocketInv(sock[k])
      BY DEF IInv, Sound, Both
    <2>2. ws \in WebSocket /\ sock \in [Sockets -> Socket]
      BY <2>1, PairIs DEF Both
    <2> QED
      BY <2>1, <2>2 DEF IInv, DataInv, LoadInv, TypeOK, WebSocket, SocketInv
  <1> QED
    BY <1>1, InductiveInvariant, PTL

\* A mounted page that did not give its socket up has one, or waits for a step of its
\* own that will open one.
THEOREM PageNeverStranded == Spec => []NeverStranded
  <1>1. IInv => NeverStranded
    BY DEF IInv, Held, Both, NeverStranded
  <1> QED
    BY <1>1, InductiveInvariant, PTL

\* When nothing is under way on the current socket, the server sends events on it exactly
\* when somebody listens.
THEOREM SubscriptionsAgreeAtRest == Spec => []SubscriptionsAgree
  <1>1. IInv => SubscriptionsAgree
    <2> SUFFICES ASSUME IInv, IsOpen(Both, ws.cur), sock[ws.cur].up = <<>>,
                        sock[ws.cur].down = <<>>, sock[ws.cur].peer = "up", sock[ws.cur].auth
                 PROVE  sock[ws.cur].subscribed <=> ws.subs # {}
      BY DEF SubscriptionsAgree
    <2> DEFINE c == sock[ws.cur]
    <2>1. c.state = "open" /\ CurrentInv(ws, c)
      BY DEF IInv, Sound, Both, IsOpen
    <2>2. ~Doomed(c) /\ ~Succeeds(c)
      BY DEF Doomed, Succeeds
    <2>3. Wanted(c) <=> c.subscribed
      BY DEF Wanted
    <2> QED
      BY <2>1, <2>2, <2>3 DEF CurrentInv
  <1> QED
    BY <1>1, InductiveInvariant, PTL
=============================================================================
