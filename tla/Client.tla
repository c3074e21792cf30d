------------------------------- MODULE Client -------------------------------
(***************************************************************************)
(* The connection of the web page, server/static/app.js: start-up, the     *)
(* version and passcode checks, connect, and the retry.  JavaScript runs   *)
(* one task at a time; a function that awaits is cut there, so several     *)
(* calls of startWhenAuthed and the submit handler may be under way.       *)
(*                                                                         *)
(* The callbacks of a connection keep the id they were created with.  Ids  *)
(* are compared with conn.currentId and nothing else, so an id is used     *)
(* again once no callback of its connection can come any more.             *)
(*                                                                         *)
(* The browser and the server are external: sockets and peer connections   *)
(* report what happened to them later, in any order; the server stops and  *)
(* starts, the second time with or without the session cookies of the      *)
(* first run and perhaps in a new version.                                 *)
(***************************************************************************)
EXTENDS Integers, FiniteSets

CONSTANTS
    Conn,           \* connection ids
    MaxStarts,      \* calls of startWhenAuthed under way at the same time
    Passcode,       \* the server was started with --passcode
    MaxVersion,     \* the server is updated until it has this version
    MaxDelay        \* conn.maxReconnectDelay, in seconds

None == "none"

ASSUME ClientAssumption ==
    /\ None \notin Conn
    /\ Passcode \in BOOLEAN
    /\ MaxVersion \in Nat \ {0}
    /\ MaxStarts \in Nat \ {0}
    /\ MaxDelay \in Nat \ {0}

VARIABLES
    server,     \* [up, version, cookie]: cookie, it accepts this page's cookie
    page,       \* [app, flag, load]: APP_VERSION, VERSION_RELOAD_KEY, a reload
    conn,       \* [currentId, ws, pc, timer, delay, armed]
    link,       \* what the browser holds for each connection
    start,      \* how many calls of startWhenAuthed stand at each of StartPoints
    overlay,    \* the passcode prompt is shown
    submit      \* the submit handler: idle, or its POST and the answer

vars == <<server, page, conn, link, start, overlay, submit>>

\* socket: "ended" has a close event pending.  peer: a WebRTC peer connection
\* with its data channel.  events: its events not delivered yet.
Dead == [socket |-> None, peer |-> None, events |-> {}]

\* location.reload(): none, under way, or it ended on the browser's error page.
Loads == {"done", "pending", "failed"}

\* startWhenAuthed awaits /version, awaits /auth, or holds its answer.  The
\* answer to /version is taken to be the server's when it is used.
StartPoints == {"version", "auth", "connect", "prompt"}

Enter(from, p) == [from EXCEPT ![p] = @ + 1]
NoStart == [p \in StartPoints |-> 0]
OneStart == Enter(NoStart, "version")

Leave(p) == start[p] > 0 /\ start' = [start EXCEPT ![p] = @ - 1]
Advance(p, q) == start[p] > 0 /\ start' = [start EXCEPT ![p] = @ - 1, ![q] = @ + 1]

Room == start["version"] + start["auth"] + start["connect"] + start["prompt"] < MaxStarts

NoConn == [currentId |-> None, ws |-> None, pc |-> None,
           timer |-> FALSE, delay |-> 1, armed |-> 0]

Authorized == ~Passcode \/ server.cookie

-----------------------------------------------------------------------------
(* Helpers of the page, as functions of the state                          *)

\* clearTimeout(conn.reconnectTimer); armed counts the browser's timers.
ClearTimer(c) ==
    [c EXCEPT !.timer = FALSE, !.armed = IF c.timer THEN c.armed - 1 ELSE c.armed]

ClosedConn == [ClearTimer(conn) EXCEPT !.ws = None, !.pc = None]

\* closing a socket reports its end, closing a peer connection the end of
\* its open channel.
ClosedLink(l, ws, pc) ==
    [socket |-> IF ws /\ l.socket # None THEN "ended" ELSE l.socket,
     peer |-> IF pc THEN None ELSE l.peer,
     events |-> IF pc /\ l.peer = "live" THEN l.events \cup {"channel"} ELSE l.events]

\* Variant: only the WebSocket of the old connection is closed.
BugClosedLinks ==
    [i \in Conn |-> ClosedLink(link[i], i = conn.ws, FALSE)]

ClosedLinks ==
    [i \in Conn |-> ClosedLink(link[i], i = conn.ws, i = conn.pc)]

CloseOldConnections == conn' = ClosedConn /\ link' = ClosedLinks

\* connect: a fresh id for i, and the delay starts over.
Connect(i) ==
    /\ i # conn.currentId
    /\ link[i] = Dead
    /\ conn' = [ClosedConn EXCEPT !.currentId = i, !.ws = i, !.delay = 1]
    /\ link' = [ClosedLinks EXCEPT ![i].socket = "connecting"]

Doubled(d) == IF 2 * d < MaxDelay THEN 2 * d ELSE MaxDelay

\* scheduleReconnect returns early when a retry is pending.
ScheduleReconnect(c) ==
    IF c.timer THEN c
    ELSE [c EXCEPT !.timer = TRUE, !.armed = @ + 1, !.delay = Doubled(@)]

\* Variant: the comparison is the wrong way round.
BugRetry(i) == conn' = IF i # conn.currentId THEN ScheduleReconnect(conn) ELSE conn

\* A callback of connection i returns at once when i was replaced.
Retry(i) == conn' = IF i = conn.currentId THEN ScheduleReconnect(conn) ELSE conn

-----------------------------------------------------------------------------
(* startWhenAuthed, its two fetches and its continuations                  *)

\* The retry timer fires.
TimerFires ==
    /\ conn.armed > 0 /\ Room
    /\ conn' = [conn EXCEPT !.timer = FALSE, !.armed = @ - 1]
    /\ start' = Enter(start, "version")
    /\ UNCHANGED <<server, page, link, overlay, submit>>

\* Another version than the page's, not tried before, reloads the page; a
\* fetch that fails is no other version.
Outdated == server.up /\ server.version # page.app

\* Variant: without the guard of VERSION_RELOAD_KEY.
BugReloads == Outdated

Reloads == Outdated /\ page.flag # server.version

ReloadPage ==
    /\ Reloads
    /\ Leave("version")
    /\ page' = [page EXCEPT !.flag = server.version, !.load = "pending"]
    /\ CloseOldConnections
    /\ UNCHANGED <<server, overlay, submit>>

KeepPage ==
    /\ ~Reloads
    /\ Advance("version", "auth")
    /\ page' = [page EXCEPT !.flag = IF Outdated THEN @ ELSE 0]
    /\ UNCHANGED <<server, conn, link, overlay, submit>>

\* The server answers /auth, or the fetch fails: then no passcode is needed.
FetchAuth ==
    /\ Advance("auth", IF server.up /\ ~Authorized THEN "prompt" ELSE "connect")
    /\ UNCHANGED <<server, page, conn, link, overlay, submit>>

StartConnects(i) ==
    /\ Leave("connect")
    /\ overlay' = FALSE
    /\ Connect(i)
    /\ UNCHANGED <<server, page, submit>>

StartPrompts ==
    /\ Leave("prompt")
    /\ overlay' = TRUE
    /\ UNCHANGED <<server, page, conn, link, submit>>

-----------------------------------------------------------------------------
(* The passcode form                                                       *)

\* The button is disabled until the handler ends.
Submit ==
    /\ overlay
    /\ submit = "idle"
    /\ submit' = "posted"
    /\ UNCHANGED <<server, page, conn, link, start, overlay>>

\* A right passcode gives the browser the session cookie.
Posted ==
    /\ submit = "posted"
    /\ \/ server.up /\ submit' = "ok" /\ server' = [server EXCEPT !.cookie = TRUE]
       \/ submit' = "refused" /\ UNCHANGED server
    /\ UNCHANGED <<page, conn, link, start, overlay>>

SubmitContinues(i) ==
    /\ submit \in {"ok", "refused"}
    /\ submit' = "idle"
    /\ IF submit = "ok"
         THEN overlay' = FALSE /\ Connect(i)
         ELSE UNCHANGED <<overlay, conn, link>>
    /\ UNCHANGED <<server, page, start>>

-----------------------------------------------------------------------------
(* The callbacks of a connection                                           *)

\* onopen, and startPeerConnection.
SocketOpens(i) ==
    /\ link[i].socket = "connecting"
    /\ server.up /\ Authorized
    /\ IF i = conn.currentId
         THEN /\ link' = [link EXCEPT ![i].socket = "open", ![i].peer = "new"]
              /\ conn' = [conn EXCEPT !.pc = i]
         ELSE link' = [link EXCEPT ![i].socket = "open"] /\ UNCHANGED conn
    /\ UNCHANGED <<server, page, start, overlay, submit>>

\* onclose.
SocketClosed(i) ==
    /\ link[i].socket = "ended"
    /\ link' = [link EXCEPT ![i].socket = None]
    /\ Retry(i)
    /\ UNCHANGED <<server, page, start, overlay, submit>>

\* onnegotiationneeded sends the offer if conn.ws is open, else drops it.
NegotiationNeeded(i) ==
    /\ link[i].peer = "new"
    /\ i = conn.currentId
    /\ link' = [link EXCEPT ![i].peer =
           IF conn.ws # None /\ link[conn.ws].socket = "open" THEN "offered" ELSE "mute"]
    /\ UNCHANGED <<server, page, conn, start, overlay, submit>>

\* onmessage: the answer, upon which the channel opens.
Answered(i) ==
    /\ link[i].socket = "open"
    /\ link[i].peer = "offered"
    /\ i = conn.currentId /\ conn.pc # None
    /\ link' = [link EXCEPT ![conn.pc].peer = "live"]
    /\ UNCHANGED <<server, page, conn, start, overlay, submit>>

\* channel.onclose and onconnectionstatechange to failed or closed.
PeerEvent(i, e) ==
    /\ e \in link[i].events
    /\ link' = [link EXCEPT ![i].events = @ \ {e}]
    /\ Retry(i)
    /\ UNCHANGED <<server, page, start, overlay, submit>>

-----------------------------------------------------------------------------
(* The browser and the server                                              *)

\* A document goes away, and with it its script, its timer and its connections.
Unload(calls) ==
    /\ conn' = NoConn
    /\ link' = [i \in Conn |-> Dead]
    /\ start' = calls
    /\ overlay' = FALSE
    /\ submit' = "idle"
    /\ UNCHANGED server

\* The new page is the server's or, pinned by a cache, the old one again.
NewPage ==
    /\ server.up
    /\ \E v \in {page.app, server.version} :
           page' = [page EXCEPT !.app = v, !.load = "done"]
    /\ Unload(OneStart)

PageReplaced == page.load = "pending" /\ NewPage

\* A reload that meets a stopped server ends on the browser's error page, where
\* no script retries ...
ReloadFails ==
    /\ page.load = "pending"
    /\ ~server.up
    /\ page' = [page EXCEPT !.load = "failed"]
    /\ Unload(NoStart)

\* ... and which the user may reload.
UserReloads == page.load = "failed" /\ NewPage

PeerLost(l) ==
    CASE l.peer = "live" -> [l EXCEPT !.peer = "lost", !.events = @ \cup {"channel", "peer"}]
      [] l.peer \in {"new", "offered"} -> [l EXCEPT !.peer = "lost", !.events = @ \cup {"peer"}]
      [] OTHER -> l

SocketLost(l) ==
    IF l.socket \in {"connecting", "open"} THEN [l EXCEPT !.socket = "ended"] ELSE l

\* A connection that was up loses its peer, or its WebSocket and, because
\* the server ends the session then, its peer too; one that was answered may
\* not come up.
ConnectionLost(i) ==
    /\ link[i].peer \in {"offered", "live"}
    /\ \E l \in {PeerLost(link[i]), SocketLost(PeerLost(link[i]))} :
           link' = [link EXCEPT ![i] = l]
    /\ UNCHANGED <<server, page, conn, start, overlay, submit>>

\* handleOffer fails: the server logs it and sends no answer.
OfferRefused(i) ==
    /\ link[i].peer = "offered"
    /\ link' = [link EXCEPT ![i].peer = "refused"]
    /\ UNCHANGED <<server, page, conn, start, overlay, submit>>

\* The handshake of /signal fails: refused, or nobody there.
SocketFails(i) ==
    /\ link[i].socket = "connecting"
    /\ ~(server.up /\ Authorized)
    /\ link' = [link EXCEPT ![i].socket = "ended"]
    /\ UNCHANGED <<server, page, conn, start, overlay, submit>>

ServerStops ==
    /\ server.up
    /\ server' = [server EXCEPT !.up = FALSE]
    /\ link' = [i \in Conn |-> SocketLost(PeerLost(link[i]))]
    /\ UNCHANGED <<page, conn, start, overlay, submit>>

\* The network comes back, or a new run of the server: session tokens are
\* per run.
ServerStarts ==
    /\ ~server.up
    /\ \/ server' = [server EXCEPT !.up = TRUE]
       \/ \E v \in {server.version, server.version + 1} :
              /\ v =< MaxVersion
              /\ server' = [up |-> TRUE, version |-> v, cookie |-> FALSE]
    /\ UNCHANGED <<page, conn, link, start, overlay, submit>>

-----------------------------------------------------------------------------
Init ==
    /\ server = [up |-> TRUE, version |-> 1, cookie |-> FALSE]
    /\ page = [app |-> 1, flag |-> 0, load |-> "done"]
    /\ conn = NoConn
    /\ link = [i \in Conn |-> Dead]
    /\ start = OneStart
    /\ overlay = FALSE
    /\ submit = "idle"

CheckVersion == ReloadPage \/ KeepPage
Connects == \E i \in Conn : StartConnects(i)

Handshake(i) ==
    \/ SocketOpens(i) \/ SocketFails(i) \/ SocketClosed(i)
    \/ NegotiationNeeded(i) \/ Answered(i)
    \/ \E e \in {"channel", "peer"} : PeerEvent(i, e)

Reloading == PageReplaced \/ ReloadFails

Submitting == Posted \/ \E i \in Conn : SubmitContinues(i)

Next ==
    \/ TimerFires \/ CheckVersion \/ FetchAuth \/ Connects \/ StartPrompts
    \/ \E i \in Conn : Handshake(i) \/ ConnectionLost(i) \/ OfferRefused(i)
    \/ Submit \/ Submitting
    \/ Reloading \/ UserReloads
    \/ ServerStops \/ ServerStarts

Spec == Init /\ [][Next]_vars

\* Timers fire, fetches and reloads end one way or the other, events are
\* delivered, and a socket or an offer that meets neither a refusal nor a loss
\* succeeds.  The user need not do anything, not even reload the error page.
FairSpec ==
    /\ Spec
    /\ WF_vars(Submitting)
    /\ WF_vars(Reloading)
    /\ WF_vars(TimerFires) /\ WF_vars(CheckVersion) /\ WF_vars(FetchAuth)
    /\ WF_vars(Connects) /\ WF_vars(StartPrompts)
    /\ \A i \in Conn : WF_vars(Handshake(i))

-----------------------------------------------------------------------------
(* Properties                                                              *)

\* The variables keep their types: ids, phases and the retry delay of app.js.
TypeOK ==
    /\ server \in [up : BOOLEAN, version : 1..MaxVersion, cookie : BOOLEAN]
    /\ page \in [app : 1..MaxVersion, flag : 0..MaxVersion, load : Loads]
    /\ conn \in [currentId : Conn \cup {None}, ws : Conn \cup {None},
                 pc : Conn \cup {None}, timer : BOOLEAN, delay : 1..MaxDelay,
                 armed : Nat]
    /\ link \in [Conn -> [socket : {None, "connecting", "open", "ended"},
                          peer : {None, "new", "mute", "offered", "refused", "live", "lost"},
                          events : SUBSET {"channel", "peer"}]]
    /\ start \in [StartPoints -> 0..MaxStarts]
    /\ overlay \in BOOLEAN
    /\ submit \in {"idle", "posted", "ok", "refused"}

\* A connection that was replaced, by whichever of the calls under way, holds
\* neither a WebSocket nor a peer connection: the server would serve two
\* sessions of one page, and nobody could close the old one.  Nor is there a
\* retry that conn.reconnectTimer does not refer to, although the events of a
\* dying connection and several attempts all schedule one.
NothingLeaks ==
    /\ TypeOK
    /\ conn.armed = IF conn.timer THEN 1 ELSE 0
    /\ \A i \in Conn :
           /\ link[i].socket \in {"connecting", "open"} => i = conn.ws
           /\ link[i].peer # None => i = conn.pc

\* The comment on VERSION_RELOAD_KEY: a page that the reload cannot replace
\* does not reload for ever.  Only if the server stays up: a fetch that fails
\* clears the flag, so that each outage makes such a page reload once more.
ReloadsEnd == <>[]server.up => <>[](page.load # "pending")

Live == \E i \in Conn : link[i].peer = "live"

\* What the page cannot retry: it is gone, the server does not take its cookie,
\* or it waits for the answer to an offer that the server refused.
Served ==
    /\ server.up /\ Authorized
    /\ page.load # "failed"
    /\ \A i \in Conn : link[i].peer # "refused"

\* An attempt ends without a data channel.
AttemptFails == \E i \in Conn : link[i].peer = "offered" /\ link'[i].peer = "lost"

\* The page does not get stuck between its calls, callbacks and timers: while
\* it is served and its attempts no longer fail on the way, it gets its data
\* channel back, whichever of them were under way when the server stopped.
Recovers == <>[]Served /\ <>[][~AttemptFails]_vars => []<>Live
=============================================================================
