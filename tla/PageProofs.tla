---------------------------- MODULE PageProofs ------------------------------
(***************************************************************************)
(* The page (app.js): its connection and its panels.                       *)
(*                                                                         *)
(* It holds on to one connection and one retry timer, for any number of    *)
(* connection ids, versions and calls of startWhenAuthed under way, and    *)
(* whatever the server, the network and the browser do.  What the page     *)
(* refers to is the current connection's: that is why the peer connection  *)
(* which onopen stores never overwrites another one that is still alive.   *)
(*                                                                         *)
(* Its panels leave no contact behind, for any number of areas, fingers    *)
(* and messages under way, and however often the channel is lost: what is  *)
(* on in a device without a finger on its panel is ended by a message      *)
(* under way or by the end of a session.                                   *)
(***************************************************************************)
EXTENDS Client, Panels, FiniteSetTheorems, SequenceTheorems, TLAPS

InFlight == start["version"] + start["auth"] + start["connect"] + start["prompt"]

\* conn.ws and conn.pc are of the current connection, or null.
OwnConnection ==
    /\ conn.ws \in {None, conn.currentId}
    /\ conn.pc \in {None, conn.currentId}

IInv == NothingLeaks /\ OwnConnection /\ InFlight =< MaxStarts

-----------------------------------------------------------------------------
(* The invariant by the part of the state it is about                      *)

ConnRecord ==
    [currentId : Conn \cup {None}, ws : Conn \cup {None}, pc : Conn \cup {None},
     timer : BOOLEAN, delay : 1..MaxDelay, armed : Nat]

LinkRecord ==
    [socket : {None, "connecting", "open", "ended"},
     peer : {None, "new", "mute", "offered", "refused", "live", "lost"},
     events : SUBSET {"channel", "peer"}]

ConnSound(c) ==
    /\ c \in ConnRecord
    /\ c.armed = IF c.timer THEN 1 ELSE 0
    /\ c.ws \in {None, c.currentId}
    /\ c.pc \in {None, c.currentId}

\* What connection i may hold when the page refers to the connections in c.
MayHold(l, i, c) ==
    /\ l \in LinkRecord
    /\ l.socket \in {"connecting", "open"} => i = c.ws
    /\ l.peer # None => i = c.pc

LinksSound(ls, c) ==
    /\ ls = [i \in Conn |-> ls[i]]
    /\ \A i \in Conn : MayHold(ls[i], i, c)

StartsSound == start \in [StartPoints -> 0..MaxStarts] /\ InFlight =< MaxStarts

PageSound ==
    /\ server \in [up : BOOLEAN, version : 1..MaxVersion, cookie : BOOLEAN]
    /\ page \in [app : 1..MaxVersion, flag : 0..MaxVersion, load : Loads]
    /\ overlay \in BOOLEAN
    /\ submit \in {"idle", "posted", "ok", "refused"}

LEMMA Parts ==
    IInv <=> PageSound /\ StartsSound /\ ConnSound(conn) /\ LinksSound(link, conn)
  <1>1. link \in [Conn -> LinkRecord]
            <=> link = [i \in Conn |-> link[i]] /\ \A i \in Conn : link[i] \in LinkRecord
    OBVIOUS
  <1> QED
    BY <1>1 DEF IInv, NothingLeaks, TypeOK, OwnConnection, PageSound, StartsSound,
                ConnSound, ConnRecord, LinksSound, MayHold, LinkRecord

-----------------------------------------------------------------------------
(* The helpers of the page                                                 *)

\* Calls come and go within the bound.
LEMMA LeaveSound ==
    ASSUME StartsSound, NEW p \in StartPoints, Leave(p)
    PROVE  StartsSound'
  <1>1. /\ \A q \in StartPoints : start[q] \in 0..MaxStarts
        /\ start[p] > 0
        /\ start' = [start EXCEPT ![p] = start[p] - 1]
    BY DEF StartsSound, Leave
  <1>2. /\ \A q \in StartPoints : start'[q] = IF q = p THEN start[q] - 1 ELSE start[q]
        /\ start' \in [StartPoints -> 0..MaxStarts]
    BY <1>1, ClientAssumption DEF StartsSound
  <1> QED
    BY <1>1, <1>2, ClientAssumption DEF StartsSound, InFlight, StartPoints

LEMMA AdvanceSound ==
    ASSUME StartsSound, NEW p \in StartPoints, NEW q \in StartPoints, p # q,
           Advance(p, q)
    PROVE  StartsSound'
  <1>1. /\ \A r \in StartPoints : start[r] \in 0..MaxStarts
        /\ start[p] > 0
        /\ start' = [start EXCEPT ![p] = start[p] - 1, ![q] = start[q] + 1]
    BY DEF StartsSound, Advance
  <1>2. /\ DOMAIN start = StartPoints
        /\ start' = [r \in StartPoints |->
               IF r = q THEN start[r] + 1 ELSE IF r = p THEN start[r] - 1 ELSE start[r]]
    BY <1>1 DEF StartsSound
  <1>3. \A r \in StartPoints :
            start'[r] = IF r = q THEN start[r] + 1
                        ELSE IF r = p THEN start[r] - 1 ELSE start[r]
    BY <1>2
  <1>4. InFlight' = InFlight
    BY <1>1, <1>3 DEF InFlight, StartPoints
  <1>5. start'[q] \in 0..MaxStarts
    BY <1>1, <1>3, ClientAssumption DEF StartsSound, InFlight, StartPoints
  <1>6. start' \in [StartPoints -> 0..MaxStarts]
    BY <1>1, <1>2, <1>3, <1>5, ClientAssumption
  <1> QED
    BY <1>4, <1>6 DEF StartsSound

LEMMA EnterSound ==
    ASSUME StartsSound, Room, start' = Enter(start, "version")
    PROVE  StartsSound'
  <1>1. \A q \in StartPoints : start[q] \in 0..MaxStarts
    BY DEF StartsSound
  <1>2. /\ start' = [start EXCEPT !["version"] = start["version"] + 1]
        /\ \A q \in StartPoints :
              start'[q] = IF q = "version" THEN start[q] + 1 ELSE start[q]
    BY DEF StartsSound, Enter
  <1>3. start["version"] + 1 \in 0..MaxStarts /\ InFlight + 1 =< MaxStarts
    BY <1>1, ClientAssumption DEF Room, InFlight, StartPoints
  <1>4. start' \in [StartPoints -> 0..MaxStarts]
    BY <1>2, <1>3 DEF StartsSound
  <1>5. InFlight' = InFlight + 1
    BY <1>1, <1>2 DEF InFlight, StartPoints
  <1> QED
    BY <1>3, <1>4, <1>5 DEF StartsSound

\* A retry is scheduled once.
LEMMA ScheduleReconnectSound ==
    ASSUME NEW c, ConnSound(c)
    PROVE  /\ ConnSound(ScheduleReconnect(c))
           /\ ScheduleReconnect(c).ws = c.ws
           /\ ScheduleReconnect(c).pc = c.pc
           /\ ScheduleReconnect(c).currentId = c.currentId
  <1>1. Doubled(c.delay) \in 1..MaxDelay
    BY ClientAssumption DEF ConnSound, ConnRecord, Doubled
  <1>2. CASE c.timer
    BY <1>2 DEF ScheduleReconnect
  <1>3. CASE ~c.timer
    <2>1. c.armed + 1 = 1
      BY <1>3 DEF ConnSound
    <2>2. ScheduleReconnect(c) = [c EXCEPT !.timer = TRUE, !.armed = c.armed + 1,
                                           !.delay = Doubled(c.delay)]
      BY <1>3 DEF ScheduleReconnect
    <2>3. ScheduleReconnect(c) =
            [currentId |-> c.currentId, ws |-> c.ws, pc |-> c.pc, timer |-> TRUE,
             delay |-> Doubled(c.delay), armed |-> 1]
      BY <2>1, <2>2 DEF ConnSound, ConnRecord
    <2> QED
      BY <1>1, <2>3 DEF ConnSound, ConnRecord
  <1> QED
    BY <1>2, <1>3

LEMMA RetrySound ==
    ASSUME ConnSound(conn), NEW i, Retry(i)
    PROVE  /\ ConnSound(conn')
           /\ conn'.ws = conn.ws /\ conn'.pc = conn.pc
           /\ conn'.currentId = conn.currentId
  BY ScheduleReconnectSound DEF Retry

\* closeOldConnections leaves the page without a connection and a timer ...
LEMMA ClosedConnSound ==
    ASSUME ConnSound(conn)
    PROVE  /\ ConnSound(ClosedConn)
           /\ ClosedConn.ws = None /\ ClosedConn.pc = None
           /\ ~ClosedConn.timer
           /\ ClosedConn.currentId = conn.currentId
  <1> DEFINE c == ClearTimer(conn)
  <1>1. (IF conn.timer THEN conn.armed - 1 ELSE conn.armed) = 0
    BY DEF ConnSound
  <1>2. c = [conn EXCEPT !.timer = FALSE, !.armed = 0]
    BY <1>1 DEF ClearTimer
  <1>3. /\ c \in ConnRecord
        /\ c.timer = FALSE /\ c.armed = 0 /\ c.currentId = conn.currentId
    <2> HIDE DEF c
    <2> QED
      BY <1>2 DEF ConnSound, ConnRecord
  <1>4. ClosedConn = [c EXCEPT !.ws = None, !.pc = None]
    BY DEF ClosedConn
  <1> HIDE DEF c
  <1>5. /\ ClosedConn \in ConnRecord
        /\ ClosedConn.ws = None /\ ClosedConn.pc = None
        /\ ClosedConn.timer = c.timer /\ ClosedConn.armed = c.armed
        /\ ClosedConn.currentId = c.currentId
    BY <1>3, <1>4 DEF ConnRecord
  <1> QED
    BY <1>3, <1>5 DEF ConnSound

\* ... and the browser without a live one.
LEMMA ClosedLinksSound ==
    ASSUME LinksSound(link, conn)
    PROVE  /\ ClosedLinks = [i \in Conn |-> ClosedLinks[i]]
           /\ \A i \in Conn : /\ ClosedLinks[i] \in LinkRecord
                              /\ ClosedLinks[i].socket \in {None, "ended"}
                              /\ ClosedLinks[i].peer = None
  <1>1. ClosedLinks = [i \in Conn |-> ClosedLink(link[i], i = conn.ws, i = conn.pc)]
    BY DEF ClosedLinks
  <1>2. ASSUME NEW i \in Conn
        PROVE  LET l == ClosedLink(link[i], i = conn.ws, i = conn.pc)
               IN  /\ l \in LinkRecord
                   /\ l.socket \in {None, "ended"}
                   /\ l.peer = None
    <2>1. MayHold(link[i], i, conn)
      BY DEF LinksSound
    <2> QED
      BY <2>1 DEF MayHold, ClosedLink, LinkRecord
  <1> QED
    BY <1>1, <1>2

LEMMA CloseOldConnectionsSound ==
    ASSUME ConnSound(conn), LinksSound(link, conn), CloseOldConnections
    PROVE  ConnSound(conn)' /\ LinksSound(link, conn)'
  <1>1. conn' = ClosedConn /\ link' = ClosedLinks
    BY DEF CloseOldConnections
  <1>2. ASSUME NEW i \in Conn PROVE MayHold(link'[i], i, conn')
    BY <1>1, ClosedLinksSound DEF MayHold, None
  <1>3. link' = [i \in Conn |-> link'[i]]
    BY <1>1, ClosedLinksSound
  <1> QED
    BY <1>1, <1>2, <1>3, ClosedConnSound DEF LinksSound

\* The new connection is the only one that holds anything.
LEMMA ConnectSound ==
    ASSUME ConnSound(conn), LinksSound(link, conn), NEW i \in Conn, Connect(i)
    PROVE  ConnSound(conn)' /\ LinksSound(link, conn)'
  <1>1. conn' = [ClosedConn EXCEPT !.currentId = i, !.ws = i, !.delay = 1]
    BY DEF Connect
  <1>2. ConnSound(conn)' /\ conn'.ws = i /\ conn'.pc = None
    <2>1. conn' = [currentId |-> i, ws |-> i, pc |-> None, timer |-> ClosedConn.timer,
                   delay |-> 1, armed |-> ClosedConn.armed]
      BY <1>1, ClosedConnSound DEF ConnSound, ConnRecord
    <2>2. 1 \in 1..MaxDelay
      BY ClientAssumption
    <2> QED
      BY <2>1, <2>2, ClosedConnSound DEF ConnSound, ConnRecord
  <1>3. link' = [ClosedLinks EXCEPT ![i].socket = "connecting"]
    BY DEF Connect
  <1>4. /\ link' = [j \in Conn |-> link'[j]]
        /\ link'[i] = [ClosedLinks[i] EXCEPT !.socket = "connecting"]
        /\ \A j \in Conn \ {i} : link'[j] = ClosedLinks[j]
    BY <1>3, ClosedLinksSound
  <1>5. ASSUME NEW j \in Conn PROVE MayHold(link'[j], j, conn')
    <2>1. CASE j = i
      BY <1>2, <1>4, <2>1, ClosedLinksSound DEF MayHold, LinkRecord
    <2>2. CASE j # i
      BY <1>4, <2>2, ClosedLinksSound DEF MayHold, None
    <2> QED
      BY <2>1, <2>2
  <1> QED
    BY <1>2, <1>4, <1>5 DEF LinksSound

\* One connection changes what it holds, and only what it may.
LEMMA LinkChanges ==
    ASSUME LinksSound(link, conn), NEW i \in Conn, NEW l,
           link' = [link EXCEPT ![i] = l],
           MayHold(l, i, conn'), conn'.ws = conn.ws,
           conn'.pc = conn.pc \/ \A j \in Conn \ {i} : link[j].peer = None
    PROVE  LinksSound(link, conn)'
  <1>1. /\ link' = [j \in Conn |-> link'[j]]
        /\ link'[i] = l
        /\ \A j \in Conn \ {i} : link'[j] = link[j]
    BY DEF LinksSound
  <1>2. ASSUME NEW j \in Conn \ {i} PROVE MayHold(link'[j], j, conn')
    <2>1. MayHold(link[j], j, conn)
      BY DEF LinksSound
    <2> QED
      BY <1>1, <2>1 DEF MayHold
  <1> QED
    BY <1>1, <1>2 DEF LinksSound

\* Losing a peer or a socket leaves less to hold.
LEMMA LostSound ==
    ASSUME NEW l, NEW i, NEW c, MayHold(l, i, c)
    PROVE  MayHold(PeerLost(l), i, c) /\ MayHold(SocketLost(l), i, c)
  <1>1. MayHold(PeerLost(l), i, c)
    <2>1. CASE l.peer = "live"
      <3>1. PeerLost(l) = [l EXCEPT !.peer = "lost",
                                    !.events = l.events \cup {"channel", "peer"}]
        BY <2>1 DEF PeerLost
      <3> QED
        BY <2>1, <3>1 DEF MayHold, LinkRecord, None
    <2>2. CASE l.peer \in {"new", "offered"}
      <3>1. PeerLost(l) = [l EXCEPT !.peer = "lost", !.events = l.events \cup {"peer"}]
        BY <2>2 DEF PeerLost
      <3> QED
        BY <2>2, <3>1 DEF MayHold, LinkRecord, None
    <2>3. CASE l.peer \notin {"live", "new", "offered"}
      <3>1. PeerLost(l) = l
        BY <2>3 DEF PeerLost
      <3> QED
        BY <3>1
    <2> QED
      BY <2>1, <2>2, <2>3
  <1>2. MayHold(SocketLost(l), i, c)
    BY DEF MayHold, LinkRecord, SocketLost, None
  <1> QED
    BY <1>1, <1>2

-----------------------------------------------------------------------------
(* The steps                                                               *)

Sound == PageSound /\ StartsSound /\ ConnSound(conn) /\ LinksSound(link, conn)

LEMMA FreshPage ==
    /\ ConnSound(NoConn)
    /\ \A c : LinksSound([i \in Conn |-> Dead], c)
    /\ OneStart \in [StartPoints -> 0..MaxStarts]
    /\ OneStart["version"] = 1
    /\ \A p \in StartPoints \ {"version"} : OneStart[p] = 0
    /\ NoStart \in [StartPoints -> 0..MaxStarts]
    /\ \A p \in StartPoints : NoStart[p] = 0
  <1>1. 1 \in 1..MaxDelay /\ 0 \in 0..MaxStarts /\ 1 \in 0..MaxStarts
    BY ClientAssumption
  <1>2. ConnSound(NoConn)
    BY <1>1 DEF NoConn, ConnSound, ConnRecord
  <1>3. ASSUME NEW c PROVE LinksSound([i \in Conn |-> Dead], c)
    BY DEF LinksSound, MayHold, LinkRecord, Dead, None
  <1>4. OneStart = [p \in StartPoints |-> IF p = "version" THEN 0 + 1 ELSE 0]
    BY DEF OneStart, NoStart, Enter, StartPoints
  <1> QED
    BY <1>1, <1>2, <1>3, <1>4 DEF StartPoints, NoStart

\* Nothing of a document outlives it.
LEMMA UnloadSound ==
    ASSUME Unload(OneStart) \/ Unload(NoStart)
    PROVE  StartsSound' /\ ConnSound(conn)' /\ LinksSound(link, conn)'
  <1>1. /\ start' \in {OneStart, NoStart}
        /\ conn' = NoConn /\ link' = [i \in Conn |-> Dead]
    BY DEF Unload
  <1>2. start' \in [StartPoints -> 0..MaxStarts]
    BY <1>1, FreshPage
  <1>3. InFlight' \in {0, 1}
    BY <1>1, FreshPage DEF InFlight, StartPoints
  <1>4. StartsSound'
    BY <1>2, <1>3, ClientAssumption DEF StartsSound
  <1> QED
    BY <1>1, <1>4, FreshPage

\* The page's own tasks: the timer, the fetches and the passcode form.
LEMMA TasksSound ==
    ASSUME Sound,
           \/ TimerFires \/ CheckVersion \/ FetchAuth \/ Connects \/ StartPrompts
           \/ Submit \/ Submitting
    PROVE  Sound'
  <1> USE DEF Sound
  <1>1. CASE TimerFires
    <2>1. conn.timer /\ conn.armed = 1
      BY <1>1 DEF TimerFires, ConnSound
    <2>2. conn' = [currentId |-> conn.currentId, ws |-> conn.ws, pc |-> conn.pc,
                   timer |-> FALSE, delay |-> conn.delay, armed |-> 0]
      <3>1. conn' = [conn EXCEPT !.timer = FALSE, !.armed = 0]
        BY <1>1, <2>1 DEF TimerFires
      <3> QED
        BY <3>1 DEF ConnSound, ConnRecord
    <2>3. ConnSound(conn)'
      BY <2>2 DEF ConnSound, ConnRecord
    <2>4. LinksSound(link, conn)'
      BY <1>1, <2>2 DEF TimerFires, LinksSound, MayHold
    <2> QED
      BY <1>1, <2>3, <2>4, EnterSound DEF TimerFires, PageSound
  <1>2. CASE ReloadPage
    <2>1. PageSound'
      <3>1. server.version \in 0..MaxVersion
        BY ClientAssumption DEF PageSound
      <3>2. page' = [app |-> page.app, flag |-> server.version, load |-> "pending"]
        BY <1>2 DEF ReloadPage, PageSound
      <3> QED
        BY <1>2, <3>1, <3>2 DEF ReloadPage, PageSound, Loads
    <2> QED
      BY <1>2, <2>1, LeaveSound, CloseOldConnectionsSound DEF ReloadPage, StartPoints
  <1>3. CASE KeepPage
    <2>1. PageSound'
      BY <1>3, ClientAssumption DEF KeepPage, PageSound
    <2>2. StartsSound'
      BY <1>3, AdvanceSound DEF KeepPage, StartPoints
    <2> QED
      BY <1>3, <2>1, <2>2 DEF KeepPage
  <1>4. CASE FetchAuth
    <2>1. StartsSound'
      BY <1>4, AdvanceSound DEF FetchAuth, StartPoints
    <2> QED
      BY <1>4, <2>1 DEF FetchAuth, PageSound
  <1>5. ASSUME NEW i \in Conn, StartConnects(i)
        PROVE  Sound'
    BY <1>5, LeaveSound, ConnectSound DEF StartConnects, StartPoints, PageSound
  <1>6. CASE StartPrompts
    BY <1>6, LeaveSound DEF StartPrompts, StartPoints, PageSound
  <1>7. CASE Submit
    BY <1>7 DEF Submit, PageSound, StartsSound, InFlight
  <1>8. CASE Posted
    <2>1. PageSound'
      BY <1>8 DEF Posted, PageSound
    <2> QED
      BY <1>8, <2>1 DEF Posted, StartsSound, InFlight
  <1>9. ASSUME NEW i \in Conn, SubmitContinues(i)
        PROVE  Sound'
    <2>1. ConnSound(conn)' /\ LinksSound(link, conn)'
      BY <1>9, ConnectSound DEF SubmitContinues
    <2> QED
      BY <1>9, <2>1 DEF SubmitContinues, PageSound, StartsSound, InFlight
  <1> QED
    BY <1>1, <1>2, <1>3, <1>4, <1>5, <1>6, <1>7, <1>8, <1>9
    DEF CheckVersion, Connects, Submitting

\* The callbacks of a connection, whether or not it was replaced.
LEMMA CallbacksSound ==
    ASSUME Sound, NEW i \in Conn, Handshake(i) \/ ConnectionLost(i) \/ OfferRefused(i)
    PROVE  Sound'
  <1> USE DEF Sound
  <1>1. MayHold(link[i], i, conn) /\ DOMAIN link = Conn
    BY DEF LinksSound
  <1>2. UNCHANGED <<server, page, start, overlay, submit>> => PageSound' /\ StartsSound'
    BY DEF PageSound, StartsSound, InFlight
  <1>3. CASE SocketOpens(i)
    <2>1. CASE i = conn.currentId
      <3> DEFINE l == [link[i] EXCEPT !.socket = "open", !.peer = "new"]
      <3>1. link' = [link EXCEPT ![i] = l] /\ conn' = [conn EXCEPT !.pc = i]
        BY <1>1, <1>3, <2>1 DEF SocketOpens
      <3>2. conn' = [currentId |-> conn.currentId, ws |-> conn.ws, pc |-> i,
                     timer |-> conn.timer, delay |-> conn.delay, armed |-> conn.armed]
        BY <3>1 DEF ConnSound, ConnRecord
      <3>3. ConnSound(conn)' /\ conn'.ws = conn.ws /\ conn'.pc = i
        BY <2>1, <3>2 DEF ConnSound, ConnRecord
      <3>4. MayHold(l, i, conn')
        BY <1>1, <1>3, <3>3 DEF SocketOpens, MayHold, LinkRecord
      <3>5. \A j \in Conn \ {i} : link[j].peer = None
        BY <2>1, ClientAssumption DEF LinksSound, MayHold, ConnSound
      <3> HIDE DEF l
      <3>6. LinksSound(link, conn)'
        BY <3>1, <3>3, <3>4, <3>5, LinkChanges
      <3> QED
        BY <1>2, <1>3, <3>3, <3>6 DEF SocketOpens
    <2>2. CASE i # conn.currentId
      <3> DEFINE l == [link[i] EXCEPT !.socket = "open"]
      <3>1. link' = [link EXCEPT ![i] = l] /\ conn' = conn
        BY <1>1, <1>3, <2>2 DEF SocketOpens
      <3>2. MayHold(l, i, conn')
        BY <1>1, <1>3, <3>1 DEF SocketOpens, MayHold, LinkRecord
      <3> HIDE DEF l
      <3> QED
        BY <1>2, <1>3, <3>1, <3>2, LinkChanges DEF SocketOpens
    <2> QED
      BY <2>1, <2>2
  <1>4. CASE SocketFails(i)
    <2> DEFINE l == [link[i] EXCEPT !.socket = "ended"]
    <2>1. link' = [link EXCEPT ![i] = l] /\ conn' = conn
      BY <1>1, <1>4 DEF SocketFails
    <2>2. MayHold(l, i, conn')
      BY <1>1, <2>1 DEF MayHold, LinkRecord
    <2> HIDE DEF l
    <2> QED
      BY <1>2, <1>4, <2>1, <2>2, LinkChanges DEF SocketFails
  <1>5. CASE SocketClosed(i)
    <2> DEFINE l == [link[i] EXCEPT !.socket = None]
    <2>1. link' = [link EXCEPT ![i] = l]
      BY <1>1, <1>5 DEF SocketClosed
    <2>2. ConnSound(conn') /\ conn'.ws = conn.ws /\ conn'.pc = conn.pc
      BY <1>5, RetrySound DEF SocketClosed
    <2>3. MayHold(l, i, conn')
      BY <1>1, <2>2 DEF MayHold, LinkRecord, None
    <2> HIDE DEF l
    <2> QED
      BY <1>2, <1>5, <2>1, <2>2, <2>3, LinkChanges DEF SocketClosed
  <1>6. CASE NegotiationNeeded(i)
    <2>1. PICK x \in {"offered", "mute"} :
              link' = [link EXCEPT ![i] = [link[i] EXCEPT !.peer = x]]
      BY <1>1, <1>6 DEF NegotiationNeeded
    <2>2. conn' = conn
      BY <1>6 DEF NegotiationNeeded
    <2>3. MayHold([link[i] EXCEPT !.peer = x], i, conn')
      BY <1>1, <1>6, <2>2 DEF NegotiationNeeded, MayHold, LinkRecord, None
    <2> QED
      BY <1>2, <1>6, <2>1, <2>2, <2>3, LinkChanges DEF NegotiationNeeded
  <1>7. CASE Answered(i)
    <2> DEFINE l == [link[i] EXCEPT !.peer = "live"]
    <2>1. conn.pc = i /\ conn' = conn
      BY <1>7 DEF Answered, ConnSound
    <2>2. link' = [link EXCEPT ![i] = l]
      BY <1>1, <1>7, <2>1 DEF Answered
    <2>3. MayHold(l, i, conn')
      BY <1>1, <2>1 DEF MayHold, LinkRecord
    <2> HIDE DEF l
    <2> QED
      BY <1>2, <1>7, <2>1, <2>2, <2>3, LinkChanges DEF Answered
  <1>8. ASSUME NEW e, PeerEvent(i, e)
        PROVE  Sound'
    <2> DEFINE l == [link[i] EXCEPT !.events = link[i].events \ {e}]
    <2>1. link' = [link EXCEPT ![i] = l]
      BY <1>1, <1>8 DEF PeerEvent
    <2>2. ConnSound(conn') /\ conn'.ws = conn.ws /\ conn'.pc = conn.pc
      BY <1>8, RetrySound DEF PeerEvent
    <2>3. MayHold(l, i, conn')
      BY <1>1, <2>2 DEF MayHold, LinkRecord
    <2> HIDE DEF l
    <2> QED
      BY <1>2, <1>8, <2>1, <2>2, <2>3, LinkChanges DEF PeerEvent
  <1>9. CASE ConnectionLost(i)
    <2>1. PICK l \in {PeerLost(link[i]), SocketLost(PeerLost(link[i]))} :
              link' = [link EXCEPT ![i] = l]
      BY <1>9 DEF ConnectionLost
    <2>2. conn' = conn
      BY <1>9 DEF ConnectionLost
    <2>3. MayHold(l, i, conn')
      BY <1>1, <2>2, LostSound
    <2> QED
      BY <1>2, <1>9, <2>1, <2>2, <2>3, LinkChanges DEF ConnectionLost
  <1>10. CASE OfferRefused(i)
    <2> DEFINE l == [link[i] EXCEPT !.peer = "refused"]
    <2>1. link' = [link EXCEPT ![i] = l] /\ conn' = conn
      BY <1>1, <1>10 DEF OfferRefused
    <2>2. MayHold(l, i, conn')
      BY <1>1, <1>10, <2>1 DEF OfferRefused, MayHold, LinkRecord, None
    <2> HIDE DEF l
    <2> QED
      BY <1>2, <1>10, <2>1, <2>2, LinkChanges DEF OfferRefused
  <1> QED
    BY <1>3, <1>4, <1>5, <1>6, <1>7, <1>8, <1>9, <1>10 DEF Handshake

\* A new page, and a server that stops and starts.
LEMMA WorldSound ==
    ASSUME Sound, Reloading \/ UserReloads \/ ServerStops \/ ServerStarts
    PROVE  Sound'
  <1> USE DEF Sound
  <1>1. CASE PageReplaced \/ UserReloads
    <2>1. NewPage
      BY <1>1 DEF PageReplaced, UserReloads
    <2>2. PageSound'
      BY <2>1 DEF NewPage, Unload, PageSound, Loads
    <2> QED
      BY <2>1, <2>2, UnloadSound DEF NewPage
  <1>2. CASE ReloadFails
    <2>1. PageSound'
      BY <1>2 DEF ReloadFails, Unload, PageSound, Loads
    <2> QED
      BY <1>2, <2>1, UnloadSound DEF ReloadFails
  <1>3. CASE ServerStops
    <2>1. link' = [i \in Conn |-> SocketLost(PeerLost(link[i]))] /\ conn' = conn
      BY <1>3 DEF ServerStops
    <2>2. ASSUME NEW i \in Conn PROVE MayHold(link'[i], i, conn')
      BY <2>1, LostSound DEF LinksSound
    <2>3. LinksSound(link, conn)'
      BY <2>1, <2>2 DEF LinksSound
    <2>4. PageSound'
      BY <1>3 DEF ServerStops, PageSound
    <2> QED
      BY <1>3, <2>3, <2>4 DEF ServerStops, StartsSound, InFlight
  <1>4. CASE ServerStarts
    <2>1. PageSound'
      <3>1. CASE server' = [server EXCEPT !.up = TRUE]
        BY <1>4, <3>1 DEF ServerStarts, PageSound
      <3>2. ASSUME NEW v \in {server.version, server.version + 1}, v =< MaxVersion,
                   server' = [up |-> TRUE, version |-> v, cookie |-> FALSE]
            PROVE  PageSound'
        <4>1. v \in 1..MaxVersion
          BY <3>2, ClientAssumption DEF PageSound
        <4> QED
          BY <1>4, <3>2, <4>1 DEF ServerStarts, PageSound
      <3> QED
        BY <1>4, <3>1, <3>2 DEF ServerStarts
    <2> QED
      BY <1>4, <2>1 DEF ServerStarts, StartsSound, InFlight
  <1> QED
    BY <1>1, <1>2, <1>3, <1>4 DEF Reloading

LEMMA InitSound == Init => Sound
  <1> SUFFICES ASSUME Init PROVE Sound
    OBVIOUS
  <1>1. PageSound
    <2>1. 1 \in 1..MaxVersion /\ 0 \in 0..MaxVersion
      BY ClientAssumption
    <2> QED
      BY <2>1 DEF Init, PageSound, Loads
  <1>2. start = OneStart
    BY DEF Init
  <1>3. StartsSound
    BY <1>2, FreshPage, ClientAssumption DEF StartsSound, InFlight, StartPoints
  <1> QED
    BY <1>1, <1>3, FreshPage DEF Init, Sound

LEMMA NextSound == Sound /\ [Next]_vars => Sound'
  <1>1. Sound /\ UNCHANGED vars => Sound'
    BY DEF vars, Sound, PageSound, StartsSound, InFlight
  <1> QED
    BY <1>1, TasksSound, CallbacksSound, WorldSound DEF Next

-----------------------------------------------------------------------------
(* The theorems                                                            *)

\* The strengthened invariant, for all values of the constants.
THEOREM ClientInvariant == Spec => []IInv
  <1>1. Sound <=> IInv
    BY Parts DEF Sound
  <1> QED
    BY <1>1, InitSound, NextSound, PTL DEF Spec

\* A connection that was replaced holds nothing, and there is at most one retry
\* timer, the one conn.reconnectTimer refers to.
THEOREM NothingLeaksCorrect == Spec => []NothingLeaks
  <1>1. IInv => NothingLeaks
    BY DEF IInv
  <1> QED
    BY <1>1, ClientInvariant, PTL

-----------------------------------------------------------------------------
(* The panels                                                              *)

OnTablet(p) == active[p] # NoSurface /\ active[p].panel = "tablet"
OnPad(p) == active[p] # NoSurface /\ active[p].panel = "trackpad"

\* An area that shows the tablet, or is about to show another panel.
Shown(a) ==
    area[a].settling # "no" \/ area[a].pan # "none" \/ Panel(area[a].idx) = "tablet"

AreasSound ==
    \A a \in Area :
        /\ area[a].transition => area[a].settling # "no"
        /\ area[a].settling # "no" => area[a].pan = "none"
        /\ area[a].at # "base" => area[a].pan # "none"

\* A pen on the page is on a panel that is at least half in view.
PenInView == \A p \in Pointer : OnTablet(p) => Shown(active[p].area)

\* Nothing is under way to a session that is gone, nor held when none is left.
ChannelSound ==
    ~channel.open =>
        /\ queue = <<>>
        /\ ~channel.ending => device = Released

\* The messages that begin and end a contact, a stroke and the proximity.
PadTouches(p) == [type : {"down", "move"}, panel : {"trackpad"}, id : {p}]
PadLifts(p) == [type : {"up"}, panel : {"trackpad"}, id : {p}]
PenTouches == [type : {"down", "move"}, panel : {"tablet"}, id : Pointer]
PenLifts == [type : {"up"}, panel : {"tablet"}, id : Pointer]
PenLeaves == [type : {"activate"}, active : {FALSE}]

Has(q, U) == \E j \in 1..Len(q) : q[j] \in U

\* Every message of S in q has one of U behind it.
Followed(q, S, U) ==
    \A i \in 1..Len(q) : q[i] \in S => \E j \in 1..Len(q) : i < j /\ q[j] \in U

\* What is on in the devices, or will be, is ended by the messages under way.
ContactEnds(p) ==
    /\ Followed(queue, PadTouches(p), PadLifts(p))
    /\ p \in device.contacts /\ ~channel.ending => Has(queue, PadLifts(p))
StrokeEnds ==
    /\ Followed(queue, PenTouches, PenLifts)
    /\ device.tip /\ ~channel.ending => Has(queue, PenLifts)
RangeEnds ==
    /\ Followed(queue, PenTouches, PenLeaves)
    /\ device.inRange /\ ~channel.ending => Has(queue, PenLeaves)

TipHeld == \E p \in Pointer : OnTablet(p)
TabletShown == \E a \in Area : Shown(a)

AllEnds ==
    /\ \A p \in Pointer : OnPad(p) \/ ContactEnds(p)
    /\ TipHeld \/ StrokeEnds
    /\ TabletShown \/ RangeEnds

PanelsInv == PanelsTypeOK /\ AreasSound /\ PenInView /\ ChannelSound /\ AllEnds

-----------------------------------------------------------------------------
(* Messages                                                                *)

\* What is sent goes behind what is under way.
LEMMA FollowedAppend ==
    ASSUME NEW M, NEW q \in Seq(M), NEW r \in Seq(M), NEW S, NEW U
    PROVE  /\ Has(q, U) \/ Has(r, U) => Has(q \o r, U)
           /\ Followed(r, S, U) /\ (Followed(q, S, U) \/ Has(r, U))
                 => Followed(q \o r, S, U)
  <1> DEFINE s == q \o r
  <1>1. /\ Len(q) \in Nat /\ Len(r) \in Nat
        /\ Len(s) = Len(q) + Len(r)
        /\ \A i \in 1..Len(q) : s[i] = q[i]
        /\ \A i \in 1..Len(r) : s[Len(q) + i] = r[i]
    OBVIOUS
  <1> HIDE DEF s
  <1>2. ASSUME NEW j \in 1..Len(r), r[j] \in U
        PROVE  Len(q) + j \in 1..Len(s) /\ s[Len(q) + j] \in U
    BY <1>1, <1>2
  <1>3. ASSUME NEW j \in 1..Len(q), q[j] \in U
        PROVE  j \in 1..Len(s) /\ s[j] \in U
    BY <1>1, <1>3
  <1>4. Has(q, U) \/ Has(r, U) => Has(s, U)
    BY <1>2, <1>3 DEF Has
  <1>5. ASSUME Followed(r, S, U), Followed(q, S, U) \/ Has(r, U),
               NEW i \in 1..Len(s), s[i] \in S
        PROVE  \E j \in 1..Len(s) : i < j /\ s[j] \in U
    <2>1. CASE i \in 1..Len(q) /\ Has(r, U)
      <3>1. PICK j \in 1..Len(r) : r[j] \in U
        BY <2>1 DEF Has
      <3>2. i < Len(q) + j
        BY <1>1, <2>1
      <3> QED
        BY <1>2, <3>1, <3>2
    <2>2. CASE i \in 1..Len(q) /\ Followed(q, S, U)
      <3>1. PICK j \in 1..Len(q) : i < j /\ q[j] \in U
        BY <1>1, <1>5, <2>2 DEF Followed
      <3> QED
        BY <1>3, <3>1
    <2>3. CASE ~(i \in 1..Len(q))
      <3>1. i - Len(q) \in 1..Len(r) /\ s[i] = r[i - Len(q)]
        <4>1. /\ i \in Int /\ 1 =< i /\ i =< Len(q) + Len(r) /\ Len(q) < i
              /\ Len(q) \in Int /\ Len(r) \in Int
          BY <1>1, <2>3
        <4>2. i - Len(q) \in 1..Len(r) /\ Len(q) + (i - Len(q)) = i
          BY <4>1
        <4>3. s[Len(q) + (i - Len(q))] = r[i - Len(q)]
          BY <1>1, <4>2
        <4> QED
          BY <4>2, <4>3
      <3>2. PICK j \in 1..Len(r) : i - Len(q) < j /\ r[j] \in U
        BY <1>5, <3>1 DEF Followed
      <3>3. i < Len(q) + j
        BY <1>1, <3>2
      <3> QED
        BY <1>2, <3>2, <3>3
    <2> QED
      BY <1>5, <2>1, <2>2, <2>3
  <1>6. Followed(r, S, U) /\ (Followed(q, S, U) \/ Has(r, U)) => Followed(s, S, U)
    BY <1>5 DEF Followed
  <1> QED
    BY <1>4, <1>6 DEF s

\* What is delivered leaves its answer under way.
LEMMA FollowedTail ==
    ASSUME NEW M, NEW q \in Seq(M), q # <<>>, NEW S, NEW U, Followed(q, S, U)
    PROVE  /\ Followed(Tail(q), S, U)
           /\ Head(q) \in S => Has(Tail(q), U)
           /\ Has(q, U) => Head(q) \in U \/ Has(Tail(q), U)
  <1> DEFINE t == Tail(q)
  <1>1. /\ Len(q) \in Nat \ {0} /\ Len(t) = Len(q) - 1
        /\ Head(q) = q[1]
        /\ \A i \in 1..Len(t) : t[i] = q[i + 1]
    OBVIOUS
  <1> HIDE DEF t
  <1>2. ASSUME NEW j \in 1..Len(q), j > 1, q[j] \in U
        PROVE  j - 1 \in 1..Len(t) /\ t[j - 1] \in U
    <2>1. j - 1 \in 1..Len(t) /\ (j - 1) + 1 = j
      BY <1>1, <1>2
    <2> QED
      BY <1>1, <1>2, <2>1
  <1>3. Head(q) \in S => Has(t, U)
    BY <1>1, <1>2 DEF Followed, Has
  <1>4. Has(q, U) => Head(q) \in U \/ Has(t, U)
    BY <1>1, <1>2 DEF Has
  <1>5. ASSUME NEW i \in 1..Len(t), t[i] \in S
        PROVE  \E j \in 1..Len(t) : i < j /\ t[j] \in U
    <2>1. i + 1 \in 1..Len(q) /\ q[i + 1] \in S
      BY <1>1, <1>5
    <2>2. PICK j \in 1..Len(q) : i + 1 < j /\ q[j] \in U
      BY <2>1 DEF Followed
    <2>3. j > 1 /\ i < j - 1
      BY <1>1, <2>2
    <2> QED
      BY <1>2, <2>2, <2>3
  <1> QED
    BY <1>3, <1>4, <1>5 DEF Followed, t

\* Messages that begin nothing need no answer.
LEMMA NothingToAnswer ==
    ASSUME NEW q, NEW S, NEW U, \A i \in 1..Len(q) : q[i] \notin S
    PROVE  Followed(q, S, U)
  BY DEF Followed

\* One message.
LEMMA OneMessage ==
    ASSUME NEW M, NEW m \in M
    PROVE  /\ <<m>> \in Seq(M)
           /\ \A U : Has(<<m>>, U) <=> m \in U
           /\ \A S, U : m \notin S => Followed(<<m>>, S, U)
  <1>1. Len(<<m>>) = 1 /\ <<m>>[1] = m /\ <<m>> \in Seq(M)
    OBVIOUS
  <1> QED
    BY <1>1 DEF Has, Followed

-----------------------------------------------------------------------------
(* Sending                                                                 *)

\* The lists of messages the page sends.
Outgoing == Seq(Message)

\* What is sent while the channel is open ends what it has to; while it is not,
\* nothing is held that the end of a session does not release.
LEMMA SendEnds ==
    ASSUME PanelsTypeOK, ChannelSound, NEW r \in Outgoing, queue' = Sent(r),
           UNCHANGED <<channel, device>>
    PROVE  /\ queue' \in Outgoing
           /\ ChannelSound'
           /\ \A p \in Pointer :
                 /\ ContactEnds(p) \/ Has(r, PadLifts(p))
                 /\ Followed(r, PadTouches(p), PadLifts(p))
                 => ContactEnds(p)'
           /\ /\ StrokeEnds \/ Has(r, PenLifts)
              /\ Followed(r, PenTouches, PenLifts)
              => StrokeEnds'
           /\ /\ RangeEnds \/ Has(r, PenLeaves)
              /\ Followed(r, PenTouches, PenLeaves)
              => RangeEnds'
  <1>0. queue \in Outgoing
    BY DEF PanelsTypeOK, Outgoing
  <1>1. CASE channel.open
    <2>1. queue' = queue \o r
      BY <1>1 DEF Sent
    <2>2. queue \o r \in Outgoing
      BY <1>0 DEF Outgoing
    <2>3. ASSUME NEW S, NEW U
          PROVE  /\ Has(queue, U) \/ Has(r, U) => Has(queue', U)
                 /\ Followed(r, S, U) /\ (Followed(queue, S, U) \/ Has(r, U))
                       => Followed(queue', S, U)
      BY <1>0, <2>1, FollowedAppend DEF Outgoing
    <2>4. ChannelSound'
      BY <1>1 DEF ChannelSound
    <2> QED
      BY <2>1, <2>2, <2>3, <2>4 DEF ContactEnds, StrokeEnds, RangeEnds
  <1>2. CASE ~channel.open
    <2>1. queue' = <<>>
      BY <1>2 DEF Sent, ChannelSound
    <2>2. \A S, U : Followed(queue', S, U)
      BY <2>1 DEF Followed
    <2>3. ~channel.ending =>
             device.contacts = {} /\ device.tip = FALSE /\ device.inRange = FALSE
      BY <1>2 DEF ChannelSound, Released
    <2>4. queue' \in Outgoing
      BY <2>1 DEF Outgoing
    <2>5. ChannelSound'
      BY <1>2, <2>1 DEF ChannelSound
    <2> QED
      BY <2>2, <2>3, <2>4, <2>5 DEF ContactEnds, StrokeEnds, RangeEnds
  <1> QED
    BY <1>1, <1>2

\* A message of a pointer.
LEMMA PointerMessage ==
    ASSUME NEW type \in {"down", "move", "up"}, NEW panel \in {"trackpad", "tablet"},
           NEW p \in Pointer
    PROVE  LET m == [type |-> type, panel |-> panel, id |-> p]
           IN  /\ m \in Message
               /\ \A q \in Pointer :
                     /\ m \in PadTouches(q) => q = p /\ panel = "trackpad"
                     /\ type = "up" => m \notin PadTouches(q)
               /\ m \in PenTouches => type # "up" /\ panel = "tablet"
               /\ type = "up" /\ panel = "trackpad" => m \in PadLifts(p)
               /\ type = "up" /\ panel = "tablet" => m \in PenLifts
  BY DEF Message, PadTouches, PadLifts, PenTouches, PenLifts

\* notifyTabletActive.
LEMMA ActivateMessage ==
    ASSUME NEW s, NEW m, <<m>> = TabletActive(s)
    PROVE  /\ m \in Message
           /\ \A p \in Pointer : m \notin PadTouches(p)
           /\ m \notin PenTouches
           /\ (\A a \in Area : Panel(s[a].idx) # "tablet") => m \in PenLeaves
  <1>1. m = [type |-> "activate", active |-> \E a \in Area : Panel(s[a].idx) = "tablet"]
    BY DEF TabletActive
  <1> QED
    BY <1>1 DEF Message, PadTouches, PenTouches, PenLeaves

-----------------------------------------------------------------------------
(* The pointers                                                            *)

\* Where a pointer may be.
LEMMA ActiveSurface ==
    ASSUME PanelsTypeOK, NEW p \in Pointer, active[p] # NoSurface
    PROVE  /\ active[p].area \in Area
           /\ active[p].panel \in {"trackpad", "tablet"}
           /\ active[p] = [area |-> active[p].area, panel |-> active[p].panel]
  BY DEF PanelsTypeOK, Surface

LEMMA PointerDownKeeps ==
    ASSUME PanelsInv,
           NEW p \in Pointer, NEW a \in Area, NEW panel \in {"trackpad", "tablet"},
           PointerDown(p, a, panel), UNCHANGED landscape
    PROVE  PanelsInv'
  <1> DEFINE m == [type |-> "down", panel |-> panel, id |-> p]
             here == [area |-> a, panel |-> panel]
  <1>1. /\ active[p] = NoSurface
        /\ panel \in Visible(a)
        /\ area[a].settling = "no"
        /\ active' = [active EXCEPT ![p] = here]
        /\ queue' = Sent(<<m>>)
        /\ UNCHANGED <<area, channel, device>>
    BY DEF PointerDown
  <1>2. /\ m \in Message
        /\ \A q \in Pointer : m \in PadTouches(q) => q = p /\ panel = "trackpad"
        /\ m \in PenTouches => panel = "tablet"
    BY PointerMessage
  <1> HIDE DEF m
  <1>3. /\ <<m>> \in Outgoing
        /\ \A S, U : m \notin S => Followed(<<m>>, S, U)
    BY <1>2, OneMessage DEF Outgoing
  <1>4. here \in Surface /\ here # NoSurface
    BY PanelsAssumption DEF Surface
  <1>5. /\ active' \in [Pointer -> Surface \cup {NoSurface}]
        /\ active'[p] = here
        /\ \A q \in Pointer : q # p => active'[q] = active[q]
    BY <1>1, <1>4 DEF PanelsInv, PanelsTypeOK
  <1>6. panel = "tablet" => Shown(a)
    BY <1>1 DEF Visible, Shown, PanelsInv, AreasSound
  <1>7. /\ queue' \in Outgoing
        /\ ChannelSound'
        /\ \A q \in Pointer :
              ContactEnds(q) /\ Followed(<<m>>, PadTouches(q), PadLifts(q))
              => ContactEnds(q)'
        /\ StrokeEnds /\ Followed(<<m>>, PenTouches, PenLifts) => StrokeEnds'
        /\ RangeEnds /\ Followed(<<m>>, PenTouches, PenLeaves) => RangeEnds'
    BY <1>1, <1>3, SendEnds DEF PanelsInv
  <1> HIDE DEF here
  <1>8. ASSUME NEW q \in Pointer PROVE OnPad(q)' \/ ContactEnds(q)'
    <2>1. CASE m \in PadTouches(q)
      BY <1>2, <1>4, <1>5, <2>1 DEF OnPad, here
    <2>2. CASE m \notin PadTouches(q) /\ ContactEnds(q)
      BY <1>3, <1>7, <2>2
    <2>3. CASE OnPad(q)
      BY <1>1, <1>5, <2>3 DEF OnPad
    <2> QED
      BY <2>1, <2>2, <2>3 DEF PanelsInv, AllEnds
  <1>9. TipHeld' \/ StrokeEnds'
    <2>1. CASE panel = "tablet"
      BY <1>4, <1>5, <2>1 DEF TipHeld, OnTablet, here
    <2>2. CASE panel # "tablet" /\ StrokeEnds
      BY <1>2, <1>3, <1>7, <2>2
    <2>3. CASE TipHeld
      BY <1>1, <1>5, <2>3 DEF TipHeld, OnTablet
    <2> QED
      BY <2>1, <2>2, <2>3 DEF PanelsInv, AllEnds
  <1>10. TabletShown' \/ RangeEnds'
    <2>1. CASE TabletShown \/ panel = "tablet"
      BY <1>1, <1>6, <2>1 DEF TabletShown, Shown
    <2>2. CASE panel # "tablet" /\ RangeEnds
      BY <1>2, <1>3, <1>7, <2>2
    <2> QED
      BY <2>1, <2>2 DEF PanelsInv, AllEnds
  <1>11. PenInView'
    BY <1>1, <1>5, <1>6 DEF PanelsInv, PenInView, OnTablet, Shown, here
  <1>12. PanelsTypeOK' /\ AreasSound'
    BY <1>1, <1>5, <1>7 DEF PanelsInv, PanelsTypeOK, AreasSound, Outgoing
  <1> QED
    BY <1>7, <1>8, <1>9, <1>10, <1>11, <1>12 DEF PanelsInv, AllEnds

LEMMA PointerMoveKeeps ==
    ASSUME PanelsInv, NEW p \in Pointer, PointerMove(p), UNCHANGED landscape
    PROVE  PanelsInv'
  <1> DEFINE m == Sample("move", p)
  <1>1. /\ active[p] # NoSurface
        /\ area[active[p].area].settling = "no"
        /\ queue' = Sent(<<m>>)
        /\ UNCHANGED <<area, active, channel, device>>
    BY DEF PointerMove
  <1>2. active[p].area \in Area /\ active[p].panel \in {"trackpad", "tablet"}
    BY <1>1, ActiveSurface DEF PanelsInv
  <1>3. m = [type |-> "move", panel |-> active[p].panel, id |-> p]
    BY DEF Sample
  <1>4. /\ m \in Message
        /\ \A q \in Pointer : m \in PadTouches(q) => q = p /\ active[p].panel = "trackpad"
        /\ m \in PenTouches => active[p].panel = "tablet"
    BY <1>2, <1>3, PointerMessage
  <1> HIDE DEF m
  <1>5. /\ <<m>> \in Outgoing
        /\ \A S, U : m \notin S => Followed(<<m>>, S, U)
    BY <1>4, OneMessage DEF Outgoing
  <1>6. /\ queue' \in Outgoing
        /\ ChannelSound'
        /\ \A q \in Pointer :
              ContactEnds(q) /\ Followed(<<m>>, PadTouches(q), PadLifts(q))
              => ContactEnds(q)'
        /\ StrokeEnds /\ Followed(<<m>>, PenTouches, PenLifts) => StrokeEnds'
        /\ RangeEnds /\ Followed(<<m>>, PenTouches, PenLeaves) => RangeEnds'
    BY <1>1, <1>5, SendEnds DEF PanelsInv
  <1>7. ASSUME NEW q \in Pointer PROVE OnPad(q)' \/ ContactEnds(q)'
    BY <1>1, <1>4, <1>5, <1>6 DEF PanelsInv, AllEnds, OnPad
  <1>8. TipHeld' \/ StrokeEnds'
    BY <1>1, <1>4, <1>5, <1>6 DEF PanelsInv, AllEnds, TipHeld, OnTablet
  <1>9. TabletShown' \/ RangeEnds'
    <2>1. m \in PenTouches => TabletShown
      BY <1>1, <1>2, <1>4 DEF PanelsInv, PenInView, OnTablet, TabletShown
    <2>2. TabletShown => TabletShown'
      BY <1>1 DEF TabletShown, Shown
    <2> QED
      BY <1>5, <1>6, <2>1, <2>2 DEF PanelsInv, AllEnds
  <1>10. PenInView'
    BY <1>1 DEF PanelsInv, PenInView, OnTablet, Shown
  <1>11. PanelsTypeOK' /\ AreasSound'
    BY <1>1, <1>6 DEF PanelsInv, PanelsTypeOK, AreasSound, Outgoing
  <1> QED
    BY <1>6, <1>7, <1>8, <1>9, <1>10, <1>11 DEF PanelsInv, AllEnds

LEMMA PointerUpKeeps ==
    ASSUME PanelsInv, NEW p \in Pointer, PointerUp(p), UNCHANGED landscape
    PROVE  PanelsInv'
  <1> DEFINE m == Sample("up", p)
  <1>1. /\ active[p] # NoSurface
        /\ active' = [active EXCEPT ![p] = NoSurface]
        /\ queue' = Sent(<<m>>)
        /\ UNCHANGED <<area, channel, device>>
    BY DEF PointerUp
  <1>2. active[p].area \in Area /\ active[p].panel \in {"trackpad", "tablet"}
    BY <1>1, ActiveSurface DEF PanelsInv
  <1>3. m = [type |-> "up", panel |-> active[p].panel, id |-> p]
    BY DEF Sample
  <1>4. /\ m \in Message
        /\ \A q \in Pointer : m \notin PadTouches(q)
        /\ m \notin PenTouches
        /\ active[p].panel = "trackpad" => m \in PadLifts(p)
        /\ active[p].panel = "tablet" => m \in PenLifts
    BY <1>2, <1>3, PointerMessage
  <1> HIDE DEF m
  <1>5. /\ <<m>> \in Outgoing
        /\ \A S, U : m \notin S => Followed(<<m>>, S, U)
        /\ \A U : m \in U => Has(<<m>>, U)
    BY <1>4, OneMessage DEF Outgoing
  <1>6. /\ queue' \in Outgoing
        /\ ChannelSound'
        /\ \A q \in Pointer :
              /\ ContactEnds(q) \/ Has(<<m>>, PadLifts(q))
              /\ Followed(<<m>>, PadTouches(q), PadLifts(q))
              => ContactEnds(q)'
        /\ /\ StrokeEnds \/ Has(<<m>>, PenLifts)
           /\ Followed(<<m>>, PenTouches, PenLifts)
           => StrokeEnds'
        /\ RangeEnds /\ Followed(<<m>>, PenTouches, PenLeaves) => RangeEnds'
    BY <1>1, <1>5, SendEnds DEF PanelsInv
  <1>7. /\ active' \in [Pointer -> Surface \cup {NoSurface}]
        /\ active'[p] = NoSurface
        /\ \A q \in Pointer : q # p => active'[q] = active[q]
    BY <1>1 DEF PanelsInv, PanelsTypeOK
  <1>8. ASSUME NEW q \in Pointer PROVE OnPad(q)' \/ ContactEnds(q)'
    <2>1. CASE OnPad(q) /\ q # p
      BY <1>7, <2>1 DEF OnPad
    <2>2. CASE OnPad(q) /\ q = p
      BY <1>4, <1>5, <1>6, <2>2 DEF OnPad
    <2>3. CASE ContactEnds(q)
      BY <1>4, <1>5, <1>6, <2>3
    <2> QED
      BY <2>1, <2>2, <2>3 DEF PanelsInv, AllEnds
  <1>9. TipHeld' \/ StrokeEnds'
    <2>1. CASE TipHeld /\ ~OnTablet(p)
      BY <1>7, <2>1 DEF TipHeld, OnTablet
    <2>2. CASE OnTablet(p)
      BY <1>4, <1>5, <1>6, <2>2 DEF OnTablet
    <2>3. CASE StrokeEnds
      BY <1>4, <1>5, <1>6, <2>3
    <2> QED
      BY <2>1, <2>2, <2>3 DEF PanelsInv, AllEnds
  <1>10. TabletShown' \/ RangeEnds'
    BY <1>1, <1>4, <1>5, <1>6 DEF PanelsInv, AllEnds, TabletShown, Shown
  <1>11. PenInView'
    BY <1>1, <1>7 DEF PanelsInv, PenInView, OnTablet, Shown
  <1>12. PanelsTypeOK' /\ AreasSound'
    BY <1>1, <1>6, <1>7 DEF PanelsInv, PanelsTypeOK, AreasSound, Outgoing
  <1> QED
    BY <1>6, <1>8, <1>9, <1>10, <1>11, <1>12 DEF PanelsInv, AllEnds

-----------------------------------------------------------------------------
(* Swipes                                                                  *)

\* A swipe takes no panel away that shows the tablet.
LEMMA SwipeKeeps ==
    ASSUME PanelsInv, NEW a \in Area, Swipe(a), UNCHANGED landscape
    PROVE  PanelsInv'
  <1>1. /\ area' \in [Area -> AreaState]
        /\ \A b \in Area \ {a} : area'[b] = area[b]
        /\ Shown(a)'
        /\ area'[a].transition => area'[a].settling # "no"
        /\ area'[a].settling # "no" => area'[a].pan = "none"
        /\ area'[a].at # "base" => area'[a].pan # "none"
        /\ UNCHANGED <<active, channel, queue, device>>
    <2>0. area \in [Area -> AreaState]
      BY DEF PanelsInv, PanelsTypeOK
    <2>1. CASE \E edge \in {"left", "right"} : StartPan(a, edge)
      BY <2>0, <2>1 DEF StartPan, PanelsInv, AreasSound, AreaState, Shown
    <2>2. CASE \E pos \in Position : MovePan(a, pos)
      BY <2>0, <2>2 DEF MovePan, PanelsInv, AreasSound, AreaState, Shown
    <2>3. CASE \E commit \in BOOLEAN : EndPan(a, commit)
      <3>1. PICK commit \in BOOLEAN : EndPan(a, commit)
        BY <2>3
      <3> DEFINE to == IF ~commit THEN "back"
                       ELSE IF area[a].pan = "right" THEN "next" ELSE "prev"
                 moves == a \notin Hidden /\ area[a].at # Target(commit)
      <3>2. to \in {"next", "prev", "back"} /\ moves \in BOOLEAN
        OBVIOUS
      <3>3. area' = [area EXCEPT ![a] =
              [area[a] EXCEPT !.pan = "none", !.at = "base", !.transition = moves,
                              !.settling = to]]
        BY <2>0, <3>1 DEF EndPan, Settled
      <3>4. UNCHANGED <<active, channel, queue, device>>
        BY <3>1 DEF EndPan
      <3> HIDE DEF to, moves
      <3> DEFINE s == [idx |-> area[a].idx, settling |-> to, transition |-> moves,
                       pan |-> "none", at |-> "base"]
      <3>5. area[a] = [idx |-> area[a].idx, settling |-> area[a].settling,
                       transition |-> area[a].transition, pan |-> area[a].pan,
                       at |-> area[a].at]
        BY <2>0 DEF AreaState
      <3>6. /\ area' = [b \in Area |-> area'[b]]
            /\ \A b \in Area \ {a} : area'[b] = area[b]
        BY <2>0, <3>3
      <3>7. area'[a] = s
        BY <2>0, <3>3, <3>5 DEF AreaState
      <3>8. area' = [area EXCEPT ![a] = s]
        BY <2>0, <3>6, <3>7
      <3>9. s \in AreaState
        BY <2>0, <3>2 DEF AreaState, Position
      <3>10. area' \in [Area -> AreaState]
        BY <2>0, <3>8, <3>9
      <3> QED
        BY <2>0, <3>2, <3>3, <3>4, <3>10 DEF AreaState, Shown
    <2> QED
      BY <2>1, <2>2, <2>3 DEF Swipe
  <1>2. \A b \in Area : Shown(b) => Shown(b)'
    BY <1>1 DEF Shown
  <1>3. AreasSound'
    BY <1>1 DEF PanelsInv, AreasSound
  <1>4. PenInView'
    BY <1>1, <1>2, ActiveSurface DEF PanelsInv, PenInView, OnTablet
  <1>5. AllEnds'
    BY <1>1, <1>2 DEF PanelsInv, AllEnds, OnPad, ContactEnds, TipHeld, OnTablet,
                      StrokeEnds, TabletShown, RangeEnds
  <1>6. PanelsTypeOK' /\ ChannelSound'
    BY <1>1 DEF PanelsInv, PanelsTypeOK, ChannelSound
  <1> QED
    BY <1>3, <1>4, <1>5, <1>6 DEF PanelsInv

-----------------------------------------------------------------------------
(* The end of a transition                                                 *)

\* A list of a finite set's elements without repetition leaves none out.
LEMMA OrderIsOnto ==
    ASSUME NEW S, IsFiniteSet(S), NEW order \in SetToSeqs(S)
    PROVE  /\ order \in Seq(S)
           /\ \A x \in S : \E i \in 1..Len(order) : order[i] = x
  <1> DEFINE n == Cardinality(S)
             D == 1..n
  <1>1. n \in Nat
    BY FS_CardinalityType
  <1>2. Cardinality(S) = n
    BY DEF Cardinality
  <1>3. order \in [D -> S] /\ \A i, j \in D : i # j => order[i] # order[j]
    BY <1>2 DEF SetToSeqs
  <1>4. order \in Injection(D, S)
    BY <1>3 DEF Injection, IsInjective
  <1>5. Cardinality(D) = n
    BY <1>1, FS_Interval
  <1> HIDE DEF n
  <1>6. order \in Surjection(D, S)
    BY <1>4, <1>5, FS_Injection DEF n
  <1>7. order \in Seq(S) /\ Len(order) = n
    BY <1>1, <1>3
  <1> QED
    BY <1>6, <1>7 DEF Surjection

\* Every pointer of the area is lifted, and none touches anything.
LEMMA LiftsLift ==
    ASSUME PanelsTypeOK, NEW a \in Area,
           NEW order \in SetToSeqs(Held(a))
    PROVE  LET r == Lifts(order)
           IN  /\ r \in Outgoing
               /\ \A i \in 1..Len(r) :
                     /\ \A p \in Pointer : r[i] \notin PadTouches(p)
                     /\ r[i] \notin PenTouches
               /\ \A p \in Held(a) :
                     /\ OnPad(p) => Has(r, PadLifts(p))
                     /\ OnTablet(p) => Has(r, PenLifts)
  <1> DEFINE r == Lifts(order)
  <1>1. Held(a) \in SUBSET Pointer
    BY DEF Held
  <1>2. IsFiniteSet(Pointer)
    BY PanelsAssumption
  <1>3. IsFiniteSet(Held(a))
    BY <1>1, <1>2, FS_Subset
  <1>4. /\ order \in Seq(Held(a))
        /\ \A p \in Held(a) : \E i \in 1..Len(order) : order[i] = p
    BY <1>3, OrderIsOnto
  <1>5. \A i \in 1..Len(order) : order[i] \in Held(a)
    BY <1>4
  <1>6. /\ r = [i \in 1..Len(order) |-> Sample("up", order[i])]
        /\ Len(order) \in Nat
    BY <1>4 DEF Lifts
  <1>7. \A p \in Held(a) :
           /\ p \in Pointer
           /\ active[p].panel \in {"trackpad", "tablet"}
           /\ Sample("up", p) = [type |-> "up", panel |-> active[p].panel, id |-> p]
    BY ActiveSurface DEF Held, Sample
  <1>8. \A p \in Held(a) :
           LET m == Sample("up", p)
           IN  /\ m \in Message
               /\ \A q \in Pointer : m \notin PadTouches(q)
               /\ m \notin PenTouches
               /\ OnPad(p) => m \in PadLifts(p)
               /\ OnTablet(p) => m \in PenLifts
    BY <1>7, PointerMessage DEF OnPad, OnTablet
  <1> HIDE DEF r
  <1>9. r \in Outgoing /\ Len(r) = Len(order)
    BY <1>5, <1>6, <1>8 DEF Outgoing
  <1>10. \A i \in 1..Len(r) : r[i] = Sample("up", order[i]) /\ order[i] \in Held(a)
    BY <1>5, <1>6, <1>9
  <1>11. \A i \in 1..Len(r) :
            /\ \A p \in Pointer : r[i] \notin PadTouches(p)
            /\ r[i] \notin PenTouches
    BY <1>8, <1>10
  <1>12. ASSUME NEW p \in Held(a)
         PROVE  /\ OnPad(p) => Has(r, PadLifts(p))
                /\ OnTablet(p) => Has(r, PenLifts)
    <2>1. PICK i \in 1..Len(r) : order[i] = p
      BY <1>4, <1>9
    <2>2. r[i] = Sample("up", p)
      BY <1>10, <2>1
    <2> QED
      BY <1>8, <2>2 DEF Has
  <1> QED
    BY <1>9, <1>11, <1>12 DEF r

\* The panels after a transition.
LEMMA SnapsToPanel ==
    ASSUME NEW s \in AreaState
    PROVE  /\ Snapped(s) \in AreaState
           /\ Snapped(s).settling = "no"
           /\ ~Snapped(s).transition
           /\ Snapped(s).pan = s.pan
           /\ Snapped(s).at = s.at
  <1> DEFINE i == CASE s.settling = "next" -> After(s.idx)
                    [] s.settling = "prev" -> Before(s.idx)
                    [] OTHER -> s.idx
  <1>1. s.idx \in 0..2
    BY DEF AreaState
  <1>2. After(s.idx) \in 0..2 /\ Before(s.idx) \in 0..2
    BY <1>1 DEF After, Before
  <1>3. i \in 0..2
    BY <1>1, <1>2
  <1>4. Snapped(s) = [s EXCEPT !.idx = i, !.settling = "no", !.transition = FALSE]
    BY DEF Snapped
  <1> HIDE DEF i
  <1> QED
    BY <1>3, <1>4 DEF AreaState

LEMMA FinishSnapKeeps ==
    ASSUME PanelsInv, NEW a \in Area, FinishSnap(a), UNCHANGED landscape
    PROVE  PanelsInv'
  <1>0. PICK order \in SetToSeqs(Held(a)) :
           queue' = Sent(Lifts(order) \o TabletActive(area'))
    BY DEF FinishSnap
  <1> DEFINE l == Lifts(order)
             m == [type |-> "activate",
                   active |-> \E b \in Area : Panel(area'[b].idx) = "tablet"]
             r == l \o <<m>>
  <1>1. /\ area[a].transition
        /\ area' = [area EXCEPT ![a] = Snapped(area[a])]
        /\ active' = Forget(a)
        /\ queue' = Sent(r)
        /\ UNCHANGED <<channel, device>>
    BY <1>0 DEF FinishSnap, TabletActive
  <1>2. /\ m \in Message
        /\ \A p \in Pointer : m \notin PadTouches(p)
        /\ m \notin PenTouches
        /\ (\A b \in Area : Panel(area'[b].idx) # "tablet") => m \in PenLeaves
    BY ActivateMessage DEF TabletActive
  <1>3. /\ l \in Outgoing
        /\ \A i \in 1..Len(l) :
              /\ \A p \in Pointer : l[i] \notin PadTouches(p)
              /\ l[i] \notin PenTouches
        /\ \A p \in Held(a) :
              /\ OnPad(p) => Has(l, PadLifts(p))
              /\ OnTablet(p) => Has(l, PenLifts)
    BY LiftsLift DEF PanelsInv
  <1> HIDE DEF l, m
  <1>4. /\ <<m>> \in Outgoing
        /\ \A S, U : m \notin S => Followed(<<m>>, S, U)
        /\ \A U : m \in U => Has(<<m>>, U)
    BY <1>2, OneMessage DEF Outgoing
  <1>5. /\ r \in Outgoing
        /\ \A p \in Pointer : Followed(r, PadTouches(p), PadLifts(p))
        /\ Followed(r, PenTouches, PenLifts)
        /\ Followed(r, PenTouches, PenLeaves)
        /\ \A U : Has(l, U) \/ m \in U => Has(r, U)
    <2>1. /\ \A p \in Pointer : Followed(l, PadTouches(p), PadLifts(p))
          /\ Followed(l, PenTouches, PenLifts)
          /\ Followed(l, PenTouches, PenLeaves)
      BY <1>3, NothingToAnswer
    <2>2. r \in Outgoing
      BY <1>3, <1>4 DEF Outgoing
    <2>3. ASSUME NEW S, NEW U
          PROVE  /\ Has(l, U) \/ Has(<<m>>, U) => Has(r, U)
                 /\ Followed(<<m>>, S, U) /\ Followed(l, S, U) => Followed(r, S, U)
      BY <1>3, <1>4, FollowedAppend DEF Outgoing
    <2> QED
      BY <1>2, <1>4, <2>1, <2>2, <2>3
  <1> HIDE DEF r
  <1>6. /\ queue' \in Outgoing
        /\ ChannelSound'
        /\ \A p \in Pointer : ContactEnds(p) \/ Has(r, PadLifts(p)) => ContactEnds(p)'
        /\ StrokeEnds \/ Has(r, PenLifts) => StrokeEnds'
        /\ RangeEnds \/ Has(r, PenLeaves) => RangeEnds'
    BY <1>1, <1>5, SendEnds DEF PanelsInv
  <1>7. /\ active' \in [Pointer -> Surface \cup {NoSurface}]
        /\ \A p \in Pointer : active'[p] = IF p \in Held(a) THEN NoSurface ELSE active[p]
    BY <1>1 DEF Forget, PanelsInv, PanelsTypeOK
  <1>8. /\ area' \in [Area -> AreaState]
        /\ \A b \in Area \ {a} : area'[b] = area[b]
        /\ area'[a].settling = "no" /\ ~area'[a].transition
        /\ area'[a].pan = "none" /\ area'[a].at = "base"
    <2>1. area \in [Area -> AreaState]
      BY DEF PanelsInv, PanelsTypeOK
    <2>2. /\ Snapped(area[a]) \in AreaState
          /\ Snapped(area[a]).settling = "no"
          /\ ~Snapped(area[a]).transition
          /\ Snapped(area[a]).pan = area[a].pan
          /\ Snapped(area[a]).at = area[a].at
      BY <2>1, SnapsToPanel
    <2>3. area[a].pan = "none" /\ area[a].at = "base"
      BY <1>1, <2>1 DEF PanelsInv, AreasSound
    <2> QED
      BY <1>1, <2>1, <2>2, <2>3
  <1>9. ASSUME NEW p \in Pointer PROVE OnPad(p)' \/ ContactEnds(p)'
    <2>1. CASE OnPad(p) /\ p \in Held(a)
      BY <1>3, <1>5, <1>6, <2>1
    <2>2. CASE OnPad(p) /\ p \notin Held(a)
      BY <1>7, <2>2 DEF OnPad
    <2> QED
      BY <1>6, <2>1, <2>2 DEF PanelsInv, AllEnds
  <1>10. TipHeld' \/ StrokeEnds'
    <2>1. ASSUME NEW p \in Pointer, OnTablet(p), p \in Held(a)
          PROVE  StrokeEnds'
      BY <1>3, <1>5, <1>6, <2>1
    <2>2. ASSUME NEW p \in Pointer, OnTablet(p), p \notin Held(a)
          PROVE  TipHeld'
      BY <1>7, <2>2 DEF OnTablet, TipHeld
    <2>3. CASE TipHeld
      BY <2>1, <2>2, <2>3 DEF TipHeld
    <2> QED
      BY <1>6, <2>3 DEF PanelsInv, AllEnds
  <1>11. TabletShown' \/ RangeEnds'
    <2>1. CASE \E b \in Area : Panel(area'[b].idx) = "tablet"
      BY <2>1 DEF TabletShown, Shown
    <2>2. CASE \A b \in Area : Panel(area'[b].idx) # "tablet"
      BY <1>2, <1>5, <1>6, <2>2
    <2> QED
      BY <2>1, <2>2
  <1>12. PenInView'
    <2>1. ASSUME NEW p \in Pointer, OnTablet(p)'
          PROVE  Shown(active[p].area)' /\ active'[p] = active[p]
      <3>1. p \notin Held(a) /\ active'[p] = active[p] /\ OnTablet(p)
        BY <1>7, <2>1 DEF OnTablet
      <3>2. active[p].area \in Area /\ active[p].area # a
        BY <3>1, ActiveSurface DEF OnTablet, Held, PanelsInv
      <3> QED
        BY <1>8, <3>1, <3>2 DEF PanelsInv, PenInView, Shown
    <2> QED
      BY <2>1 DEF PenInView
  <1>13. AreasSound'
    BY <1>8 DEF PanelsInv, AreasSound
  <1>14. PanelsTypeOK'
    BY <1>1, <1>6, <1>7, <1>8 DEF PanelsInv, PanelsTypeOK, Outgoing
  <1> QED
    BY <1>6, <1>9, <1>10, <1>11, <1>12, <1>13, <1>14 DEF PanelsInv, AllEnds

-----------------------------------------------------------------------------
(* The server and the channel                                              *)

\* What is on in d after the message m, it began, or it was on and the message
\* does not end it.
Follows(m, d) ==
    /\ d \in [contacts : SUBSET Pointer, inRange : BOOLEAN, tip : BOOLEAN]
    /\ \A p \in Pointer :
          p \in d.contacts =>
             m \in PadTouches(p) \/ (p \in device.contacts /\ m \notin PadLifts(p))
    /\ d.tip => m \in PenTouches \/ (device.tip /\ m \notin PenLifts)
    /\ d.inRange => m \in PenTouches \/ (device.inRange /\ m \notin PenLeaves)

LEMMA AppliedFollows ==
    ASSUME PanelsTypeOK, NEW m \in Message
    PROVE  Follows(m, Applied(m))
  <1>1. device \in [contacts : SUBSET Pointer, inRange : BOOLEAN, tip : BOOLEAN]
    BY DEF PanelsTypeOK
  <1>2. CASE m \in [type : {"activate"}, active : BOOLEAN]
    <2>0. /\ m.type = "activate" /\ m.active \in BOOLEAN
          /\ m = [type |-> "activate", active |-> m.active]
      BY <1>2
    <2>1. m \notin PenLifts /\ \A p : m \notin PadLifts(p)
      BY <2>0 DEF PadLifts, PenLifts
    <2>2. m \in PenLeaves <=> ~m.active
      BY <2>0 DEF PenLeaves
    <2>3. Applied(m) = IF m.active THEN device
                         ELSE [device EXCEPT !.inRange = FALSE, !.tip = FALSE]
      BY <2>0 DEF Applied
    <2>4. CASE m.active
      BY <1>1, <2>1, <2>2, <2>3, <2>4 DEF Follows
    <2>5. CASE ~m.active
      BY <1>1, <2>1, <2>2, <2>3, <2>5 DEF Follows
    <2> QED
      BY <2>4, <2>5
  <1>3. CASE m \in [type : {"down", "move", "up"}, panel : {"trackpad"}, id : Pointer]
    <2>1. Applied(m) = Trackpad(m)
      BY <1>3 DEF Applied
    <2>2. /\ m.id \in Pointer
          /\ m \notin PenLifts /\ m \notin PenLeaves
          /\ m.type # "up" => m \in PadTouches(m.id)
          /\ \A p : m \in PadLifts(p) => m.type = "up" /\ p = m.id
      BY <1>3 DEF PadTouches, PadLifts, PenLifts, PenLeaves
    <2>3. CASE m.type = "up"
      <3>1. Applied(m) = [device EXCEPT !.contacts = @ \ {m.id}]
        BY <2>1, <2>3 DEF Trackpad
      <3> QED
        BY <1>1, <2>2, <3>1 DEF Follows
    <2>4. CASE m.type # "up"
      <3>1. Applied(m) = [device EXCEPT !.contacts = @ \cup {m.id}]
        BY <2>1, <2>4 DEF Trackpad
      <3> QED
        BY <1>1, <2>2, <2>4, <3>1 DEF Follows
    <2> QED
      BY <2>3, <2>4
  <1>4. CASE m \in [type : {"down", "move", "up"}, panel : {"tablet"}, id : Pointer]
    <2>1. Applied(m) = Tablet(m)
      BY <1>4 DEF Applied
    <2>2. /\ \A p : m \notin PadLifts(p)
          /\ m \notin PenLeaves
          /\ m.type # "up" => m \in PenTouches
          /\ m.type = "up" <=> m \in PenLifts
          /\ m.type \in {"down", "move", "up"}
      BY <1>4 DEF PadLifts, PenLeaves, PenTouches, PenLifts
    <2>3. CASE m.type = "down"
      BY <1>1, <2>1, <2>2, <2>3 DEF Tablet, Follows
    <2>4. CASE m.type = "move"
      BY <1>1, <2>1, <2>2, <2>4 DEF Tablet, Follows
    <2>5. CASE m.type = "up"
      BY <1>1, <2>1, <2>2, <2>5 DEF Tablet, Follows
    <2> QED
      BY <2>2, <2>3, <2>4, <2>5
  <1> QED
    BY <1>2, <1>3, <1>4 DEF Message

LEMMA DeliverKeeps ==
    ASSUME PanelsInv, Deliver, UNCHANGED landscape
    PROVE  PanelsInv'
  <1> DEFINE m == Head(queue)
  <1>1. /\ queue # <<>>
        /\ device' = Applied(m)
        /\ queue' = Tail(queue)
        /\ UNCHANGED <<area, active, channel>>
    BY DEF Deliver
  <1>2. queue \in Outgoing /\ queue' \in Outgoing /\ m \in Message
    BY <1>1 DEF PanelsInv, PanelsTypeOK, Outgoing
  <1>3. \A S, U : Followed(queue, S, U) =>
           /\ Followed(queue', S, U)
           /\ m \in S => Has(queue', U)
           /\ Has(queue, U) => m \in U \/ Has(queue', U)
    BY <1>1, <1>2, FollowedTail DEF Outgoing
  <1> HIDE DEF m
  <1>4. /\ device' \in [contacts : SUBSET Pointer, inRange : BOOLEAN, tip : BOOLEAN]
        /\ \A p \in Pointer :
              p \in device'.contacts =>
                 m \in PadTouches(p) \/ (p \in device.contacts /\ m \notin PadLifts(p))
        /\ device'.tip => m \in PenTouches \/ (device.tip /\ m \notin PenLifts)
        /\ device'.inRange => m \in PenTouches \/ (device.inRange /\ m \notin PenLeaves)
    BY <1>1, <1>2, AppliedFollows DEF PanelsInv, Follows
  <1>5. ASSUME NEW p \in Pointer PROVE OnPad(p)' \/ ContactEnds(p)'
    <2>1. ContactEnds(p) => ContactEnds(p)'
      BY <1>1, <1>3, <1>4 DEF ContactEnds
    <2> QED
      BY <1>1, <2>1 DEF PanelsInv, AllEnds, OnPad
  <1>6. TipHeld' \/ StrokeEnds'
    <2>1. StrokeEnds => StrokeEnds'
      BY <1>1, <1>3, <1>4 DEF StrokeEnds
    <2> QED
      BY <1>1, <2>1 DEF PanelsInv, AllEnds, TipHeld, OnTablet
  <1>7. TabletShown' \/ RangeEnds'
    <2>1. RangeEnds => RangeEnds'
      BY <1>1, <1>3, <1>4 DEF RangeEnds
    <2> QED
      BY <1>1, <2>1 DEF PanelsInv, AllEnds, TabletShown, Shown
  <1>8. PanelsTypeOK' /\ AreasSound' /\ PenInView' /\ ChannelSound'
    BY <1>1, <1>2, <1>4 DEF PanelsInv, PanelsTypeOK, AreasSound, PenInView, OnTablet, Shown,
                            ChannelSound, Outgoing
  <1> QED
    BY <1>5, <1>6, <1>7, <1>8 DEF PanelsInv, AllEnds

\* What is lost ends with the session.
LEMMA LoseKeeps ==
    ASSUME PanelsInv, Lose, UNCHANGED landscape
    PROVE  PanelsInv'
  <1>1. /\ channel' = [open |-> FALSE, ending |-> TRUE]
        /\ queue' = <<>>
        /\ UNCHANGED <<area, active, device>>
    BY DEF Lose
  <1>2. /\ \A p \in Pointer : ContactEnds(p)'
        /\ StrokeEnds' /\ RangeEnds'
    BY <1>1 DEF ContactEnds, StrokeEnds, RangeEnds, Followed
  <1>3. PanelsTypeOK' /\ AreasSound' /\ PenInView' /\ ChannelSound'
    BY <1>1 DEF PanelsInv, PanelsTypeOK, AreasSound, PenInView, OnTablet, Shown, ChannelSound
  <1> QED
    BY <1>2, <1>3 DEF PanelsInv, AllEnds

LEMMA EndSessionKeeps ==
    ASSUME PanelsInv, EndSession, UNCHANGED landscape
    PROVE  PanelsInv'
  <1>1. /\ channel' = [channel EXCEPT !.ending = FALSE]
        /\ device' = Released
        /\ UNCHANGED <<area, active, queue>>
    BY DEF EndSession
  <1>2. /\ channel' \in [open : BOOLEAN, ending : BOOLEAN]
        /\ channel'.open = channel.open
        /\ device' \in [contacts : SUBSET Pointer, inRange : BOOLEAN, tip : BOOLEAN]
        /\ device'.contacts = {} /\ ~device'.tip /\ ~device'.inRange
    BY <1>1 DEF PanelsInv, PanelsTypeOK, Released
  <1>3. /\ \A p \in Pointer : ContactEnds(p) => ContactEnds(p)'
        /\ StrokeEnds => StrokeEnds'
        /\ RangeEnds => RangeEnds'
    BY <1>1, <1>2 DEF ContactEnds, StrokeEnds, RangeEnds
  <1>4. AllEnds'
    BY <1>1, <1>3 DEF PanelsInv, AllEnds, OnPad, TipHeld, OnTablet, TabletShown, Shown
  <1>5. ChannelSound'
    BY <1>1, <1>2 DEF PanelsInv, ChannelSound, Released
  <1>6. PanelsTypeOK' /\ AreasSound' /\ PenInView'
    BY <1>1, <1>2 DEF PanelsInv, PanelsTypeOK, AreasSound, PenInView, OnTablet, Shown
  <1> QED
    BY <1>4, <1>5, <1>6 DEF PanelsInv

LEMMA OpenKeeps ==
    ASSUME PanelsInv, Open, UNCHANGED landscape
    PROVE  PanelsInv'
  <1> DEFINE m == [type |-> "activate",
                   active |-> \E a \in Area : Panel(area[a].idx) = "tablet"]
  <1>1. /\ ~channel.open
        /\ channel' = [channel EXCEPT !.open = TRUE]
        /\ queue' = <<m>>
        /\ UNCHANGED <<area, active, device>>
    BY DEF Open, TabletActive
  <1>2. /\ m \in Message
        /\ \A p \in Pointer : m \notin PadTouches(p)
        /\ m \notin PenTouches
    BY ActivateMessage DEF TabletActive
  <1> HIDE DEF m
  <1>3. /\ queue' \in Outgoing
        /\ \A S, U : m \notin S => Followed(queue', S, U)
    BY <1>1, <1>2, OneMessage DEF Outgoing
  <1>4. /\ channel' \in [open : BOOLEAN, ending : BOOLEAN]
        /\ channel'.open /\ channel'.ending = channel.ending
    BY <1>1 DEF PanelsInv, PanelsTypeOK
  <1>5. ~channel.ending => device.contacts = {} /\ ~device.tip /\ ~device.inRange
    BY <1>1 DEF PanelsInv, ChannelSound, Released
  <1>6. /\ \A p \in Pointer : ContactEnds(p)'
        /\ StrokeEnds' /\ RangeEnds'
    BY <1>1, <1>2, <1>3, <1>4, <1>5 DEF ContactEnds, StrokeEnds, RangeEnds
  <1>7. PanelsTypeOK' /\ AreasSound' /\ PenInView' /\ ChannelSound'
    BY <1>1, <1>3, <1>4 DEF PanelsInv, PanelsTypeOK, AreasSound, PenInView, OnTablet, Shown,
                            ChannelSound, Outgoing
  <1> QED
    BY <1>6, <1>7 DEF PanelsInv, AllEnds

-----------------------------------------------------------------------------
(* The panels and their pointers                                           *)

LEMMA PanelsInitSound ==
    ASSUME PanelsInit
    PROVE  PanelsInv
  <1>1. /\ area = [a \in Area |-> [idx |-> Start[a], settling |-> "no",
                                   transition |-> FALSE, pan |-> "none", at |-> "base"]]
        /\ active = [p \in Pointer |-> NoSurface]
        /\ channel = [open |-> FALSE, ending |-> FALSE]
        /\ queue = <<>>
        /\ device = [contacts |-> {}, inRange |-> FALSE, tip |-> FALSE]
    BY DEF PanelsInit, Released
  <1>2. area \in [Area -> AreaState]
    BY <1>1, PanelsAssumption DEF AreaState, Position
  <1>3. PanelsTypeOK
    BY <1>1, <1>2 DEF PanelsInit, PanelsTypeOK
  <1>4. AreasSound /\ PenInView /\ ChannelSound
    BY <1>1 DEF AreasSound, PenInView, OnTablet, ChannelSound, Released
  <1>5. AllEnds
    BY <1>1 DEF AllEnds, ContactEnds, StrokeEnds, RangeEnds, Followed
  <1> QED
    BY <1>3, <1>4, <1>5 DEF PanelsInv

\* Rotation takes transitions away, and nothing else.
LEMMA RotateKeeps ==
    ASSUME PanelsInv, Rotate
    PROVE  PanelsInv'
  <1>1. area \in [Area -> AreaState] /\ UNCHANGED <<active, channel, queue, device>>
    BY DEF PanelsInv, PanelsTypeOK, Rotate
  <1>2. ASSUME NEW b \in Area
        PROVE  /\ area'[b] \in AreaState
               /\ area'[b].idx = area[b].idx /\ area'[b].settling = area[b].settling
               /\ area'[b].pan = area[b].pan /\ area'[b].at = area[b].at
               /\ area'[b].transition => area[b].transition
    <2>1. area'[b] \in {area[b], [area[b] EXCEPT !.transition = FALSE]}
      BY DEF Rotate
    <2> QED
      BY <1>1, <2>1 DEF AreaState
  <1>3. area' \in [Area -> AreaState]
    BY <1>2 DEF Rotate
  <1>4. \A b \in Area : Shown(b)' <=> Shown(b)
    BY <1>2 DEF Shown
  <1>5. PenInView'
    BY <1>1, <1>4, ActiveSurface DEF PanelsInv, PenInView, OnTablet
  <1>6. AllEnds'
    BY <1>1, <1>4 DEF PanelsInv, AllEnds, OnPad, ContactEnds, TipHeld, OnTablet,
                      StrokeEnds, TabletShown, RangeEnds
  <1>7. AreasSound'
    BY <1>2 DEF PanelsInv, AreasSound
  <1>8. PanelsTypeOK' /\ ChannelSound'
    BY <1>1, <1>3 DEF PanelsInv, PanelsTypeOK, ChannelSound, Rotate
  <1> QED
    BY <1>5, <1>6, <1>7, <1>8 DEF PanelsInv

LEMMA PanelsNextSound ==
    ASSUME PanelsInv, [PanelsNext]_panelsVars
    PROVE  PanelsInv'
  <1>1. ASSUME NEW p \in Pointer, Touch(p), UNCHANGED landscape PROVE PanelsInv'
    BY <1>1, PointerDownKeeps, PointerMoveKeeps, PointerUpKeeps DEF Touch
  <1>2. ASSUME NEW a \in Area, Swipe(a), UNCHANGED landscape PROVE PanelsInv'
    BY <1>2, SwipeKeeps
  <1>3. ASSUME NEW a \in Area, FinishSnap(a), UNCHANGED landscape PROVE PanelsInv'
    BY <1>3, FinishSnapKeeps
  <1>4. CASE (Deliver \/ Lose \/ EndSession \/ Open) /\ UNCHANGED landscape
    BY <1>4, DeliverKeeps, LoseKeeps, EndSessionKeeps, OpenKeeps
  <1>5. CASE UNCHANGED panelsVars
    BY <1>5 DEF panelsVars, PanelsInv, PanelsTypeOK, AreasSound, PenInView, OnTablet, Shown,
                ChannelSound, AllEnds, OnPad, ContactEnds, TipHeld, StrokeEnds,
                TabletShown, RangeEnds
  <1> QED
    BY <1>1, <1>2, <1>3, <1>4, <1>5, RotateKeeps DEF PanelsNext

THEOREM PanelsSound == PanelsSpec => []PanelsInv
  BY PanelsInitSound, PanelsNextSound, PTL DEF PanelsSpec

\* A contact of a device belongs to a finger on its panel, once nothing is
\* under way (releaseAllPointers, the pointer handlers, the session's end).
THEOREM NoGhostContactCorrect == PanelsSpec => []NoGhostContact
  <1>1. PanelsInv => NoGhostContact
    <2> SUFFICES ASSUME PanelsInv, Quiet
                 PROVE  /\ \A p \in device.contacts : OnPad(p)
                        /\ device.tip => TipHeld
      BY DEF NoGhostContact, OnPad, TipHeld, OnTablet, PanelsInv
    <2>1. queue = <<>> /\ ~channel.ending
      BY DEF Quiet
    <2>2. \A U : ~Has(queue, U)
      BY <2>1 DEF Has
    <2>3. device.contacts \subseteq Pointer
      BY DEF PanelsInv, PanelsTypeOK
    <2> QED
      BY <2>1, <2>2, <2>3 DEF PanelsInv, AllEnds, ContactEnds, StrokeEnds
  <1> QED
    BY <1>1, PanelsSound, PTL

\* Once every area has settled on another panel than the tablet, the pen is
\* out of range (notifyTabletActive in finishSnap and on channel.onopen).
THEOREM PenReleasedCorrect == PanelsSpec => []PenReleased
  <1>1. PanelsInv => PenReleased
    <2> SUFFICES ASSUME PanelsInv, Quiet, ~TabletShown
                 PROVE  ~device.inRange
      BY DEF PenReleased, TabletShown, Shown
    <2>1. queue = <<>> /\ ~channel.ending
      BY DEF Quiet
    <2>2. \A U : ~Has(queue, U)
      BY <2>1 DEF Has
    <2> QED
      BY <2>1, <2>2 DEF PanelsInv, AllEnds, RangeEnds
  <1> QED
    BY <1>1, PanelsSound, PTL

\* What each step does to a running transition, and how an area goes deaf.
LEMMA TransitionEnds ==
    ASSUME PanelsInv, PanelsNext, NEW a \in Area
    PROVE  /\ area[a].transition /\ area'[a] # area[a] => Arrived(a) \/ TurnedAway(a)
           /\ ~Deaf(a) /\ Deaf(a)' => EndsInPlace(a) \/ TurnedAway(a)
  <1>1. area \in [Area -> AreaState] /\ area[a] \in AreaState
    BY DEF PanelsInv, PanelsTypeOK
  <1>2. /\ area[a].transition => area[a].settling # "no"
        /\ area[a].settling # "no" => area[a].pan = "none"
    BY DEF PanelsInv, AreasSound
  <1>3. CASE area'[a] = area[a]
    BY <1>3 DEF Deaf
  <1>4. ASSUME NEW edge, StartPan(a, edge)
        PROVE  ~area[a].transition /\ ~Deaf(a)'
    <2>1. area'[a] = [area[a] EXCEPT !.pan = edge] /\ area[a].settling = "no"
      BY <1>1, <1>4 DEF StartPan
    <2> QED
      BY <1>1, <1>2, <2>1 DEF AreaState, Deaf
  <1>5. ASSUME NEW pos, MovePan(a, pos)
        PROVE  ~area[a].transition /\ ~Deaf(a)'
    <2>1. area'[a] = [area[a] EXCEPT !.at = pos] /\ area[a].pan # "none"
      BY <1>1, <1>5 DEF MovePan
    <2> QED
      BY <1>1, <1>2, <2>1 DEF AreaState, Deaf
  <1>6. ASSUME NEW commit \in BOOLEAN, EndPan(a, commit)
        PROVE  ~area[a].transition /\ (Deaf(a)' => EndsInPlace(a))
    <2>1. area[a].pan # "none"
      BY <1>6 DEF EndPan
    <2>2. area'[a] = Settled(area[a], commit, a \notin Hidden /\ area[a].at # Target(commit))
      BY <1>1, <1>6 DEF EndPan
    <2>3. /\ area'[a].transition = (a \notin Hidden /\ area[a].at # Target(commit))
          /\ area'[a].settling # "back" <=> commit
      BY <1>1, <2>2 DEF Settled, AreaState
    <2>4. Deaf(a)' => a \in Hidden \/ area[a].at = Target(commit)
      BY <2>3 DEF Deaf
    <2> QED
      BY <1>2, <2>1, <2>3, <2>4 DEF EndsInPlace, Target
  <1>7. ASSUME FinishSnap(a)
        PROVE  Arrived(a) /\ ~Deaf(a)'
    <2>1. area'[a] = Snapped(area[a]) /\ active' = Forget(a)
      BY <1>1, <1>7 DEF FinishSnap
    <2>2. area[a].pan = "none"
      BY <1>2, <1>7 DEF FinishSnap
    <2>3. area'[a].settling = "no" /\ area'[a].pan = "none"
      BY <1>1, <2>1, <2>2, SnapsToPanel
    <2>4. ASSUME NEW p \in Pointer, active'[p] # NoSurface PROVE active'[p].area # a
      BY <2>1, <2>4 DEF Forget, Held
    <2> QED
      BY <2>3, <2>4 DEF Arrived, Deaf
  <1>8. ASSUME Rotate, area'[a] # area[a]
        PROVE  TurnedAway(a)
    <2>1. a \in Hidden' /\ area'[a] = [area[a] EXCEPT !.transition = FALSE]
      BY <1>8 DEF Rotate
    <2>2. area[a].transition
      BY <1>1, <1>8, <2>1 DEF AreaState
    <2>3. a \notin Hidden
      BY <1>8, <2>1 DEF Rotate, Hidden
    <2> QED
      BY <2>1, <2>2, <2>3 DEF TurnedAway
  <1>9. ASSUME NEW b \in Area, Swipe(b) \/ FinishSnap(b), b # a
        PROVE  area'[a] = area[a]
    BY <1>1, <1>9 DEF Swipe, StartPan, MovePan, EndPan, FinishSnap
  <1>10. ASSUME \/ \E p \in Pointer : Touch(p)
                \/ Deliver \/ Lose \/ EndSession \/ Open
         PROVE  area'[a] = area[a]
    BY <1>10 DEF Touch, PointerDown, PointerMove, PointerUp, Deliver, Lose, EndSession, Open
  <1> QED
    BY <1>3, <1>4, <1>5, <1>6, <1>7, <1>8, <1>9, <1>10 DEF PanelsNext, Swipe

\* Panels on their way arrive, but for a rotation that hides them, and an area
\* goes deaf only by that or by a swipe that ends in place.
THEOREM PointersComeBackCorrect == PanelsSpec => PointersComeBack
  <1> DEFINE Back(a) ==
          /\ area[a].transition /\ area'[a] # area[a] => Arrived(a) \/ TurnedAway(a)
          /\ ~Deaf(a) /\ Deaf(a)' => EndsInPlace(a) \/ TurnedAway(a)
  <1>1. PanelsInv /\ [PanelsNext]_panelsVars => [\A a \in Area : Back(a)]_panelsVars
    BY TransitionEnds
  <1> QED
    BY <1>1, PanelsSound, PTL DEF PanelsSpec, PointersComeBack
=============================================================================
