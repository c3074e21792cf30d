# Verification of inara (desktop_remote_mobile_companion)

inara turns a phone or a tablet into a trackpad and a pen tablet for a desktop.
A browser opens a WebSocket to the desktop, negotiates a WebRTC peer connection
over it, sends pointer events on a data channel and may receive the screen as a
video track. The desktop feeds the events into two virtual input
devices (uinput on Linux).

This directory holds TLA+ models of that program, the TLC configurations that
check them, and TLAPS proofs of the theorems about them. Every definition is
taken from the Go source; `PROJECT.json` maps each one to its lines.

    tlc -config Tablet_protocol.cfg MCTablet     # a run
    tlapm TabletProofs.tla                       # a proof module

## 1. The system

| Component | State | Operations | Modelled in |
|---|---|---|---|
| Pen tablet, Linux (`tablet/tablet_linux.go`) | cached contact (`inRange`, `tipDown`, `pressure`), keep-alive timer and toggle, under `d.mu`; the kernel's view of the device | `ProcessEvent`, `Reset`, `SetActive`, timer callback, `Close` | `Tablet`, shared by sessions in `Sharing` |
| Trackpad, Linux (`trackpad/trackpad_linux.go`) with the touchpad library | pointer id to slot table, slots, `touching`, `failed`; protocol-B state of the kernel | `ProcessEvent`, `Reset`, `Close` | `Trackpad` |
| Virtual device (`third_party/virtual-device/virtual_device.go`) | `isRegistered` (atomic), event channel, puller goroutine, device file | `Register`, `Unregister`, `Send` | `VirtualDevice` |
| Signaling session (`signaling/session.go`) | WebSocket, peer connection, `videoStreamer`; no lock | `Run` and its deferred clean-up, `Close`, pion callbacks, data messages | `Session` |
| Video pipeline (`video/video.go`, `video_linux.go`) | `started`, `stopped` under `s.mu`, channels `stop` and `done`, FFmpeg contexts, the global capture size | constructor, `Start`, `Stop`, capture goroutine | `Streamer`, `StreamerContract` |
| Server (`server/server.go`) | session registry and `WaitGroup`, `shuttingDown`, listener, devices | `/signal` handler, `addSession`, `removeSession`, `Run`, `Shutdown` | `Server` |
| Command line and GUI (`cmd/inara`, `cmd/inara_gui`) | signals received; `srv`, the button, the callers of `saveAndExit` | signal handler, exit of `main`; Stop, window close, permission fix | `Program` |
| Encoder and filter graph (`video/encoder.go`, `filter_graph_device.go`), x11grab and ddagrab (`video_x11grab_linux.go`, `video_windows.go`) | FFmpeg contexts built lazily, the chosen encoder | `resolveEncoder`, constructors, capture loop, `initFilterGraph`, `initEncoder`, `free` | `Encoder` |
| Pen tablet, Windows (`tablet/tablet_windows.go`) | `inRange`, `tipDown`, held barrel buttons; the pointer in Windows | `ProcessEvent`, `Reset`, `SetActive`, `Close`, injections that may fail | `TabletWindows` |
| Certificates (`server/certs.go`) | a CA pair and a leaf pair in four files, and the pairs in memory | `loadOrGenerateCA`, `loadOrGenerateLeaf`, reuse checks, file writes | `Certs` |
| Web client, connection (`server/static/app.js`) | `conn`: id, WebSocket, peer connection, retry timer and delay; the passcode prompt; `VERSION_RELOAD_KEY` | `startWhenAuthed`, `connect`, `scheduleReconnect`, `closeOldConnections`, callbacks, submit | `Client` |
| Web client, panels (`app.js`) | two areas with their panel, swipe and transition; `activePointers`; the messages under way | pointer events, `startPan`, `movePan`, `endPan`, `finishSnap`, `notifyTabletActive` | `Panels` |
| Coordinate mapping, configuration file, auth gate, platform checks | see PROJECT.json | | left out |

How they meet: the `/signal` handler of the server runs one `Session` per
WebSocket and all sessions share the two devices. A session calls
`ProcessEvent`, `SetActive` and `Reset` of the devices from a pion goroutine and
from the goroutine of `Run`; it owns a video pipeline and calls `Start` from a
pion callback and `Stop` from `Run`. The drivers call `Send` of their virtual
device, whose puller goroutine writes to the kernel. `Shutdown` closes the
sessions, waits for them with a deadline, stops the HTTP server and closes the
devices; `main` leaves when `Run` of the server returns, the GUI when its window
closed and `Shutdown` is through.

What is hard here: a stroke may lack its end (the notes in docs/TODO.md describe
a data channel without retransmission, the client opens an ordered, reliable one,
and a disconnect cuts a stroke on either); a timer callback may wait for the mutex while the handler that stops the
timer runs; `Send`, `Unregister` and the puller share a channel without a lock;
the fields of a session are shared by three goroutines without a lock; the
clean-up of a session runs in the reverse order of its `defer`s while pion still
delivers; a page reload overlaps the old pipeline's `Stop` with the new one's
constructor; `Shutdown` races with connections being upgraded; the page's retry,
its awaits and the events of a dying connection overlap; a start may end between
two of the files it writes, and two programs may start at once; the sessions
share two devices that nobody owns; each FFmpeg call and each injection on
Windows may fail and leave the rest to work with what there is; the panels of the
page move under the fingers on them. The list with
lines is `hazards` in `PROJECT.json`.

What makes each component correct:

- tablet: the frames form a legal pen protocol, every stroke is visible, the
  hover does not go silent between its moves, late timer callbacks are harmless;
- trackpad: slots, kernel contacts and finger counts agree after any sequence of
  events, the refused ones included;
- virtual device: accepted events arrive in order and before the device is
  destroyed, `Unregister` returns;
- session: nothing it started outlives it, and it ends when its WebSocket does;
- pipeline and encoder: one capture loop, no call on what is missing, unopened or
  freed, nothing kept after a failure or a `Stop`, `Stop` returns, contract kept;
- tablet on Windows: the driver knows what Windows holds, whatever failed;
- shared devices: what stays pressed for a client that is gone is accounted for;
- panels: no contact survives its finger, the pen leaves with its panel, and an
  area that moves comes to rest, except in two named ways;
- server: no session is missed by `Shutdown`, devices outlive sessions,
  `Shutdown` ends;
- programs: no capture is cut by the exit, and the exit comes;
- client: one connection and one retry at most, and a way back;
- certificates: key, leaf and CA belong together whatever the files hold, and an
  installed CA is kept.

## 2. The modules

**Tablet** - `pen` is the `device` struct with the kernel's view (`kernel`), the
frames of the last handler (`frames`) and the timers running in the Go runtime
(`armed`); `fired` counts callback goroutines waiting for `d.mu`. A handler holds
`d.mu` from start to end, so it is one action, composed of operators named after
the Go methods (`BeginStroke`, `DropTip`, `ArmKeepAlive`, ...), each from record
to record. An expired timer is two steps, `FireTimer` (the runtime starts the
goroutine) and `Callback` (it gets the mutex): between them any handler may run,
also one that stops the timer. A pressure is an integer in units of 1/4096; the
clamp, the tip floor and the axes are modelled, the x/y mapping is not. The
model does not stop at what the shipped client sends: barrel buttons and
`pointercancel` are in.

**HoverTicks** - EXTENDS `Tablet` with a history of the keep-alive ticks after
which the compositor saw nothing new (`unseen`): evdev drops a frame that changes
nothing.

**Trackpad** - `slotOf` and `slots` are `d.active` and `d.slots`;
`currentSlots`, `fingerCount` and `toolButtons` are the touchpad library's and
the kernel's view. An event carries up to two touches, handled one after the
other, so that it may run out of slots half-way. `failed` records that the last
event was refused.

**VirtualDevice** - no lock protects `vd.queue` or `vd.fd`, so every read and
every write that another goroutine may meet is a step: `Send` is
`CheckRegistered`, `EvaluateQueue`, `Enqueue`; `Unregister` is seven steps from
`ClearRegistered` to `CloseDevice`; the puller is `Receive`, `Write`, `PullEnds`.
Each registration has its own channel and puller (`Generation`). A panic ends
the Go process; here the other goroutines go on, which only adds behaviours.

**Streamer** and **StreamerContract** - a section under `s.mu` is one step, what
follows the unlock another one. The contract is the state machine the
`video.Streamer` interface comment promises (absent, ready, capturing,
released); `Streamer` implements it under the refinement mapping `Phase`.

**Encoder** - EXTENDS `Streamer` with what its steps hide: the constructor, and
the body of the capture loop, one step per FFmpeg call, each free to fail. The
three backends have the same fields, the same constructor order and the same loop
(`video_linux.go`, `video_x11grab_linux.go`, `video_windows.go`; `map` names one
of the three for each step), so `source` is a variable and only the filter chain
and the device of the encoder depend on it. `held` are the objects a pipeline
has, `opened` those that were opened or configured: `initFilterGraph` and
`initEncoder` return at once when the object exists, opened or not. The order of
the calls after the first in either is one failing step, because nothing else
can tell them apart.

**TabletWindows** - the handlers as operators on a record that carries the pen,
the pointer Windows holds, the frames delivered and which of the injections fail;
a handler that meets a failure returns there. The module has no constants and no
bounds: TLC's run is complete.

**Sharing** - EXTENDS `Tablet`: any number of clients, each step a handler of
`Tablet`, and `Close`, which takes no lock and does not stop the timer. A session
leaves in two steps, as in session.go:124-129: `ResetDevices`, then, after the
video was stopped and the peer connection closed, `End`; in between its data
channel delivers like before, and the other sessions work on. With
`TrackpadMissing` the loop of `resetProcessors` may meet the nil first, and then
the pen is not reset. `ghost` is history: since the last reset, a session past its
own reset has touched the pen, or one left it in proximity without a reset.

**Panels** - the two areas of the page, each showing one of three panels; the
pointers on them; the ordered channel, lost and opened again; and the devices in
short (contacts of the trackpad, range and tip of the pen) as the messages drive
them. `transition` says that the browser will fire `transitionend`. The channel
counts as open while a session reads it: what the page sends to a session that is
gone is lost whether it knows or not; what a session still handles after its own
reset is the subject of `Sharing` and `Session`. An old session may reset the
devices after the next has begun. The id of the panning pointer is left out: any
pointer may end a swipe. `Rotate` turns the viewport: landscape does not display
the areas in `Lower`, which drops a transition that runs there, and the browser
sends no `transitionend` for it. A drag that is pulled beyond the neighbour
(`"over"`) shows the third panel. The splitter and the heights only move pixels.

**Session** - one connection; `at` walks through `Run` and its deferred calls
in their real order (reset the devices, stop the video, close the peer
connection, close the WebSocket). Pion's callbacks are separate actions;
`onConnectionStateChange` is two, because it reads `s.videoStreamer` twice. A
pipeline is used through `StreamerContract`. `registered` is the set of devices
whose registration succeeded; the others are nil, and `Reset` on one panics, upon
which the remaining deferred calls still run. Candidates, malformed messages and
refused offers change nothing here and are left out. The data channel delivers
until the peer connection is closed, whatever `Run` is doing, and a handler that
is under way then ends later; `late` is the history of the devices it pressed
after the reset loop had passed them.

**Server** - the `/signal` goroutines against one `Shutdown` (it is under a
`sync.Once`), and a listener that fails. A session is `running`, then `tearing`
down; it may hang there, which is why `Shutdown` has a deadline.

**Program** - EXTENDS `Server` with who calls `Shutdown` and when the process
ends. `cmd/inara`: the first signal shuts down, the second exits at once, `main`
leaves when `Run` returns. `cmd/inara_gui`: the button (its goroutine keeps its
own reference), the closure that `Run` leaves to the main thread, and
`saveAndExit`, called by the window on the main thread and by the goroutine of
the permission fix off it; it reads `srv` twice, so it is two steps. One server
is followed: a later Start makes another that shares nothing with it.

**Client** - `conn` is the object of that name, `link` what the browser holds for
each connection: its WebSocket, its peer connection with the data channel, and
the events not delivered yet, which come in any order. `start` counts the calls
of `startWhenAuthed` at each `await`: nothing stops a second one while the first
awaits. The answer to `/auth` is taken when it is given and used in a later step;
the answer to `/version` is read when it is used. The server stops at any time
and comes back with or without the cookies (a network failure or a new run) and
in a new version or not. A reload that meets a stopped server ends on the
browser's error page (`ReloadFails`), where no script runs and only the user can
go on (`UserReloads`). The server may refuse an offer without an answer
(`OfferRefused`); failing `createOffer` and `setRemoteDescription` calls of the
page, which it only logs, would have the same effect and are left out.

**Certs** - one action per file read and two per file write (`os.WriteFile`
truncates first). A CA and a leaf are named by their keys; a leaf keeps its
signer, its addresses and whether it has aged. `Exit` may come at any step, for a
crash or for an error that `New` returns. `overlapped`, `latest`, `installed` and
`stale` (the host or the leaf changed after this start looked) are history
variables for the properties.

**MCTablet**, **MCSession**, **MCEncoder**, **MCPanels**, **MCCerts** give TLC the
sets and symmetries a configuration cannot write. The theorems are in
**TabletProofs** (of `Tablet` and `Sharing`), **DriverProofs** (of `Trackpad` and
`TabletWindows`), **EncoderProofs** (of `Streamer` and `Encoder`), **ServerProofs** (of
`Server` and `Program`), **VirtualDeviceProofs**, **SessionProofs**, **PageProofs** (of
`Client` and `Panels`, the page) and **CertsProofs**. Where a module of theorems is
about two specifications, the names of the second say whose they are (`PanelsSpec`,
`WinSpec`).

Definitions called `Bug...` are variants of the definition that follows them, a
plausible mistake each; no specification uses them. `PROJECT.json` pairs every
checked property with a variant that breaks it.

## 3. The runs

| Run | Shows | Bounds and why they suffice |
|---|---|---|
| `Tablet_protocol` | nine properties of the pen, of its ticks and of the clients that share it, below | three clients, so one may draw, one be past its reset but not gone, and one come; a trackpad that is missing, so each reset may or may not reach the pen; two timers: a timer that nobody refers to can exist beside the current one; two waiting callbacks, so one may be a late one of a stopped timer while another is current; pressures around every threshold |
| `TabletWindows_pen` | legal frames, fresh strokes, a Reset that releases | none: the module is finite |
| `Trackpad_slots` | slot table, contacts and finger summary agree | five fingers on four slots, so the table overflows by one, also with one touch of an event already recorded; two tool buttons, so counts with and without a button occur |
| `VirtualDevice_queue` | order, flush before the device is destroyed, `Unregister` returns | two senders, one-slot queue (always full or empty), two registrations, so the second overlaps the end of the first |
| `VirtualDevice_send_race` | violation: `Send` on a closed channel panics | as above |
| `Streamer_lifecycle` | one loop, no call on what is not ready, nothing held, `Stop` returns, contract | two pipelines, as in a page reload; every source with its automatic choice and with nvenc, on a machine that has all encoders of its platform or only libx264; all interleavings of `Start` and `Stop` callers. The theorems hold for every configuration |
| `Session_teardown` | no capture left, every contact left accounted for, `Run` returns, video starts | two offers (a renegotiation), two devices with any subset registered, two callbacks pending |
| `Session_late_data` | violation: data after the reset presses the device again | one offer |
| `Server_lifecycle` | nothing missed, order of `Shutdown`, no capture cut, `Shutdown` and the window end; both programs | two connections: one in the registry while the other is being upgraded; the theorems hold for any number |
| `Client_reconnect` | no leak, reloading ends, the page recovers while it is served | two ids, so an old connection still reports while the next one lives; two starts under way; two versions, one update |
| `Panels_swipe` | no ghost contact, the pen leaves with its panel, a moving area comes to rest except in two named ways | two areas that start where the page puts them (tablet on top, log below), the lower one hidden in landscape; two fingers on the surfaces beside those that swipe, so one may be on the panel that moves and one on the other area; the user waits while a message is under way (`MaxQueue = 1`), but a snap sends several at once |
| `Certs_restarts` | what is served fits together and fits the host; an installed CA is kept; files mirror what is served | two programs; four CA keys and three leaf keys, enough for four files and two memories except where all differ; one address that comes and goes, so leaves cover and miss it |

The properties of the tablet: the driver's contact is the kernel's
(`KernelMirrorsDriver`, with the types); a running timer is the one the driver refers to and only
a hovering pen has one (`NoOrphanTimer`); each frame is a legal step after the
one before, across frames of one handler (`PenProtocol`); each `pointerdown`
yields a fresh `BTN_TOUCH` press (`EveryStrokeVisible`); a late callback is
harmless (`LateTickHarmless`); a hover falls silent only by a barrel button that
brings the tool into proximity and only until the pen's next event
(`HoverKeptAlive`); of two ticks in a row the compositor sees at least one
(`NoTwoTicksUnseen`). And of the clients: a tip that is down is held by a client
whose session runs, except for what a session handles after its own reset and a
reset that panicked before it came to the pen, and then until the next reset of
any session (`NoGhostTip`); once the last session has reset its devices, the tool is
out of proximity and no timer runs, and only such a late message sends anything
(`QuietWithoutSessions`). When the ticks come is not claimed: each hover move
restarts the timer, so a client that moves faster than 15 ms gets none, and its
moves are what keeps the tool alive. Nor that `Close` needs no lock: a late message,
or a session that `Shutdown` has given up on, may still send while it runs
(`VirtualDevice_send_race` is what such a `Send` may meet).

A type invariant has no line of its own in a run: it is the first conjunct of an
invariant of its module (`KernelMirrorsDriver`, `ResetReleases`, `SlotBookkeeping`,
`FlushedBeforeDestroy`, `SingleLoop`, `CallsAreReady`, `NoCaptureAfterTeardown`,
`NoSessionMissed`, `NoCaptureAtExit`, `NothingLeaks`, `NoGhostContact`,
`ServedCoherent`).

The two violation runs show places where the code does other than a comment or a
changelog says; `findings` in `PROJECT.json` quotes them. Others met while
modelling have no run of their own, but a step or an exception of the models
each:

- the `Stop` of an old pipeline, after a page reload, zeroes the capture size the
  new one has published (`ZeroCapture` of `Streamer`), while video.go:17-18 says that zero means that
  capture is inactive;
- on Windows "auto" stands for mf, and fails where mf is not available, although
  video.go:48-49 says that it resolves to libx264 (`Automatic`);
- an encoder of Windows is not refused for a Linux source: its filter chain is
  empty, the graph is not parsed and the capture ends at its first frame
  (`FilterChain`);
- `resetProcessors` panics on a device that is not registered, so the order of
  the map iteration decides whether the other one is reset (the `resetLeft` in
  `ContactsAccounted`), although its comment calls the order immaterial; what a
  client presses while its session is on its way out stays pressed until the next
  reset (the `late` there, the `ghost` of `Sharing`);
- `onConnectionStateChange` calls `Start` on the nil that `stopVideo` may have
  left between its two reads (`crashed` of `Session`);
- a start of the page that is under way is not stopped by another one's success:
  it replaces the new connection, or prompts over it (`StartConnects`,
  `StartPrompts` look at nothing but their answer);
- a reload that meets a stopped server leaves the user on the browser's error
  page, where nothing reconnects (`ReloadFails`, and the premise of `Recovers`);
- an offer that the server fails to handle gets no answer, and the page waits for
  it as long as its WebSocket is open (`OfferRefused`);
- a `/version` request that fails clears the guard against a reload loop, so a
  page pinned by a cache reloads once more after each outage (the premise of
  `ReloadsEnd`);
- two programs that start at once may mix their CA pairs; each serves its own,
  and the next start generates a third (the `~overlapped` in `InstalledOnce`);
- a barrel button that enters proximity does not arm the keep-alive (the
  `BarrelEntry` exception in `HoverKeptAlive`);
- after an odd number of ticks a hover frame leaves `kaToggle` out of step, so
  one tick repeats the kernel's distance and evdev drops it, although
  tablet_linux.go:442-443 speaks of a real event on each tick; never two in a row
  (`NoTwoTicksUnseen`);
- `Reset` does not release a held barrel button;
- on Windows, a `Reset` whose UP is lost leaves the driver with a tip that is down
  and out of range (`Stuck`), although its comment wants the state to end clean
  regardless; until an event that Windows accepts has lifted it, no stroke is drawn;
- `Run` returns as soon as `Shutdown` has closed the listener, so `main`, and the
  window, whose `srv` is nil by then, may leave before the devices are closed,
  which the comment at server.go:504-505 makes the end of every shutdown
  (`MainReturns`, `ResetUI`);
- the permission fix of the GUI calls `saveAndExit` off the main thread and reads
  `srv` twice, against the comment at main.go:306-308; `Run` may return in
  between, and `Shutdown` is called on nil (`Panic`);
- after a listener that fails, the GUI shows a stopped server, but its sessions
  and its registered devices stay until the process ends (`ListenerFails`);
- each `connect` sets the retry delay back to a second before it has succeeded,
  so the back-off docs/TODO.md:14 asks for never grows (`Connect` of `Client`);
- a swipe that ends where the panels already are, such as a tap on an edge zone,
  starts no transition and leaves its area deaf, without pointers or swipes until
  the page is reloaded (`EndsInPlace`);
- turning the tablet to landscape while the lower area settles drops its
  transition, with the same result (`TurnedAway`); its index stays where it was, so
  the server is not told of the panel that the swipe was to show or to hide;
- `pull` sends the key repeat settings before `isRegistered` is set, so `Send`
  drops them (`SendRepeat`);
- a pipeline added by a second offer on a connected peer connection is not
  started (the `offers = 1` in `VideoStarts`).

`CHECK_DEADLOCK FALSE` stands where the system really ends: a session that has
returned, pipelines that are released, a process that has exited.

### Fairness

- VirtualDevice: weak fairness of the steps of `Unregister`, of the puller and of
  a `Send` that has begun. Nobody has to call `Send`, `Register` or `Unregister`.
- Encoder: weak fairness of the capture goroutine and of the `Stop` call under way,
  and strong fairness of `NoFrame` and `NoFilteredFrame`: what was fed to the
  decoder or to the graph comes out in finitely many pieces, and FFmpeg calls
  return. Nobody has to call the constructor, `Start` or `Stop`.
- Session: weak fairness of the steps of `Run` between two reads, of callbacks
  that pion has started and of the handling of a message that has arrived. The peer
  has to do nothing.
- Client: weak fairness of timers, fetches, the submit handler and the delivery of
  each connection's events, as a browser gives them, and of a started reload, which
  may end on the error page. An offer is answered unless it is refused or its
  connection lost. Neither the user nor the server has to do anything, not even to
  reload the error page: `Recovers` is about a page that is from some time on served
  (`Served`: the server is up and accepts its cookie, the page is not the error
  page, no offer is waiting for an answer that was refused) and whose attempts no
  longer fail on the way.
- Program: weak fairness of `Shutdown`'s own steps and of its deadline, of the
  goroutine that Stop starts and of the callers of `saveAndExit`. A session need
  not end, and nobody has to ask for the end.
- Tablet, Sharing, Panels, TabletWindows, Trackpad and Certs: none; their properties are
  invariants and action properties.

## 4. The proofs

All theorems are about every value of the constants under the named assumptions
of the modules:

| Module | Assumes |
|---|---|
| `Tablet` | buttons are known names, pressures are integers, there is a timer, at least one callback may wait |
| `Streamer`, `Session` | `NoPipeline`, `NoStream`, `NoMessage` are none; bounds are numbers |
| `Encoder` | configurations have their type |
| `Server` | there are finitely many connections |
| `Trackpad` | there is a slot, `NoSlot` is none, and there are finitely many fingers |
| `VirtualDevice` | bounds are numbers, the queue has a place |
| `Client` | bounds are numbers; a connection id is never null |
| `Sharing` | `TrackpadMissing` is true or false |
| `Panels` | the hidden areas are areas, there are finitely many pointers, `NoSurface` is no surface, each area starts on one of the three panels, the bound is a number |
| `Certs` | `Unreadable` is no key and no leaf |

**TabletProofs**, the driver. `MirrorCorrect` (with the types), `TimerCorrect`,
`HoverCorrect`, `LateTickCorrect`, `ProtocolCorrect`, `StrokeCorrect`. The
inductive invariant is `IInv == Sound(pen) /\ fired \in 0..MaxFired`, where
`Sound(d)` says that a device record has its type, that its contact is the
kernel's (`Mirrors`) and that its timer is owned (`TimerOwned`). None of the
three is inductive alone: `dropTip` and `liftTip` return early when `tipDown` says
so, which is right only if the kernel agrees; `armKeepAlive` creates a timer only
if none is referred to, which is unique only if an unreferenced timer never runs;
and arithmetic on the pressure needs its type. The argument goes by steps of the
code, not by actions: one lemma per Go method says that it keeps `Sound` and what
it does to the contact and to the frames, for every sound record; a handler is a
composition of them, so its lemma is a short one; `NextSound` collects them.

`HoverCorrect` splits on the kind of step: after an event of the pen a hover has
its timer armed (`PenEventEndsSilence`), and the other steps keep what they find
(`OtherStepsKeepTick`), with the exception the property names. `ProtocolCorrect`
and `StrokeCorrect` use a second set of lemmas that follow the frames a handler
emits, one or two, from the kernel state it found.

**TabletProofs**, the ticks. `TicksSeenCorrect`, of `HoverTicks`: a tick that the
compositor does not see repeats the kernel's distance. `TickInv` adds that the toggle
is on whenever the kernel has `HoverDist + 1`, so an unseen tick can only have turned
it off; the next one sends `HoverDist + 1`, which is news.

**TabletProofs**, the clients. `SharingImplementsTablet`: a step of any session,
and `Close`, is a step of `Tablet` or none, so all of the above holds however many
clients share the pen. `GhostTipCorrect` and `QuietCorrect` need two more facts in
the invariant: without `ghost`, a tip that is down has a holder whose session runs,
which each handler must restore for a client that shares the tip with another; and
without `ghost` and without a running session the pen is out of proximity, from
which `Sound` gives that no timer runs and that a late callback does nothing. The
run checks the ticks and the clients in one specification, `SharedTicksSpec` of
`MCTablet`, whose steps are those of `SharingSpec` with `Count` of `HoverTicks`
beside them.

**DriverProofs**, the trackpad. `SlotsAgree`, `KernelAgrees` and `ContactsKeepFingers`. The
two invariants the run checks are inductive together but for `ContactsAreHeld`: a
contact of the kernel belongs to a finger also after an event that was refused
half-way, when the kernel does not show every finger. Without it the next event
might find a contact in the slot it takes for a new finger. The count of contacts
and the tool button are cardinalities of slot sets (`SlotCount`, `SlotSet`);
that the loop over the slots finds a free one is `FirstSlot`, by the
well-foundedness of `<`. One lemma each for the parts of a handler: recording a
touch (`TouchSound`), the summary (`MultiTouchCounts`), then the handlers
themselves (`PressKeeps`, `LiftKeeps`, `ResetLifts`).

**DriverProofs**, the pen on Windows. `FramesLegalCorrect`, `StrokeStartsCorrect` and
`ResetReleasesCorrect`. A handler composes steps on a record as on Linux, but an
injection in it is refused or goes through (`Outcome`), and what follows depends on
it. `WinSound` says of a handler under way that the driver and Windows agree
(`InStep`) and that the frames so far are legal and end where Windows is
(`InOrder`); a step keeps it when its frame says what the driver remembers
(`WinStepSound`). `StrokeStarts` and `ResetReleases` hold also where the two have
lost touch, so they follow the handlers from any state (`WinStroke`,
`WinResetPen`). The run of this module is complete; the proof says why it passes.

**VirtualDeviceProofs**. `FlushedCorrect` and `InOrderCorrect`, for any number of
senders, any queue length and any number of registrations. Neither says where an
accepted event is, so neither is inductive. `IInv` does: `Pipe` is the hand of the
puller followed by the current channel, and `InOrder(Pipe, handled, sent)` that it
holds of every sender the events between the two counters, each once and in
order. `AppendInOrder` (a `Send`) and `HeadInOrder` (a write) move the two ends.
`Generations` says why there is no other place: the generations come one after
another, and all but the current one are closed, empty and without a puller,
because `Unregister` waits for `pullDone` before it forgets the channel
(`OwnerKnows`). A `Send` that has evaluated an old channel finds it closed.

**SessionProofs**. `NoCaptureCorrect`, `ContactsAccountedCorrect` and
`ResetCompletes`. A callback that has passed its nil check may call `Start` at any
later time, so `VideoOwned` adds that `Stop` came before the field was cleared: a
pipeline that is forgotten is released, and the contract refuses its `Start`
(`ContractCorrect` shows that the pipelines keep that contract).
`ContactsAccountedCorrect` has no hypothesis about the data channel, which delivers
until the peer connection is closed and, in a handler under way, after. Its
invariant follows the loop: from its start on, a device that holds a contact has
either not been visited, or was pressed by a message handled after its visit
(`ContactsLeft`). That nothing at all is held, `ContactsReleased`, is what the
comment says and `Session_late_data` refutes. `ResetCompletes` says when the loop
visits every device: always, if both were registered.

`SessionUsesContract` closes the circle: a session moves its pipelines only by steps
of the contract, or builds one and stops it at once when `AddTrack` fails. It needs
that a pipeline the session holds was built (`OwnedIsBuilt`), or `stopVideo` would
release nothing. With `ContractCorrect` of `EncoderProofs` the contract is kept on
both sides.

**EncoderProofs**, the life of a pipeline. `SingleLoopCorrect` and the refinement
`ContractCorrect`. `SingleLoop` alone is not inductive: a second `Start` is refused
because `started` is set, so `Sound(p)` says that `started` counts the loop, at
whichever of its three stations it is, and that a `Stop` past its wait has no loop
to meet. The refinement then goes step by step: only the constructor, the launch
and the free move the phase.

**EncoderProofs**, the calls. `EncoderUsesStreamer` (`Encoder` behaves as
`Streamer`), `CallsCorrect` and `NothingHeldCorrect`. What a call needs was made
several calls before it, or in an earlier turn of the loop, so `EInv` states for
each point of the loop what is there by then (`Equipped`), and ties the points to
the goroutine (`Placed`), by which a pipeline in its loop is not freed. All steps
of the loop are of two shapes, one lemma each (`BodyKeeps`, `LeaveKeeps`).

**ServerProofs**. `NoSessionMissedCorrect`, `DevicesCorrect`, `ProgramUsesServer`
and `NoCaptureCorrect`. The invariant has the registry and the `WaitGroup` count
the handlers at their points (`Registry`, with cardinalities of finite sets),
everything that runs after `shuttingDown` was set collected or closed (`Walked`),
captures inside sessions (`Captures`), and the stations of `Shutdown` in their
order (`Order`): the devices are safe because of what has happened by then.
`NoCaptureCorrect` adds, for the programs, who has seen `Shutdown` finish.

**PageProofs**, the connection. `NothingLeaksCorrect`, for any number of connection ids and of
calls of `startWhenAuthed` under way. The callbacks of a connection store what they
create in `conn.pc` after an await; the one that is overwritten leaks unless it is
dead. So `OwnConnection` says that what `conn` refers to is of the current
connection, which `connect` restores by closing the old one first, and
`ConnSound` and `LinksSound` carry that through every callback, also of
connections that were replaced. `InFlight` bounds the calls under way, which the
awaits move from one point to the next.

**PageProofs**, the panels. `NoGhostContactCorrect`, `PenReleasedCorrect` and
`PointersComeBackCorrect`, for any number of areas and fingers and any backlog of
messages. The first two speak of moments when nothing is under way, which no step
preserves. `PanelsInv` says what holds in between: a contact without a finger on its
panel `ContactEnds`, that is, each message that would begin it has one behind it
that ends it, and if it is on already, such a message is under way or a session is
still to end; the same of the tip (`StrokeEnds`), unless a finger is on a tablet
panel, and of the proximity (`RangeEnds`), unless an area shows the tablet or moves.
`FollowedAppend` and `FollowedTail` move that through the queue when the page sends
and the server reads, `SendEnds` through a channel that may be closed. The rest is
about the order of calls in `finishSnap`: every pointer of the area is lifted
(`LiftsLift`; `OrderIsOnto` counts, because the map is walked in any order), the
index moves, and only then the server is told, which is right for the pen because a
finger on a tablet panel is on an area that shows it or moves (`PenInView`).
`PointersComeBack` goes by the steps that touch an area: a swipe cannot begin or go on
while its transition runs, because such an area is settling and one that settles is
not panned (`AreasSound`); the snap makes it arrive; what is left are the two named
ways to lose a transition, the end of a swipe in place and the rotation.

**CertsProofs**. `ServedCorrect`, `InstalledOnceCorrect` and `MirrorsDiskCorrect`,
for any number of programs, keys and addresses. The files may hold any mixture,
so the invariant of the first speaks of memory only: past which point of `New` a
program holds a CA, and past which point a leaf that fits the CA and the key and,
unless the host or the leaf has changed since it looked, names the host's addresses
and is not about to expire (`Coherent`). The other two are about the files, and about starts that did not
overlap. `Undisturbed` says that there is at most one start, that past each of its
points a file holds what the program has in memory (`OnDisk`), that the CA files
hold a CA once one was served, and that they and the leaf files are those of the
last start until the next one begins (`LastStart`). A CA is generated only while
none was served: that is where crashes between two writes are harmless.

Only model-checked:

- every liveness property (`UnregisterReturns`, `StopReturns`,
  `RunReturns`, `VideoStarts`, `ShutdownEnds`, `ReloadsEnd`, `Recovers`): liveness
  under fairness is out of the prover's reach. The other properties of the passing
  runs, invariants, action properties and the refinement, are all proved.

## 5. Not modelled, and why

- FFmpeg, pion, the browser and the kernel beyond what the code relies on:
  external. Rates, sizes and option values of the encoders have no control.
- Coordinates, tilt, and on Windows pressure: floating-point arithmetic without
  control, which the repository's tests enumerate.
- The authentication gate: one stateless comparison per request, whose answers
  drive `Client`. The configuration file: one writer, no protocol.
- Static files, `/config`, start-up checks, `sudo` re-execution: input and output
  without a state of their own.
- The widgets, the QR code and the log view of the GUI, and a second Start, whose
  server shares nothing with the first; the splitter of the page and the heights,
  which only move pixels.
- The trackpad on Windows, whose methods are empty, and the gamepad, keyboard,
  mouse and IMU factories of the vendored library, which nothing uses.

## 6. Plan

Done: the tablet with its proofs and the clients that share it (`Tablet`,
`Sharing`), the tablet on Windows, the trackpad, the pipelines with their
contract and their encoder, the session, the server and both programs, the
virtual device, the client with its panels, the certificates; a theorem for every
invariant and every action property that a passing run checks.

The proofs corrected two models: where the guards of a `CASE` overlapped (what a
message does to the devices in `Panels`, the legal frames of `TabletWindows`), TLC
takes the first that holds and the language any; they are conditions of their own
now.

Next: as operators on rationals, the letterbox of the coordinate mapping; the order
in which a session that ends and its successor reach the devices, now in `Sharing`
for the pen and in `Panels` in short, with the trackpad's slots.
