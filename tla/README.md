# A TLA+ development of webpubsub (webmq)

webmq is a publish/subscribe server for browsers, written in Java on Netty, with a
JavaScript client. A browser page holds a session page at the server, listens over long
polling, HTTP streaming or a WebSocket, and subscribes to topics (every page gets each
message) and queues (one page gets each message). On the server several threads work on
the same objects without locks: Netty workers for publishers and for listeners, and two
timers. In the browser one thread runs handlers in an order that the network, Flash and
timers decide. This directory models that concurrency, checks it with TLC, and proves with
TLAPS the safety of the server and of the browser's scripts.

## Inventory

Sources are relative to `src/src/org/webmq/` unless they start with `static/`.

| Component | State | Operations | What is hard | What makes it correct |
|---|---|---|---|---|
| `Queue`, `Destination` | `buffered` (ConcurrentLinkedQueue), `pages` (ConcurrentHashMap), `critical`, `previousSessionId` | `messageReceived`, `storeItem`, `notifyConsumeMessages`, `registerPage`, `unRegisterPage`, `isValid` | every access interleaves with every other; drains overtake each other; declined batches go back; test and offer are two steps | a message goes to at most one page, once; none is mislaid; the bound is exceeded by a known amount; a page that keeps polling gets what is stored |
| `Topic` | `pages` | `messageReceived` | the iterator shows pages that have left | each page's delivery is the page's own business |
| `session/WebPage` | `buffered`, `channel` (AtomicReference), `destinations` (CopyOnWriteArrayList), `lastAccessTime` | `messageReceived`, `consumeMessages`, `offerToBuffered`, `registerChannel`, `heartbeat`, `invalidate` | the channel read may be replaced before it is written; two requests drain together; a poll and a failing write race for the buffer | no message twice, none mislaid, each poll answered once, buffered messages go out |
| `listener/*MessageListener` | the attachment's `writable` flag, under its lock | `onMessage` | test, lock, test again, set | one body per long poll |
| `connector/ListenHandler` | the attachment of a channel | `handle`: writable, header, `registerChannel`, subscribe | publishers see the channel before the header is out; kept-alive channels | header before body |
| `DestinationHolderImpl` | maps domain -> queues, topics; `critical`; the eviction timer | `publish`, `subscibe`, `unSubscibe`, eviction in two examinations | a destination or a domain is evicted between lookup and registration | who publishes finds who listens; what nobody uses is forgotten |
| `connector/PageHandler`, `session/Session`, `session/SessionManagerImpl` | maps of sessions and pages, `critical`, the session timer | `getPage`, `createPage`, `heartbeat`, `isValid`, eviction in two examinations | a page is created in a session that is being removed; windows of one browser share a session | a page the browser uses is found, by its own window; an abandoned session goes |
| `connector/CommandHandler` | none | publish, subscribe, unsubscribe, close | commands overtake each other and the page's expiry | starts the right operation |
| `static/js-src/webmq.js` | sockets or the polling loop, listeners, page id, `closed` | `publish`, `subscibe*`, `unSubscibe*`, `close`, the handlers of sockets and scripts | reconnection and resubscription after a failure; a page that expired unnoticed; calls that wait for a socket | the server's page has what the client listens to; a call is sent once; closed is closed |
| `static/js-src/web_socket.js`, `static/flash-src/WebSocket.as` | a script object and a Flash object per socket, tasks, listeners | construction, `send`, `close`, events that come late | Flash's events come in another order, or are dropped; the movie loads late | `readyState` only moves on; messages in order, no more than once; the end is told once |
| `static/js-src/FABridge.js`, `static/flash-src/bridge/FABridge.as` | bridges, the count of calls, numbers of functions, proxies and types | calls both ways, callbacks, `addRef`, `release` | Flash must not be re-entered; movies load in any order and several times; objects are freed while script keeps them | a call reaches its function; callbacks run once; no object is freed too early |
| `static/js-src/streamhub-min.js` | iframes, request queue, monitors, server list, WebSocket queue | `connect`, `disconnect`, `subscribe`, `publish`, timers | answers and timers cross a reconnection; an attempt fails half way | the queue moves, all servers are tried within the limits, messages go out once and in order |
| WebSocket handshake, `static/flash-src/WebSocket.as` | frame buffer | key arithmetic, frame parser | — | not modelled |
| `connector/WebmqServer`, `CrossDomainHandler`, `StaticFileHandler`, `utils/*`, `main/*`, `command/*` | none of interest | dispatch by path, files, formatting, start-up | — | not modelled |
| `static/js-src/json2.js`, `cookie.js`, `swfobject.js`, `static/webmq.all.js` | — | text conversion, embedding; a concatenation of the other scripts | — | not modelled |

How they interact. A publisher's `CommandHandler` calls `DestinationHolderImpl.publish`,
which looks up the destination and calls its `messageReceived`; this calls
`WebPage.messageReceived` for the pages in the destination's map, on the publisher's
thread. A browser's request reaches `ListenHandler.handle`, which makes the channel
writable, writes the response header and calls `WebPage.registerChannel`; this calls back
into each destination (`onRegisterChannel`, where a queue drains itself into the page) and
then drains the page's own buffer. The session timer calls `WebPage.heartbeat`, which
writes to the channel or invalidates the page. A publisher or a drain that meets an expired
page invalidates it on its own thread, in the middle of its loop. In the browser, `webmq.js`
uses the browser's WebSocket or, through `web_socket.js` and `FABridge.js`, Flash's; without
either it makes `/ls` and `/s` requests. `streamhub-min.js` is another client, of another
server, that the pages may load; it uses none of the rest.

`PROJECT.json` lists the hazards at their lines, with the properties that watch them.

## Modules of the server

### `PointToPoint.tla`: what a queue promises

The abstract specification: each message has one status; it is published once, and then
delivered, refused (the publisher is told that the queue is full) or lost; no end is ever
undone or repeated.

### `Queue.tla`: the queue, at every access to a shared collection

One queue destination, the pages that listen to it and the threads that work on it.

* `buffered`, `pages` are the fields of the same names. `links[p]` counts the entries of
  the queue in page p's `destinations`: a list, so that two racing subscriptions and an
  unsubscription can leave an entry too many or too few. `channel[p]` is `writable`,
  `answered` (a long poll that has had its response) or `closed`; `idle[p]` says that the
  last access is longer ago than `WEB_PAGE_MAX_IDLE_TIME`; `live[p]` that the session knows
  the page.
* Each thread has its operation (`op`), its next step (`pc`) and its local variables: the
  message, the page, what the iterator still has to show (`todo`), the array of a drain
  (`room`, `batch`), the calls that remain (`rounds`, `entries`).
* *publish*: `CheckPages`, then one step per page (`PageTakes`, `PageDeclines`,
  `PageExpired`), then `FindRoom` or `Refuse`, then `Offer`. The iterator of a
  ConcurrentHashMap is weakly consistent: it may show an entry removed meanwhile
  (`SkipRemoved` is a choice) and may or may not show one added (`Put`).
* *drain* (`notifyConsumeMessages`): `Measure` reads the size, `PollItem` fills one
  element, possibly with null, `BatchTaken`, `BatchDeclined` or `BatchExpired` hands the
  array over, `Reoffer` puts one element back; `ReofferNull` is the exception of
  `offer(null)`, which unwinds to the handler.
* *poll*: `Connect`, then one drain per link. *subscribe*: a drain, `Put`, `Link`: the
  code drains before it puts. *unsubscribe*: `Unlink`, `Remove`. *invalidate*:
  `CloseChannel`, `LeaveSession`, `Unlink`/`Remove` per link, `ClearLinks`, and back to
  whoever called it.

Abstractions. `WebPage.messageReceived` with `buffered = false` is one step, at the moment
its listener claims the channel or is refused; `WebPage.tla` takes it apart.
`ConcurrentLinkedQueue.size`, which is not atomic in Java, is one step; `isEmpty` and
`size` that follow each other in a drain are one step. `previousSessionId` is left out: it
holds a session id and is looked up in a map keyed by page id, which is the session id, a
`|` and a number (`PageHandler.createPage`), so the lookup never finds a page.

### `WebPage.tla`: one page, at every access to its channel and buffer

* `buffered`, `channel` are the fields; `connected`, `writable`, `header` describe each
  connection; `bodies` counts the commands written since a connection's last request.
* *messageReceived*: `GetChannel`; `Valid` or `Expired`, which reads the reference again;
  `Online` or `Offline`; the listener's first look (`ProbeFails`, `ProbeSucceeds`,
  `NothingToWrite` for an array of nulls); the test-and-set under the lock (`ClaimFails`,
  `Write`); then for a failed write `Unbuffered`, or `FindRoom`/`NoRoom` and one
  `OfferItem` per element, `OfferNull` being the exception.
* *listen*: `Request` (the channel is made writable), `WriteHeader`, `RegisterChannel`
  (reads the old channel), `Swap` (compareAndSet, result ignored), `Measure`, `PollItem`,
  and messageReceived again with the array.
* *heartbeat*: `Heartbeat`, `Pulse` or `NoPulse`. *invalidate*: `CloseChannel`, `Leave`,
  one `ClearItem` per poll of `clear`.
* A publisher comes from a topic (`buffered = true`) or from a queue (`false`).
* `LongPolling` chooses the listener: TRUE for one response per request; FALSE for a
  stream or a WebSocket, whose listeners only look at `isConnected`.

History variables record what became of each message: written (`copies`), handed back to
its queue (`returned`), thrown away because the page was offline (`missed`), because its
buffer was full or was cleared (`dropped`), or by the exception (`lost`).

### `Registry.tla`: destinations and domains, found, registered with, forgotten

`DestinationHolderImpl`, `Destination` and the part of `WebPage` that keeps the page's
destinations. One domain and one name in it stand for all: different names share nothing
but the timer. An object that was removed and made again is another object, with a number
of its own; `entry[h]` is the destination of the name in holder `h`, `home[d]` the holder
`d` was put into.

* Lookup: `GetDomain` or `MakeDomain` (get, then putIfAbsent), `TouchDomain` (`critical =
  false`), `GetDest` or `MakeDest`. The holder and the destination are in the thread's hand
  from then on, whatever the timer does.
* `registerPage` is `Reset`, `Put` or `AlreadyPut`, `Link`; `unRegisterPage` is `Unlink`,
  `RemovePage`; `WebPage.invalidate` is `Leave`, then both for each destination
  (`NextDest`), then `Invalidated`, which clears the list.
* The timer: `Visit` and `TestEmpty` are `isValid`, which reads `critical` and `pages`
  twice each; then `Evict` or `Mark`, and the same for the holder.

`late`, `lateHolders` and `overlapped` are history: what was evicted while a thread had it
in hand, and which pages left in the middle of a registration of theirs.

### `Sessions.tla`: sessions and pages, made and forgotten

`PageHandler.getPage`, `createSession`, `createPage`, `Session`, `SessionManagerImpl`, and
`isValid` and `invalidate` of `WebPage`.

* The windows of a browser share the session cookie; each makes one request at a time:
  `GetSession`, then `FindPage`, or `NewPage`, `ResetCritical` and `PutPage`, then
  `RegisterChannel`, by which the window's channel is up (`online`) until it `Disconnects`.
* A page whose channel is down may be idle for `WEB_PAGE_MAX_IDLE_TIME` (`Expire`), whether
  its window is still there or not: the page is then in `expired`, not `isValid`, until its
  window registers again.
* The timer (`pass`) sends heartbeats in every pass and examines sessions in every
  `Multiple`-th; `marked` is the field `critical` of the sessions. A heartbeat goes over the
  pages of the session (`Beat`): `VisitPage` tests `isValid`, and `InvalidatePage` is the
  invalidation that follows. A publisher does the same (`PublisherLooks`, then
  `PublisherInvalidates`). Between the two steps the window may come back and
  `RegisterChannel` on a page that is about to go.
* `excused` is history: the windows whose page a thread found not valid, or whose session
  was removed in the middle of the request that made the page.

Its names differ from those of `Registry`, as one module extends both.

### `PageServer.tla`: the same, as one window meets it

Requests as single steps: `Listen`, `Command`, `Expire`, `ForgetSession`, `Restart`
(nothing is persisted, so a restarted server knows nobody). The clients below use it.

## Modules of the browser

* `Webmq.tla`: the state both transports share: listeners, page id, cached session id,
  `closed`. `queueListeners` and `topicListeners` are one set.
* `SocketClient.tla`: `createWsConnection`, the public calls, and the server's end of each
  socket. One action per handler: a call, an event, a tick of an interval. `socks[s]` holds
  the client's `readyState`, what the server has done with the handshake, and the frames
  under way in both directions. A connection breaks with any number of its frames not read;
  pages and sessions expire and the server restarts at any time (`MaxFaults`). `Flash`
  chooses between the browser's socket (`Breaks`, then `CloseEvent`) and that of
  `web_socket.js` (`FlashCloses`, `FlashFails`).
* `PollClient.tla`: `createUnWsConnection`: one `/ls` request at a time, a script or an
  iframe, each call a `/s` request of its own, which may be lost or overtaken.
  `Browser` chooses how the end of an iframe is seen. What it has under the same name as
  `SocketClient` is called `Poll...` (`PollInit`, `PollNext`, `PollClose`), so that one
  module can extend both.
* `SocketLife.tla`, `FlashSocket.tla`: what a page may rely on of a WebSocket, and
  `web_socket.js` with the part of `WebSocket.as` it talks to: `__initialize`, `__addTask`,
  `__handleMessages`, `__handleEvents`, `send`, `close`. `events` is a set: Flash's events
  come in any order. In Opera they may be dropped, and a timer looks for messages.
  `SocketEvents.tla` is `addEventListener`, `dispatchEvent` and the `on...` properties.
* `BridgeCalls.tla`: the stack of calls between script and Flash, and `refCount`.
  `BridgeIds.tla`: how bridges are attached, callbacks run and functions numbered. The
  script looks for `bridgeName=` and a name anywhere in a movie's flashvars, which a longer
  name matches as well: `Longer[n]` are the names that begin with `n`, `Named` the movies that
  match, `TakenFor`
  those that may be taken: of this name, or of a longer one and standing before it.
  `BridgeObjects.tla`: proxies, types and reference counts of Flash's objects.
* `CometHub.tla`: `streamhub-min.js` over iframes: connection, monitors, reconnection,
  request queue, in four kinds of browser. Where a browser tells by the frame's onload
  event that a request has been answered, `Process` needs the request iframe. Before the first
  one is made it throws and the queue is stuck (`wedged`). After a reconnection the frame of
  the old container is still referenced: until the new container has loaded, the request then
  fails inside the code's `try` and is made again a second later (`retry`).
  `SocketHub.tla`: the same over WebSockets.

`*Properties.tla` hold what is said of a module where it is long; else the properties are at
its end. Operators whose comment begins with "Faulty" are plausible mistakes in the place
of a definition of the model; no specification uses them. They show that each property can
fail.

## How the modules are checked together

`MCRegistry`, `MCClient`, `MCFlash` and `MCHub` extend the components they check, so that
what a run checks is the very definition the proofs are about, and give the components
other parameters by `INSTANCE` where one set of values does not show everything. `MCLive`
and `MCServer` instantiate theirs. A behaviour chooses a `setting` (`transport` in
`MCClient`) at its start and keeps it; the variables of the other components rest in their
initial states, where their invariants hold. A setting is thus a model of its own, and the
run is the union of them. An action property of one component holds of the steps of the
others because its variables do not change in them.

Fairness is inside the liveness properties of `MCLive` and `MCServer`: each has the form
`setting = s /\ Component!Fairness => Component!Property`, so that each component is given
its own fairness and no other.

## Assumptions about time and the environment

* `BecomeIdle` happens only while no operation on the page runs: ten seconds without an
  access, against operations of microseconds. `registerChannel` renews the access time
  first of all.
* The heartbeat comes when the last access is `HEARTBEAT_INTEVAL` (five minutes) ago. By
  then a browser whose connection does not drop has asked again; `TimerDue` and the guard
  of `Queue!Heartbeat` say so.
* A write is asynchronous in Netty and a failure is only logged: a message is *written*
  when the listener reports success.
* One thread controls a connection, and a browser sends its next request on a connection
  whose last response is complete. Hence `Request` wants a connection nobody serves.
* Pages in `Transient` (in `WebPage.tla`: connections) may disconnect at any time,
  unsubscribe or close; the others do not.
* `WebPage` and `Queue` start after the first request of each page, which is answered at
  once with the page id.
* In `Registry`, an operation for a page begins while the page is in its session; it may
  leave at any step after that.
* A request the server has not seen when the browser gives it up is never served. Cookies
  are kept; the window is not moved to another domain.
* In `CometHub`, an attempt to connect outlasts the answer of a server that is up, wherever
  liveness is concerned.
* Callbacks of the page that throw are not modelled, nor is `connect()` of StreamHub while
  a socket of it lives.

## What each run checks

All with `CHECK_DEADLOCK FALSE`: messages, calls, faults and operations are bounded, and
when they are spent nothing may be left to do. Symmetry is over messages, threads, windows,
connections or destinations, in runs without liveness.

| Run | Question | Bounds |
|---|---|---|
| `queue_pages` | `TypeOK`, `AtMostOnce`, `Accounted`, `KeepsPromise` (the refinement of `PointToPoint`) with a page that comes and goes and one that streams | 2 threads, 2 messages, 2 pages, 1 link, bound 0 |
| `queue_crowd` | `OvershootBound`; `NothingLost`: with one thread for all listeners no drain is overtaken | 3 threads, 4 messages, 1 page, bound 0 |
| `page_poll` | `TypeOK`, `Accounted`, `OneBodyPerRequest`, `OvershootBound` of a long-polling page | 2 threads, 3 messages, 2 connections that drop, bound 1 |
| `registry` | `NotDeaf`, `Linked`, `NoGhost` of destinations; `Found` of sessions, which includes that windows have pages of their own; `TypeOK` | 2 threads, 1 page, 3 operations; 2 windows with 2 requests, a publisher and every second pass examining, and with 3 requests, no publisher and every pass |
| `server_live` | `Settles`: messages leave the queue and the page's buffer; `Forgotten`: domains go when unused, and sessions of which no window is connected | 4 settings: 2 threads, 2 messages; 2 operations; 2 windows, 2 requests, every pass of the timer examines |
| `client` | `NotDeaf`, `CallsAccounted`, `OneSocket`, `StaysClosed` of `webmq.js` on sockets, `Agree`, `Silent` without; `TypeOK`, `PollTypeOK` | 4 settings: 2 or 3 calls, 1 or 2 faults, 1 or 2 destinations |
| `flash` | `CreatedOnce`, `ImplementsLife`, `HandlerKept`, `NoRecursion`, `Attached`, `CallReaches`, `ObjectsKept` of the Flash fallback; `TypeOK` | 8 settings: up to 3 sockets, 3 messages, 3 movies (one name begins with another's), 8 nested calls, 4 functions |
| `hub` | `RequestsMove`, `TriesAll`, `Delivered`, `NoMoreAttempts` of StreamHub; `TypeOK` | 5 settings: up to 3 servers, 4 attempts, 3 requests; 4 messages, 3 sockets |
| `live` | `Recovers`: listeners are heard again, calls sent, polls go on, a hub finds its server; `Told`: messages, ends and callbacks | 6 settings: 2 calls, 1 or 2 faults; 3 servers of which one is up |
| `page_null`, `page_header`, `socket_error` | three things the comments say and the code does not do | as small as shows it |

What they show. The server keeps a message in one place until it has one end, under any
interleaving, but it does lose messages (`Accounted` and `KeepsPromise` count the ways) and
does exceed its bounds (`OvershootBound` says how far). A destination in use is found unless
the timer evicts it in the very middle of a lookup; TLC reaches those evictions, so the
exception in `NotDeaf` is not idle. The page a window was given is found by its next
request, unless a heartbeat or a publisher found its channel down for too long, or its
session was removed in the middle of the request that made it (`Found`). A bridge is
attached to a movie of its own name, unless a movie of a longer name stands before it
(`Attached`). The client on WebSockets ends up subscribed to what it listens to, unless two
calls overtook each other while a socket was opening (`undone`); without WebSockets it does
so unless a command was lost or the page expired between two successful polls (`adrift`).

Why the bounds are enough. Each race in the list of hazards is between two threads over one
element, one test or one entry; two threads and two or three messages or operations give
each of them (a drain of two that is overtaken after the first element, two publishers that
pass the test together, a reader of the old channel and its replacement, a registration
beside an invalidation of the same page, either of them beside the timer). The third thread
in `queue_crowd` puts a drain beside two publishers; its four messages are one more than its
three threads may leave in the queue, so the bound could be broken there. `MaxPending` is 20
in the code; a bound of 0 or 1 makes the full queue reachable, and nothing depends on the
number. `MaxLinks` caps the entries a page can collect in its `destinations` by racing
subscriptions; the proofs hold for every value of it. `MaxOps` bounds the operations on the
registry: one registers, one removes, one finds; the proofs hold for every value. In the
browser, one fault is one thing that breaks or expires: two give a failure during the
recovery from another. `MaxUrl` is a number of destinations in place of 3800 characters.
`Width` is the number of functions that a bridge can number, 2^16 in the code.
`MaxMessages`, `MaxSends`, `MaxDepth`, `MaxAdds`, `MaxRefs`, `MaxQueue`, `MaxAhead` and
`MaxSockets` cap counters at a value one above where something new last happens.

Fairness, and why the code justifies it. Server threads finish what they have begun: no
operation waits for another, and the only lock (the attachment's) is held for two
assignments. The browser of a page that does not drop asks again as soon as a response is
complete (`webmq.js`, `longPolling`), and subscribes; since other operations can take the
threads in between, this is strong fairness. The timers go off for ever; a page whose
channel stays down expires. In the browser, handlers, intervals and timers that are due run
(the event loop), frames and requests that are under way arrive or fail, and the end of a
connection is noticed. `CometHub` needs strong fairness for the answer of a server that is
up, as attempts at others come in between.

Liveness of `Queue` and `WebPage` is checked for one page and one connection: two pages can
take turns in draining the queue and putting the batch back, and two requests of one page
can do the same. A stream makes no promise at all: a message stored just after the drain
waits until the page reconnects, which a stream need not do. Under long polling the
heartbeat ends the poll after five minutes, the browser asks again, and the message goes
out: `Settles` holds, but only because of that.

## Where the code and its comments disagree

With a run that shows it:

* `page_null` (`NullChecked`): a null in a drained array is not always tested for
  (`WebPage.java:180`, comment at line 75): two concurrent drains of an answered page lose
  the messages behind the null.
* `page_header` (`HeaderFirst`): a body may precede the header of its response
  (`ListenHandler.java:118`, comment at line 286), when a message meets a kept-alive channel
  that has just been made writable.
* `socket_error` (`Reconnects`): on `web_socket.js`, an error of an open connection is never
  followed by a close event, and the socket is not replaced (`webmq.js:375`, comment at line
  370).

Met while modelling, and part of the models, without a run of their own:

* A topic's message for a page that is offline is not buffered (`WebPage.java:132`),
  though the buffer is there for that (`WebPage.java:24`). The page's buffer exceeds its
  maximum (`WebPage.java:172`, comment at line 22).
* A page that was found not valid is invalidated although its window has come back meanwhile:
  the test and the invalidation are two steps, and the second closes the new channel
  (`WebPage.java:227`).
* The poll loop ends when a url is longer than 3800 characters (`webmq.js:720`, `704`): the
  exception leaves the handler that was to start the next poll. `close()` while a socket is
  closing does nothing more, and its `onclose` finds the client not closed
  (`webmq.js:141`). A socket that fails at once is replaced at once, without delay (`372`).
* `removeEventListener` never removes a listener (`web_socket.js:201`), and a listener that
  is added before any handler is never called (`174`).
* With two movies whose names are `socket2` and `socket`, in this order, the bridge `socket`
  is attached to the first: `FABridge` looks for the name anywhere in the flashvars
  (`FABridge.js:142`).
* `FABridge.refCount` stays up after a call that throws (`FABridge.js:316`); an error in a
  nested callback lowers the count of the call around it (`558`); function numbers overflow
  into the bridge's (`250`); an object whose type's description is overtaken or lost has no
  methods (`431`, `508`, `594`); an event object is freed before its second listener runs
  (`FABridge.as:640`).
* StreamHub on WebSockets throws in its failover (`streamhub-min.js:702`).

## What is proved

TLC checks small instances; the theorems hold for every value of the constants that the
named assumptions allow. The assumptions say what the code's configuration may be: the
sets of threads are finite, bounds and limits are natural numbers, `Browser` and the like
are among the kinds the code distinguishes (`QueueAssumption`, `RegistryAssumption`,
`WebPageAssumption`, `SessionsAssumption`, `SocketClientAssumption`,
`PollClientAssumption`, `FlashSocketAssumption`, `SocketEventsAssumption`,
`BridgeCallsAssumption`, `BridgeIdsAssumption`, `BridgeObjectsAssumption`,
`CometHubAssumption`, `SocketHubAssumption`). Six results need more, and say so:

| Hypothesis | For | Why; what happens without it |
|---|---|---|
| `RunOnce`: no url is bad, or one movie reports | the sockets of `FlashProofs` | a task that throws leaves all tasks in the list, and the next movie runs them again: a socket may get two connections |
| `~RootFails` | `CallsDoNotNest` | an error of `root()` or `create()`, which are not counted, uncounts the call around them (`FABridge.js:558`) |
| `OneTag`: the movies are all objects or all embeds | `BridgesAreAttached` | what a browser makes of a document: it activates one of the two; with both, a lone object is taken whatever its name |
| `FewFunctions`: no more than a bridge has numbers for | `CallsReachFunctions` | numbers run over into the next bridge's (`FABridge.js:250`) |
| `Listeners = 1` | `ObjectsAreKept` | an event is freed before its second listener has it (`FABridge.as:640`); `web_socket.js` adds one |
| `Type = "POLL"` | `PollingMoves` | a hub that falls back to polling may sit on its queue until its next poll |

The `flash` run is within these hypotheses.

| Module | Theorem | Says |
|---|---|---|
| `QueueProofs` | `Typing`, `NeverTwice`, `NothingUnaccounted` | `Spec => []TypeOK`, `[]AtMostOnce`, `[]Accounted` |
| | `BoundKept`, `SingleListenerLosesNothing` | `[]OvershootBound`, `[]NothingLost` |
| | `Implementation` | `Spec => KeepsPromise`, that is `Promise!Spec` |
| `WebPageProofs` | `Typing`, `NothingMislaid` | `[]TypeOK`, `[]Accounted` |
| | `OneBodyOnly`, `OvershootBounded` | `[]OneBodyPerRequest`, `[]OvershootBound` |
| `RegistryProofs` | `Typing`, `FoundByPublishers`, `LinksKept`, `NoGhosts` | `[]TypeOK`, `[]NotDeaf`, `[]Linked`, `[]NoGhost` |
| `SessionsProofs` | `Typing`, `PageFound` | `[]SessionsTypeOK`, `[]Found` |
| `SocketClientProofs` | `Typing`, `CallsHaveOneFate`, `OneAlive` | `[]TypeOK`, `[]CallsAccounted`, `[]OneSocket` |
| | `NoneIsDeaf` | `[]NotDeaf` |
| | `ClosedRests` | `StaysClosed`, of every step |
| `PollClientProofs` | `Typing`, `PageAgrees` | `[]PollTypeOK`, `[]Agree` |
| | `ClosedAsksNothing` | `Silent`, of every step |
| `FlashProofs` | `Typing`, `OneConnectionEach` | `[]TypeOK`, `[]CreatedOnce` of `FlashSocket` |
| | `Implementation` | `Spec => ImplementsLife`, that is `Life!Spec` |
| | `EventTyping`, `HandlersAreKept` | `EventsSpec => []EventsTypeOK`, `HandlerKept`, of every step |
| | `CallsDoNotNest` | `CallsSpec => [](CallsTypeOK /\ NoRecursion)` |
| | `BridgesAreAttached`, `CallsReachFunctions` | `IdsSpec => [](IdsTypeOK /\ Attached)`, `CallReaches`, of every step |
| | `ObjectsAreKept` | `ObjectsSpec => [](ObjectsTypeOK /\ ObjectsKept)` |
| `HubProofs` | `Typing`, `NothingElseBlocks` | `[]TypeOK`, `[]RequestsMove` of `CometHub` |
| | `PollingMoves`, `EveryServerIsTried` | `[](queue # << >> => Begun)`, `[]TriesAll` |
| | `OneMoreAttempt` | `NoMoreAttempts`, of every step |
| | `MessagesAreDelivered` | `SocketSpec => [](SocketTypeOK /\ Delivered)` |

Every invariant and every action property of the passing runs is in the table.

Each module proves `Invariance`, `Spec => []IInv` (`Inv` in `RegistryProofs`), first: `Init`
implies the inductive invariant, and every action preserves each of its parts, given the
others (a lemma `...Step` per part, in it a step per action). TLC checked each inductive
invariant as an invariant of the settings of the runs before it was proved.

### The queue

`IInv` is `TypeOK /\ Control /\ Ledger`. `AtMostOnce` is not inductive: it says nothing of
a message that is in the queue and also in an array, which a next step could write a second
time. `Ledger` adds that a message is in one place only (`Apart`) and once there
(`BufferedOnce`, `CarriedOnce`, `DrainedOnce`), and `Accounted`. `Control` says what a
thread holds at each step: only a publisher carries a message, only a drain with a round to
end has an array to hand over, only a removal counts entries off. The lemmas before the
steps say how appending to the queue, taking its head, and emptying an array change the
sets `Queued`, `Drained` and `Carried`, and how many copies an array without duplicates
adds.

`OvershootBound` needs to count the publishers that have passed the test and not yet
offered: `Crowd` bounds the length of the queue plus their number. A publisher that passes
the test finds at most `MaxPending` messages, and there are at most as many publishers past
the test as threads. `NothingLost` needs `Alone`: while one thread fills its array nobody
else takes from the queue, so the queue holds at least what the array lacks (`Filling`),
and no array holds a null (`NoNull`). For the refinement, `OtherSteps` shows that five
actions only can change a status; `IInv` says that the messages they touch were pending.

### The web page

`IInv` is `TypeOK /\ Control /\ Ledger /\ OneBody /\ Room`, in the shape of the queue's.
`OneBodyPerRequest` is not inductive: a channel that is writable although it has had its
body would get a second one. `OneBody` adds that a writable channel has had none; it holds
because the flag is tested and cleared under one lock (`Write`) and set only by the next
request. `OvershootBound` speaks of the buffer only, and a thread past the test may offer a
whole array: `Room` counts the elements still to be offered (`Offered`) with those in the
buffer. Each thread that passes the test finds at most `MaxPending` in both, whatever the
others hold.

### The registry

`Inv` is `Typed /\ Registers /\ Domains /\ Pages`.

* `Typed` has, beside the types, what a thread and the timer have in hand at each step, and
  `Counted`: the objects made, and the threads that may still make one, are no more than
  the operations begun. Without it a number could run out of `Object`. `Counting` is the
  lemma about sets of threads that grow or shrink by one.
* `Registers`: a destination with pages, or in the hand of a thread that is about to put one
  in, is where it was put, or is in `late`. The eviction keeps it because the timer tested
  `pages` last, and a page put since then made the destination late (`Put`), as does a
  thread that has it in hand (`Evict`).
* `Domains`: the same one level higher.
* `Pages`: `Linked` and `NoGhost` are not inductive. An invalidation goes through a snapshot
  of the page's list, then clears the list: `Visits` says that whatever destination still has
  the page is in the snapshot, in the invalidation's hand, or being removed; `Invited` that
  a registration of a page that has left is in `overlapped`. `QuietOrLoud` reduces
  the steps to seven that touch a page, and one kind that does not; `Alone` says what
  those seven leave alone. `RemoveFirstKeeps`, `AppendAdds` and `HeadOrTail` are about the
  operators on lists.

### The sessions

`Found` depends on requests under way, on the timer and on publishers. A page that a thread
found not valid is `Leaving` until that thread has invalidated it; `Left` says that a window
of such a page is excused by then, so that the invalidation takes nobody's page by surprise.
`Doomed` says the same of the session that the timer removes: it had no page when it was
tested, so that whoever makes one after that is late. `New` and `Numbered` say that a page
being made is nobody's yet, in no session, and not among those that expire or are leaving:
its number was given out once, and an invalidation that was begun for an old page cannot
meet a new one. `Requests` gives each request its session, and `Counted` bounds the numbers
given out, as in the registry.

### The client on WebSockets

`CallsAccounted` is strengthened to `Fates`: each call has exactly one of three fates, and
none before it is made. `NotDeaf` speaks of quiet states; `Heard` says in any state how the
server has been told of a listener, or will be: by the destinations of a handshake under
way, a command that waits or is on its way, or in the server's page. `Known` does the same
for the page id: it is the client's, or it is the one frame under way to it. `Orderly` says
that "close" was sent by a closed client only, so that nothing else takes the page from an
open socket.

### The client without WebSockets

`Agree` is strengthened to `Kept`: as long as the server has the page that the request, or
the next one, is for (`Current`), a destination that is not adrift agrees, or a command
about it is on its way (`Pending`), or the request under way will subscribe to it again
(`Renewed`). A command about a page must then not reach another one: `Ids` says that an id
the server knows, in a command under way, is the client's own; that a login which has not
run is for a page that replaces one the server no longer has; and that all ids were given
out (`Issued`), so that a new page cannot have an id that an old command names
(`NewIsNotIssued`). `Named` says what a request names: what the client listened to when it
was made, or nothing after one that was taken for a success; a subscription made since then
is what `ServerPoll` sets adrift.

### The fallback to Flash

The events of a connection come in any order, and some never: `Behind`, `InOrder` and
`News` tie what the script has seen to what Flash has done. `Behind`: the script's
`readyState` is never ahead of Flash's. `InOrder`: what was heard is older than what is in
Flash's queue, and both are in order. `News`: that the connection opened, or ended, is
under way in one event or has been told once, never both. `Uncreated`, on the tasks that
movies run, needs `RunOnce` (no url is bad, or one movie reports): when a task throws, all
of `__tasks` stays in place, those that have run too, and a second movie's report runs them
again.

`HandlerKept` needs no more than the types, of which one part is meant for it: the
dispatcher is never in place without the handler it took the place of. The counted calls
need `CallsInv`: at most one frame of the stack is a counted call, the count is never below
the number of those, and it is that number as long as no movie has gone, as a movie that is
gone leaves the count too high. For `Attached`, `IdsInv` adds that a callback waits while
there is no bridge of its name and has run once there is one (`Asks`), and that a function
has one number, of one bridge (`OneNumber`). A bridge's movie has its name, or was taken for
it: it has a longer name and matched as well (`TakenFor`). `CallReaches` is arithmetic: a
number below `Width` is taken off again by the quotient, whichever bridge it is in.

`ObjectsKept` needs two parts (`ObjInv`). `Descriptions`: what Flash has described is known
to the page, or on its way with an event that none of its type precedes, or was overtaken.
`Counted`: Flash's count of an object is what the page holds, the event that is still to be
delivered and what the page never knew of, and the object lives while it is above zero. A
delivery takes an event out of the middle of the list; `TakenOut`, `Joined` and the lemmas
beside them say which event is at which place afterwards.

### StreamHub

`TriesAll` is not inductive: that all servers have been tried after so many attempts follows
from which ones the last attempts were for. `Age(s)` is the number of attempts since server
`s` was next in the list that goes round, and `Recent` says that a server of smaller age than
there were attempts has been tried; an attempt makes every age one greater and the age of
its own server zero. `RequestsMove` is inductive: that the queue is stuck
only where `Process` threw, or a reconnection cut a request off, is part of it
(`OnlyWedged`). That a hub that polls from the
start never sits on its queue needs `Polls`, as such a hub stays one; a hub that falls back
from streaming to polling may sit on its queue until its next poll.

On WebSockets (`SocketInv`), `AtMostOnce`, `InOrder` and `Accounted` follow from what is
said of pairs: the page sends a message once (`asked` has no duplicates), what is on the
wires is in one place (`SentOnce`), the queue is in the order asked (`Queued`) and nothing
in it is on a wire while the socket connects. The last is what matters, as the queue is not
emptied when it is sent: it is sent once because a socket opens once, and the next
`connect()` makes another queue.

### Only model-checked

`Settles`, `Forgotten`, `Recovers` and `Told`, the liveness properties: liveness under
fairness and everything that needs ENABLED is out of the prover's reach. So would be whatever a
recursive definition computes, but no module holds one. The hypotheses in the table above
(`RunOnce`, `OneTag` and the others) are not results: each names a condition on the page or
the deployment without which the code does not keep the property.

## Not modelled

* The WebSocket handshake and the frame parser: sequential arithmetic on keys and bytes of a
  draft of the protocol, without state shared by anyone.
* The HTTP front end, files, `utils/*`, start-up and the command objects: I/O, wiring, text.
* `json2.js`, `cookie.js` (text), `swfobject.js` (third-party, packed) and `webmq.all.js`,
  which is a concatenation of the scripts modelled here: it alone is a third of the
  implementation's lines.
* A channel that serves two pages in turn, requests with malformed JSON, and a subscription
  to several destinations that fails half way.
* What becomes of a queue's stored messages when the queue is evicted: `Registry` knows
  pages, `Queue` knows messages, and no comment says how long a stored message is kept.
* An exception in the session timer's task outside the part it guards, which would end the
  timer: nothing in the modelled code throws there.
* Callbacks of topics, parsing and frames' markup in StreamHub; how FABridge packs values.

Hazards of these, and some milder ones of the modelled scripts, are not in the list of
`PROJECT.json`, which keeps to those that matter most.

## Plan

1. Done: the server's queue, page, registry and sessions; the browser's client on both
   transports, the Flash fallback, the bridge and StreamHub; the safety of all of them
   proved, and the refinements of `PointToPoint` and `SocketLife`.
2. Next, proofs: an abstract specification of the page's buffer that `WebPage` refines, as
   `PointToPoint` is of the queue; what the two attachments of `OneTag` have in common, so
   that documents with both tags are covered where the code covers them.
3. Then a channel shared by two pages (`ListenHandler`), and the queue's stored messages
   under eviction.
