# A verification project for node-wot

TLA+ models of the parts of this repository in which several things happen at
once: the management runtime of `my_runtime` and the bindings it loads, the
Servient, Exposed and Consumed Things, the HTTP, CoAP, WebSocket and MQTT
servers, the clients of the protocol bindings, and the octet-stream codec. TLC
checks them on small instances; TLAPS proves the safety properties that they
have, for every value of the constants. Paths below are relative to the repository, with
`packages/` for `src/packages/`.

## 1. Inventory

node-wot runs in one Node.js process: one callback at a time, no threads. What
is concurrent are the *awaits*: an `async` function that waits for a file, a
socket, a timer or a handler of the application leaves its locals behind, and
anything else may run before it goes on. Awaits of promises that are already
resolved (and of functions that return without waiting for anything outside)
do not let another request in, so that a step of every model is the code
between two awaits that wait for input or output.

| Component | State | Operations | Hard because | Correct when | Model |
|---|---|---|---|---|---|
| Management runtime (`my_runtime/runtime.ts`) | `deployed-bindings/` on disk, the module cache, `loadedBindings`, `registeredBindings`, the Servient's factories and servers | `deployBinding`, `addBinding`, `removeBinding`, `deleteBinding` | each awaits files, `server.start()` or `server.stop()` between checks and effects; every step can fail; the process can end at any moment | factories and servers stay with their binding; error paths give back what they took; the documented life cycle holds; invocations are answered | `Runtime`, `BindingStore`; `RuntimeProofs` |
| Dynamic bindings (`my_bindings`) | connections, a listening port, the entries of a server | `start`, `stop`, `expose`, requests over TCP | `stop` waits for connections; forms are counted while other servers add theirs | requests are settled, `stop` ends | as packages in `Runtime`; the TCP binding in `TcpBinding` |
| Servient (`packages/core`) | Things, servers, client factories, credentials | `addServer`, `removeServer`, `add`/`removeClientFactory`, `start`, `shutdown`, `expose`, `destroyThing` | flags are checked before an await and set after it | what is shut down does not listen; what is destroyed is gone; calls resolve | `Servient` over `ThingServers`, `ServientProofs`; client factories in `ClientChoice` |
| HTTP, WebSocket and MQTT servers | names, forms, connections, timers | `start`, `stop`, `expose`, `destroy`, long polls, connections, publications | names are made of titles, timeouts race answers, callbacks are attached after awaits | forms lead to their Thing; listeners are released; a callback never throws | `ThingServers`, `Exposure` |
| HTTP routes and security (`packages/binding-http`) | the scheme of each Thing | every route, `fillSecurityScheme`, `checkCredentials`, token validation | checks, early returns and awaits in every route | handlers run for granted requests only; each request is answered | `HttpRoutes`, `BindingsProofs` |
| HTTP client and credentials | `credential`, `activeSubscriptions` | requests, token and refresh, long polls, server-sent events | two requests refresh at once; the map is set after an await | a subscription can be stopped and goes on polling; a token is refreshed once | `HttpClient`, `BindingsProofs` |
| CoAP server | things, resources, announcements, observations, timers | `expose`, `destroy`, every request | a response's `finish` races a one-hour timer and an attachment after an await | forms are served, listeners released, requests answered | `CoapServer`, `CoapProofs` |
| CoAP clients | agents, keys of the library by host | all requests, `unlinkResource`, `stop` | keys are set before an await and used after it | keys do not mix, requests settle | `CoapClients` |
| Modbus client (`packages/binding-modbus`) | queue of transactions, the current one, `connecting`, timers; polling subscriptions | `enqueue`, `trigger`, `connect`, `close`, completion; `subscribeResource`, `unlinkResource` | requests are combined, connection loops overlap, the idle timer fires at any time | no request is lost or executed twice; a combined request gets what it would get alone; polls can be ended | `ModbusConnection`, `ModbusProofs`; `ModbusPolling`, `BindingsProofs` |
| M-Bus client | queue, connection, idle timer | as Modbus | as Modbus | each operation is answered | `MbusConnection` |
| OPC UA client | cache of connections, monitored items | requests, subscriptions, `stop` | promises in caches that are read before and set after awaits | open connections can be found; a subscription hears as long as it is active | `OpcuaClient`, without security settings; `BindingsProofs` |
| NETCONF client | the router | requests | the router is tested, awaited and then set | one router | `NetconfClient`, `BindingsProofs` |
| Exposed Thing (`packages/core`) | handlers, listeners per affordance and form | reading, writing, invoking, observing, subscribing and their opposites, emitting, `destroy` | listeners are registered before an await; handlers are awaited before notification; forms are appended by servers at any time | each waiting client is registered once and released; observers end with the current value | `Exposure`, `ExposureProofs`; `Interactions`, `CoreProofs` |
| Consumed Thing (`packages/core`) | clients by scheme, `subscribedEvents`, `observedProperties`, the data of an interaction | read, write, invoke, observe, subscribe, `stop`, `value()` | one entry per affordance, checked before and set after the client's await; a cache of clients filled on three paths; one stream, several readers | one subscription per affordance, and it can be stopped; the right client with its security; the whole of the data | `ConsumedThing`, `ConsumedProofs`; `ClientChoice`, `InteractionData`, `CoreProofs` |
| MQTT client and message pool | client, one callback per topic | `readResource`, `subscribeResource`, `unlinkResource` | `connect` checks before its await; readings and subscriptions share a topic | calls about other affordances do no harm; what is stopped is silent | `MessagePool`, without publishing |
| Codecs and content | registered codecs | conversions | integers of any length, offset, sign and byte order | conversion and its inverse agree, and what is on the wire is right | `OctetCodec`; text, JSON and CBOR are not modelled |
| Thing Description parsing and helpers | none | pure functions | little | — | in part in `ClientChoice` |
| WebSocket client, file client, command line, demonstrations | none across awaits | operations that throw, single calls, scripts | little | — | not modelled |

How they interact: an application exposes a Thing through `WoT` → the Servient
hands it to each *server*, which appends its forms to the Thing and registers
listeners; a server's route calls `handleRead…`/`handleObserve…` of the Exposed
Thing, which calls handlers of the application; `emitEvent` and
`emitPropertyChange` call the listeners. A Consumed Thing asks the Servient's
*client factory* of a form's scheme for a client, sets its security, and keeps
its subscriptions. The runtime is an Exposed Thing whose actions load packages
and add their factories and servers to the same Servient, over which these
actions may have come in.

The hazards in this code, each at its line, are in `PROJECT.json`; those that
no property covers say why.

## 2. The models

| Module | Composes | Checked in |
|---|---|---|
| `Runtime`, `BindingStore` | the second is the abstraction of the first | `MCRuntime` |
| `ModbusConnection` | | `MCModbus` |
| `Exposure` | a Thing, its servers and its clients | `MCExposure` |
| `ConsumedThing` | extends `MessagePool` | `MCConsumed` |
| `ClientChoice`, `Interactions`, `InteractionData`, `OctetCodec` | `Core` has the four, apart from each other | `MCCore` (inputs of the codec in `OctetCases`) |
| `CoapServer` | the server, its Things and its clients | `MCCoap` |
| `Servient` | extends `ThingServers`, the registries of three kinds of server | `MCServient` |
| `HttpRoutes`, `HttpClient`, `OpcuaClient`, `NetconfClient`, `MbusConnection`, `ModbusPolling`, `CoapClients`, `TcpBinding` | apart from each other | `MCBindings` |

`MCCore` and `MCBindings` have parts that do not touch one another. A variable
`side`, which no step changes, says which of them takes steps, so that the
states of a run are the sum of those of the parts, not the product.

### 2.1 Runtime (`Runtime.tla`, abstract: `BindingStore.tla`)

A *package* is a record of what the runtime can see of a manifest and its
entrypoint: valid or not, schemes, roles, required stacks, and whether it
loads, whether its factory can be created and initialised, whether its server
starts, can expose, and waits for its connections when it stops. The packages
of `MCRuntime` are modelled on those in `my_bindings`, `wrong-binding` included.

| State | Code |
|---|---|
| `disk`, `cache` | `deployed-bindings/<id>`; Node's module cache, which `require` answers from |
| `loaded`, `registered` | `loadedBindings`; how often `registeredBindings` lists an id (a binding can be listed twice) |
| `factories`, `servers`, `listening` | `Servient.clientFactories` by scheme, `Servient.servers`, ports that are held |
| `occupied` | servers that have been told to stop while a client was connected that has no invocation pending |
| `req` | a pending invocation: its handler, its locals and which await it is at (`phase`), and over which server it came in (`via`) |

| Phase | The await | Left by |
|---|---|---|
| `staging`, `renaming` | `mkdir`/`writeFile`; `rename` (`installDeployedBinding`) | `Staged`, `Rename`, `InstallFails` |
| `installed` | its return | `Installed` |
| `starting`, `undoing` | `server.start()`; the `server.stop()` of the error path | `Started`, `StartFails`, `Undone`, `UndoFails` |
| `stopping` | `server.stop()` in `removeServer` | `Stopped`, `StopFails` |
| `removing`, `rollback` | `rm` in `deleteDeployedBindingFiles` | `RmPart`, `RmEnd`, `RmFails` |

`Deploy`, `Add`, `Remove` and `Delete` are the handlers up to their first such
await; their guards are the early returns. An invocation that is turned down
at once with nothing changed is a stuttering step. `Restart` is the end of the
process and a new one; `Disconnect` the loss of the connection an invocation
came in over, after which its handler goes on; `Vacate` the end of a connection
without an invocation, which `server.close()` waits for as well.

`BindingStore` is the life cycle `my_runtime/README.md` documents (not
deployed ↔ stored ↔ active), with nothing of the machinery: a complete package
appears at once, only stored packages are activated, only beside bindings with
other schemes, an active one runs the code that was transferred and is never
erased. The refinement maps `store` to `disk` and `active` to the code of
`loaded`.

### 2.2 ModbusConnection (`ModbusConnection.tla`)

`queue`, `current`, `connecting`, `open` are the fields of `ModbusConnection`;
`loops` are the invocations of `connect()` under way (each `trigger()` without
a connection may begin one, and `connecting` is `false` while a loop waits for
its next attempt, so there can be several); `state` and `result` are the
promises of the requests; `device` and `answer` are the device and its answer
on the way. `Issue` is `enqueue` with the `trigger` it calls; `Trigger` is an
operator because five other steps end with it. A *word* is named after the
request that wrote it and its position, which is all that is needed to see
whether the right word reaches the right address. Left out: the order of bytes
in a word, the rounding of quantities for odd buffers, and the replacement of an
open port by a second `connectTCP` except for its effect (`closing =
"replaced"`, `ConnectionLost`).

### 2.3 Exposure (`Exposure.tla`)

One Thing that servers expose one after another. `forms` are the forms of each
affordance in the order in which servers have appended them; `listeners` is
the `ProtocolListenerRegistry`, a list for each affordance and form;
`awaited` are the listeners whose observe or subscribe handler of the
application is awaited; `conn` are long polls and WebSocket connections.
Publications of a broker are listeners, too.

| Actions | Code |
|---|---|
| `AddServer` | `expose` of the HTTP, WebSocket and MQTT server |
| `Poll`, `CredentialsChecked`, `HandlerDone`, `HandlerRejects` | `eventRoute` and `propertyObserveRoute` up to, and after, their awaits |
| `Finish`, `Close`, `Timeout` | their callbacks: `finish` of an observation, `close` of an event, the hour |
| `Connect`, `Disconnect` | the `connection` and `close` callbacks of `ws-server.ts` |
| `Notify` | `emitEvent`, `emitPropertyChange` and `notify` |
| `Destroy` | `ExposedThing.destroy` |
| `Forget` | nothing in the code: a slot whose client has gone can be used again |

`FormFor` and `MatchingForm` are `getFormIndexForOperation` and
`findRequestMatchingFormIndex`; both choose among forms that may have grown
since the listener was registered. `Offered` stands for the media types,
addresses and paths that make several forms of one resource. An exception that
nobody catches (a callback that does not find its listener, a handler that
rejects) sets `uncaught` and ends the process.

Abstractions: `emitPropertyChange` awaits a read handler before it notifies,
so a notification can come at any moment and `Notify` has no guard (values,
and hence the order of values, are left out); properties can be read, written
and observed; a Thing is exposed once and servers are not removed. From outside
`src/`, taken from how it is used: a response ends with the body piped into
it; a response whose client has gone closes without `finish`; an `on("close")`
attached too late is not called; `ws.close(-1)` of an open WebSocket throws;
of several iterations over one stream the first gets its data.

### 2.4 ConsumedThing (`ConsumedThing.tla`, `MessagePool.tla`)

`MessagePool` has the state and the operations of `mqtt-message-pool.ts`
(`client`, `subscribers`, the topics the broker sends over each connection);
`ConsumedThing` has the calls of an application: `entry` are
`observedProperties` and `subscribedEvents`, `call` the locals of each call,
the await it is at (`phase`) and the connection whose answer it awaits
(`via`). A topic stands for its affordance.

| Phase | The await | Left by |
|---|---|---|
| `connecting` | `connectAsync` (`pool.connect`) | `Connected`, `ConnectFails` |
| `subscribing` | `subscribeAsync` of an observation or a subscription | `Subscribed`, `SubscribeFails` |
| `asking`, `waiting` | a message for `readResource`, whose `subscribeAsync` nobody awaits | `Deliver`, `ClientError`; `SubscribeFails` ends the process |
| `releasing` | `unsubscribeAsync` of `readResource` | `Released` |
| `stopping` | `unsubscribeAsync` of a property's `stop()` | `Stopped`, `StopFails` |
| `stopped` with `via` | `unsubscribeAsync` of an event's `stop()`, which nobody awaits | `Stopped`; `StopFails` ends the process |

`Begin` is `observeProperty`, `subscribeEvent` or `readProperty` up to the
first await, `Destroy` the end of the client factory. A call that comes while
another one connects opens a connection of its own, which replaces the other
in the pool but leaves it open.

Abstractions: the broker takes in a request when it is sent; what a reading's
`subscribeAsync` does after the reading has its message is left out; the
application names no form, so that one client serves the Thing; properties and
events have one topic each; messages to an observation's listener change
nothing; publishing (writing, invoking) is left out. `alone` is a history
variable: whether all calls about an affordance came one after the other and
none failed.

### 2.5 ClientChoice, InteractionData (`packages/core`)

`ClientChoice` has `getClientFor`, `ensureClientSecurity`, the handling of form
indices and the form that ends a subscription. `td` is the Thing Description
(forms by affordance, with scheme, operations and security), `clients` is
`#clients`, `factories` what the runtime has in the Servient at the moment,
`call` the latest call with the form, client and security it went out with.
`findForm` searches the whole of an `href` for a scheme and a colon: besides
its own scheme, a form `mentions` those of which it happens to have the text
(`opc.tcp:`, `coap+tcp:` and a query with `ws:` are such).
There is no await between the choice and the request: `Interact` is one step,
`Answer` the judgement of the answer. `getSecuritySchemes`, which recurs through
combos, is there by what it comes to: the definitions it reaches (`Visited`),
whether one of them throws, and the first scheme of the list, the only one
that `setSecurity` looks at.

`InteractionData` is one `InteractionOutput` over a stream in chunks: `value()`,
`arrayBuffer()` and `data` by several readers, each of which may begin while
another one waits. `state` is that of the stream, `dataUsed` and `cached` are
the fields of the output, `overlapped` says whether two calls have been under way
at once.

### 2.6 Interactions (`packages/core/src/exposed-thing.ts`)

`calls` are the calls of servers and of the application with the handler they
await: one property (`HandleRead`, `HandleWriteProperty`), several
(`HandleRead` with a sequence, `HandleWriteMultipleProperties`), an action, or
`emitPropertyChange`. `Handled` is the settling of a handler, in any order among
calls. `value` is the state of the application, which `Change` changes, and
`last` what the observers of a property heard last.

### 2.7 OctetCodec

`valueToBytes` and `bytesToValue` with their helpers for bits, on sequences of
bits. `Write` and `Read` are the two directions over one of `Exchanges`;
each is the common part of a conversion (`Reading`, `Writing`) with an operator
for objects, since an object's properties are converted one by one; objects
within objects go two deep. `Size` and `Part`
are a reference for where the bits of a value belong, and `RoundTrip` and `LaidOut`
hold the code to it. `ScalarKept`, `ObjectKept` and their companions say of which forms the
codec keeps its promise; the remaining ones are in section 3. `IsExchange` is
what a member of `Exchanges` may be: a value of a known kind, integers of at
most 30 bits and a sign, with any schema and parameters.

### 2.8 CoapServer

`things`, `resources` and `announced` are the three places where a Thing is
registered; `Receive` is `handleRequest` up to its first await, through
`Dispatch`, which has all checks and early returns, and all that throws; `HandlerDone`,
`HandlerRejects` and `Observed` are what follows the awaits, `Finish` and
`TimerFires` the callbacks of an observation, `Notify` an emission. A title
is a word and the numbers behind it, so that it can be the name that another
title has with a suffix. `Form` follows a name through its two escapes and
`RequestFor` through the one decoding. From outside `src/`, taken from how they are
used: `slugify` leaves `:`, `@` and `+` in a title; the library hands on the segments of
a path as they were sent. Bodies that are streamed end.

### 2.9 Servient, ThingServers

`ThingServers` makes `expose()` and `destroy()` of each kind of server, which
await nothing, into functions from registry to registry, and says where a
request under a name arrives (`LeadsTo`). A registry keeps the entries of a
`Map` by their place in its order, which they keep until they are deleted.
Things are known by their id: one that is produced again under the id of a
destroyed one is not told apart from it. A title is a word and the numbers
behind it (`Title`; what `slugify` makes of it is `Slug`), so that it can be what
a server makes of another title; `Escaped` are the words and names of affordances
that `encodeURIComponent` changes, which a broker server puts into topics and
does not decode (the routers of the other servers do, and are external).
`Servient` has the calls: `StartCall`
and `Started`, `ShutdownCall` and `Stopped`, `RemoveServer`; `Opens`,
`OpenFails` and `Closes` are events of the sockets, `attempts` the calls whose
`start()` waits for one. `history` records what has happened, for the
exceptions that the properties name.

### 2.10 HttpRoutes, HttpClient

`HttpRoutes` has the choice of a scheme (`scheme`) for what a Thing declares,
and each request from `handleRequest` through its route; `granted` and
`handled` are history. A query is `malformed` when `decodeURIComponent` throws
on it. `HourOver` makes a long poll `deaf`: its listener is gone, the answer stays
open. Bodies that are streamed end. The introspection of tokens is external. `HttpClient`
has two sides: requests with the credential they sign with (`credential`,
`issued`; the token endpoint with `valid` and `refreshable` is external), and
subscriptions (`subs`, `active` for `activeSubscriptions`) by long polls and
server-sent events. An answer to a refresh can be `lost` when the endpoint has
used the token up; `doubled` are the tokens that two refreshes have had in hand at a
time, `before` what other subscriptions had come to when one was established.

### 2.11 OpcuaClient, NetconfClient, MbusConnection, ModbusPolling, CoapClients

Each has the fields of its class and the promises of its calls, in stages from
await to await; the libraries below answer or fail at any time. Connections,
routers and monitored items are kept in sequences of all there have been, so
that the properties can speak of those that the program has lost. A monitored
item remembers which of its `handlers` it had when it was terminated (`cut`),
whether that failed (`stray`), and whether `stop()` ended it (`stopped`).

### 2.12 TcpBinding

Server and client of `my_bindings/new-tcp-binding`: `entries` is
`thingsByPath`, whose `index` is what `#fillThingForms` has counted, `calls` are
requests from `connect` to their promise with the chunks that are on the way.
`OtherForm` is another server that appends its form; `Dies` is the end of the
server's process by a rejection that nobody handles. A peer can fall silent
without closing at any point (`FallsSilent`) or from the start (`Idles`).

## 3. What is checked

Run a check with `tlc -workers 2 -config <name>.cfg <MC module>` and the proofs
with `tlapm <module>.tla` for each of the eight modules whose name ends in
`Proofs`; the longest, `BindingsProofs`, takes some minutes.

| Run | Instance | Shows |
|---|---|---|
| `runtime_serial` | one invocation at a time, all 12 packages, 3 instances, native and dynamic ingress, up to 2 rejections of `stop`, restarts | `NothingLeaks`: after every error path the Servient holds what the loaded bindings account for. `RegisteredUnlessStopFailed`. `ImplementsStore`: without overlap the runtime is a `BindingStore` |
| `runtime_overlap` | two invocations at every interleaving, 4 packages that compete for a scheme and an id, 3 instances | `FactoryOwnership`, `ServerOwnership`: what was checked before an await and is used after it does no harm here. `PortsAccounted`: no port is left behind |
| `runtime_answers` | two invocations, two TCP bindings, fair | `AnsweredNatively`: an invocation over a native server is answered although others may wait for ever, if idle clients leave in the end |
| `modbus` | 2 writes of 2 registers that combine, 2 reads across both, 3 of them issued, 2 attempts, fair | `PendingOnce`, `CombinedAsAlone`, `Settled` |
| `exposure` | two clients, a property and an event with an awaited handler, 2 HTTP servers, a WebSocket server and a broker that join in any order | `EachListensOnce`, `ReleasedOnClose`, `FoundUnlessRemoved` |
| `consumed` | three calls about a property and an event, two faults, the client destroyed at any time | `EntryIsLive`: what counts as observed can be stopped. `StoppedIsSilent`. `AloneIsServed`: calls about other affordances do no harm |
| `core` | six Thing Descriptions, 2 schemes, 1 subscription; 2 properties and an action with 2 calls, values up to 2; a stream of 2 chunks and 3 readers; the cases of `OctetCases` | `FormFitsClient`, `SecuredOrKnown`: requests go to the right client with its security while factories come and go. `LastIsCurrent`: observers end with the current value. `WholeUnlessOverlapped`: one reader at a time gets the whole. `CodecExact` |
| `coap` | two Things, one of them exposed twice and the other one titled like its second name, two requests, fair | `FormsAreServed`, `ReleasedOnFinish`, `Answered` |
| `servers` | an HTTP server, a WebSocket server on it and a broker; either Things of one title, or one whose title is the broker's second name of the other, that are exposed and destroyed beside one call, or three calls that overlap; fair | `FormsLead`: a form leads to its Thing whatever others of its title come and go. `DestroyedIsGone`, `NothingListensOn`; `StopsResolve`, if HTTP clients leave in the end |
| `bindings` | see *Bounds*; fair | HTTP: `HandledIfGranted`, `RequestsAnswered`, `RefusedIfDoubled`, `ActiveIffOpen`, `PollsAgain`. OPC UA: `OpenIsCached`, `HearsWhileActive`. NETCONF: `OneRouter`. M-Bus: `OperationsSettle`. Modbus: `PollsWhileLinked`. CoAP clients: `CoapRequestsSettle`. TCP: `TcpServes` |

### What does not hold

Two runs show properties that fail, each against what a document of the
repository says:

| Run | What happens |
|---|---|
| `runtime_files` (`ActiveHasFiles`) | `addBinding` activates a package while its deployment is between `rename` and registration; the deployment then fails on the scheme and deletes the files of the active binding |
| `modbus_combined` (`CombinedAsAlone`) | two writes of one register are combined under a function that writes one: both succeed, one is lost |

The following were met while modelling. The models do what the code does, and
the properties name them as their exceptions; those against which the
repository says something are in `PROJECT.json` as findings.

- *Runtime*: after a `server.stop()` that rejects, a binding that is not loaded
  stays in `registeredBindings`; `removeBinding` over the server of the
  binding it removes waits for its own connection; one idle client of a TCP
  binding makes every `removeBinding` of it wait, as `readJsonLine` has no timeout.
- *Consumed Thing*: two calls to observe one property, the second while the
  first waits for the broker, are both established, and the entry of the first is
  lost. A form index with a scheme that has a client already makes a new client
  without security; the client of a factory that has been removed stays in the cache;
  an `op` that is a string is searched by `indexOf`, and so is an `href` for a
  scheme: a form can go to the client of another form whose scheme it mentions. `arrayBuffer()` after
  `value()` throws, and overlapping readers get a part, or wait for ever.
- *Exposed Thing*: `handleWriteMultipleProperties` writes nothing; emissions
  may reach observers in the order in which the read handlers settle.
- *Servient and servers*: of two WebSocket connections to an event only the
  first receives it. WebSocket servers offer forms for actions that they do not
  serve, and each `destroy()` frees the names of all their Things. An HTTP server
  forgets one name of a Thing that was exposed twice. A broker server gives the
  third Thing of a title the name of the second (and the second of title `lamp`
  that of a Thing titled `lamp_2`), does not decode topics, so that what is written to
  or invoked under an escaped title or name reaches nobody, and
  calls an action once for each exposure. A server removed before or during
  `start()` goes on listening; stopping a WebSocket server that shares an HTTP
  server never resolves; a Thing may be exposed after it has been destroyed.
- *HTTP*: the list of Things is always empty; `bearer` is never granted;
  `oauth2` is not chosen for a Thing that selects no scheme; tokens are
  introspected without credentials. A query that cannot be decoded ends the server's
  process, and so does a content that fails when all properties are read. After an
  hour a long poll loses its listener but stays open, and `stop()` waits for it. A
  source of server-sent events is rejected but goes on; a second subscription to an
  address replaces the first, and its end takes the entry of the other; a client whose
  first token request fails fails for ever; when the answer to a refresh is lost
  after the endpoint has rotated the token, every later refresh presents the used one.
- *CoAP server*: the callback of `finish` reads the message of an error that is
  absent, and so does the hour timer; `observe` = 1 registers a listener; an
  observer gets one notification at most; `finish` before its callback
  is attached leaves a listener behind. The name in a form's address is escaped twice and decoded once,
  so that forms of affordances whose names need it, or that have URI variables, lead to
  all properties or to nothing; nor is a title with a `:`, `@` or `+` found. A path or query
  that cannot be decoded ends the process.
- *CoAP clients*: `subscribeResource` never settles on an error before the response;
  `unlinkResource` does not end an observation; content that fails is an
  unhandled rejection of `invokeResource`, whose promise never settles; `stop()` closes the last agent only.
- *OPC UA*: of two subscriptions to a node at once one item leaks; ending one
  ends all; the same node at two endpoints is one item; after `stop()` a
  subscription joins an item that is dead; an item whose termination fails goes on
  for a subscription that has ended; `stop()` closes nothing when one
  connection fails.
- *NETCONF*: requests to a second host go to the first; overlapping first
  requests leave a router open.
- *M-Bus*: operations that failed stay in the queue. *Modbus polling*: a second
  subscription is refused, polls, and takes the place of the first; `stop()` of
  the client does not end polls.
- *TCP binding*: after a failed `start()` another one resolves without
  listening; `start()` while the server drains does nothing; a client waits for ever
  if the server ends before any answer, or its peer falls silent; and a client that
  sends nothing keeps `stop()` waiting.
- *Codec*: integers are signed by default, as `packages/core/README.md:32` says and the
  comment at `octetstream-codec.ts:35` denies; a value that is written with a swapped byte sequence is read as
  another one (`BYTE_SwAP`); integers of 3 bytes, fields at bit 0 and
  little-endian fields are outside of what is kept. A type that names its width
  without `ex:bitLength` is written into a longer buffer or at an offset, but not read from there
  (`octetstream-codec.ts:84`, `:118`). Shifts are modulo 32: integer fields of more
  bits (`:676`) and unaligned strings of 33 to 48 bits (`:698`) come out
  as others. Whole bytes are copied up to an end that lies too far (`:695`),
  so that the properties of an object must stand in their order in the buffer.

### Bounds, and why they are enough

- *Two overlapping invocations* show every order of the effects of two
  handlers; each conflict in the runtime is between two parties (one id, one
  scheme, one instance). The proofs have no such bound.
- *Two ids, three schemes*: one id twice (deployed again under another
  scheme) and two ids with one scheme. *Three instances*: two loaded bindings
  and one that is being set up while another invocation takes one down.
- *Two rejections of `stop`*: one leaves the stale entry, a second one
  shows that it does not get worse than counted. Only the overlap runs exclude them.
- *Three connection loops*: no `trigger()` of the instance is ever kept from
  beginning one by this bound. *Two attempts* make a first, a wait and a last.
  *Three issued of four requests* give every pair and triple, in every order:
  one in progress, one waiting and one that joins it.
- *Two clients* in `exposure`: one to hold a list, one to be removed out
  of it, at any place. *Two HTTP servers*: the form a request finds may be
  another server's. *Two forms per resource*: the first that matches is not
  the only one. HTTP servers of one type, clients and invocation slots are
  interchangeable, which makes their symmetry sound; no symmetric run has a liveness property.
- *Three calls* in `consumed`: two that open connections at the same time and
  one that comes before, between or after them, about the same affordance or
  the other; a subscription can be stopped again and again. *Two faults*: one
  for each of two calls, or two of one.
- `core`: two schemes make a choice; two calls of the Exposed Thing overtake one
  another; two chunks make a first part, and the third reader finds what
  two overlapping ones have left. The codec is checked on every exchange of
  `OctetCases`: values at the limits of 1 and 2 bytes, every byte sequence,
  lengths up to 4 bytes and offsets inside and at the ends of a byte, strings on
  both sides of 32 and 48 bits, objects of two and three properties in either order and
  one within another. The model itself has values of up to 30 bits, as TLC
  computes with 32, and objects two deep, which show all that is passed from one
  level to the next.
- `coap`: names collide twice (another Thing, the same one again), and each order
  of the two makes other names; the second
  request is a client that observes while the first one does anything.
- `servers`: two Things of one title, or of titles that clash on the broker; one of
  them exposed twice makes the third exposure; three calls are a
  start, one that overlaps it and one after them. `Apart` is the bound that
  keeps overlapping calls and Things apart: `expose()` and `destroy()` read and
  write registries, which no call does.
- `bindings`: one request to the HTTP server, of every kind and to a Thing of
  every kind of security (requests share no state); three HTTP calls and three
  tokens (two refresh one at the same time, one uses what they leave); two subscriptions
  at two addresses and two events; two OPC UA endpoints, two calls, three
  connections and one `stop()` (a call before and one during it); two hosts,
  three calls and two routers; three M-Bus operations (one under way, one
  waiting, one that joins it) and two attempts; two CoAP clients at one host
  and two calls of one client; two ids and three polls; one Thing at two
  addresses exposed again up to three entries, a line in two chunks.
- Deadlock is checked in the runs of `Runtime` and `ModbusConnection`. In the
  others processes can end, clients can be silent, or the calls of one behaviour are used up.

### Fairness

`Runtime`: `WF(Complete(r))` — every file operation, `start()` and `stop()`
settles, `stop()` of a TCP server only once its connections are gone (the guard
`Drained`). Nothing is assumed of clients: a connection need not be lost, and one
that says nothing (`occupied`) may stay. `AnsweredNatively` asks in its
antecedent that the latter leave in the end, because nothing in the code makes them.
`ModbusConnection`: `connectTCP` and the calls of the Modbus library settle
(they have timeouts), and the timer of `connectionRetryTime` fires. Nothing is
assumed of the device. `CoapServer` and `HttpRoutes`: handlers of the
application and the introspection of tokens settle; nothing is assumed of
notifications, nor that a client leaves; a server that has died does nothing. `Servient`:
sockets open or fail, those without connections close, and promises settle. That the
clients of HTTP servers leave is not assumed, since nothing makes a long poll end;
`StopsResolve` asks it in its antecedent. `HttpClient`: the first request of a
subscription is answered or fails (an event source opens or breaks), and a poll arrives.
`MbusConnection`: the timer of a retry fires and the library answers each
`getData`. `CoapClients`: content arrives or fails, and the library gives up a
request that is not answered. `TcpBinding`: what a peer that is not silent sends arrives,
handlers settle, and a server without connections closes. The other modules state no
liveness and assume no fairness.

## 4. What is proved

Every theorem is about all values of the constants that the named assumptions
admit; TLC evaluates these assumptions in the runs. A safety property is proved
from an inductive invariant, which TLC has checked as an invariant of the
property's run before.

| Module | Theorem | States |
|---|---|---|
| `RuntimeProofs` | `TypeCorrect` | `Spec => []TypeOK` |
| | `FactoriesOwned`, `ServersOwned` | `[]FactoryOwnership`, `[]ServerOwnership` |
| | `NoPortLeftBehind` | `[]PortsAccounted` |
| | `GivenBack`, `ListedOnce` | one invocation at a time: `[]NothingLeaks`, `[]RegisteredUnlessStopFailed` |
| | `IsStore` | one invocation at a time: `ImplementsStore`, the refinement of `BindingStore` |
| `ModbusProofs` | `TypeCorrect`, `RequestsPendingOnce` | `[]TypeOK`, `[]PendingOnce` |
| | `RegistersAsAlone` | requests for whole registers: `CombinedAsAlone`, an action property |
| `ExposureProofs` | `TypeCorrect`, `ListenOnce` | `[]TypeOK`, `[]EachListensOnce` |
| | `ReleasedAtClose`, `FoundOrRemoved` | `[]ReleasedOnClose`; `FoundUnlessRemoved`, an action property |
| `ConsumedProofs` | `TypeCorrect`, `EntriesLive` | `[]TypeOK`, `[]EntryIsLive` |
| | `StoppedAreSilent`, `AloneServed` | `[]StoppedIsSilent`, `[]AloneIsServed` |
| `ServientProofs` | `SilentAfterShutdown`, `NeverStartedAgain` | `[]NothingListensOn`, `[]ShutForGood` |
| | `FormsLeadBack`, `DestroyedGone` | `[]FormsLead`, `[]DestroyedIsGone` |
| `CoapProofs` | `FormsLeadToThings`, `ReleasedWhenFlushed` | `[]FormsAreServed`, `[]ReleasedOnFinish` |
| `CoreProofs` | `FormsFitClients`, `SecuredWhereUniform` | Consumed Thing: `[]FormFitsClient`, `[]SecuredOrKnown` |
| | `ObserversAreCurrent` | Exposed Thing: `[]LastIsCurrent` |
| | `WholeOneAtATime` | interaction data: `[]WholeUnlessOverlapped` |
| | `CodecKeeps` | octet-stream codec: `[]CodecExact` |
| `BindingsProofs` | `OnlyGrantedHandled` | HTTP routes: `[]HandledIfGranted` |
| | `RefusedOnlyDoubled`, `OpenIsActive` | HTTP client: `[]RefusedIfDoubled`, `[]ActiveIffOpen` |
| | `OpenCached`, `HeardWhileActive` | OPC UA: `[]OpenIsCached`, `[]HearsWhileActive` |
| | `RouterInUse`, `PolledWhileLinked` | NETCONF: `[]OneRouter`; Modbus polls: `[]PollsWhileLinked` |

### The runtime

The inductive invariant of `RuntimeProofs` is `IInv == Typed /\
InstancesDistinct /\ FactoryOwnership /\ ServerOwnership`. `Typed` adds to
`TypeOK` which locals of a handler are set at which await. Ownership is not
inductive alone: `removeClientFactory` and `removeServer` are told a scheme and
a server, and that these are still the caller's own follows from
`InstancesDistinct` — two loaded bindings, or a loaded one and one that a
pending invocation holds, never come from the same load. Loads are distinct
because a new instance is fresh (`FreshIsFresh`), and stay so because whoever
takes a binding out of `loadedBindings` does so before its first await.
`Register` and `Unregister`, which several handlers share, have lemmas of their
own (`RegisterEffect`, `UnregisterEffect`); then there is one step for each
action.

`PortsAccounted` needs of that only the types: whoever takes a port enters its
server in the same step or stops it, and a server leaves the Servient in the step that
begins its `stop()` (`PortsKept`, `PortsClosed`, `PortsUnregister`).

The last three theorems assume `Serial`: there is one slot of invocations. Their
properties are false of invocations that overlap, which `runtime_serial` leaves
out as well. `SInv` adds to `IInv` that what an invocation has found out holds until it
has finished (`Standing`), that the module cache, the files and the manifest
agree (`CodeOK`), and `Books`: each server, factory, port and list entry is that of
a loaded binding or of the invocation that is setting one up or taking one down.

Assumptions: packages are records of `PackageType` (`PackagesAssumption`),
native schemes are schemes (`NativesAssumption`), and the markers `None`,
`Native`, `Absent`, `Broken` are apart from what they stand beside
(`MarkersAssumption`, `RecordsAssumption`).

### Modbus

`PendingOnce` follows from `Placed`: with the transaction under way, each
pending request is in one transaction and no other one is in any. Every way a
request enters, leaves or is handed on (`Enqueued`, `Trigger`, `Closed`,
`GivenUp`) has a lemma that says what it does to that. `CombinedAsAlone` needs
that a transaction spans its requests and has their words in their places
(`Aligned`), and that after the device has answered it holds what was written, or
the answer is what it holds (`Executed`). It is proved under `WholeRegisters`: no request is
for coils or discrete inputs and none uses a function that writes a single
cell. The code does not keep the property without either condition: `modbus_combined`
shows the second, `PROJECT.json` names the first among the hazards. `MarkerAssumption`: `None` is no
transaction.

### Exposed Thing

`ExposureProofs` rests on the fact that `FormFor` and `MatchingForm` give the
same form to whoever observes and later unobserves, however many forms other
servers append meanwhile (`FormsOK`, `HttpForm` and the lemmas about them).
`ConnOK` says where a client is registered: a long poll nowhere before its
credentials are checked, and then under the form it has chosen and no other
one, until its callbacks have been called; a WebSocket under the first forms that
there are. `BrokersOK` says it of publications. In `FoundUnlessRemoved` a
callback that does not find its listener is that of a request or connection
which is itself `Unlisted`: the lemmas `PollFinds` and `SocketFinds` show of any
other that its listener is where it looks.

### Consumed Thing

The inductive invariant is `IInv == Typed /\ EntryIsLive /\ CallbacksMatch`.
`Typed` adds to `TypeOK` that a call that has begun is about an affordance.
`StoppedIsSilent` is not inductive: `stop()` takes the callback of its
affordance out of the pool, and that the call has no other one follows from
`CallbacksMatch`, by which a callback in the pool is that of a call about its
topic. `CallbacksKept`, `CallbackAdded` and `EntriesKept` say what a step may
do to callbacks and entries; every action is one of their cases. For
`AloneIsServed` the invariant is `AloneAt`: as long as calls about an affordance do
not overlap, no connection has been ended, one call at most is not over, and a callback
in the pool is that of the call that serves. The assumption is
`ConsumedAssumption`: properties are affordances, `None` is neither a call nor
an affordance, the bound on faults is a number.

### The core

The invariant of `ClientChoice` is about the cache: the client of a scheme that
is in it is of that scheme and, where the forms that mention the scheme all ask for the
security of the Thing and it can be set (`Uniform`), it has that security
(`CacheOK`). `ClientForOK` shows that `getClientFor` makes such a cache of such
a cache and chooses a client and a form that go together, whatever is asked for;
`readAllProperties`, which asks in two loops, follows by induction over their
length (`LookUpsOK`, `ReadingsOK`). A client is cached before its security is
set, and stays when that throws: that a form of the scheme could not be secured
either is `FailsAlike`.

`LastIsCurrent` follows from `Current`: unless a change is still to be emitted,
a handler has failed or an emission was overtaken, the newest emission under way
has the current value or has not looked at it yet, and when none is under way the
observers have heard it. Emissions are told apart by when they began
(`EmissionsOK`).

`WholeUnlessOverlapped` follows from `OneReads`: as long as no two calls
listen to the stream at once, the one that listens began before the first chunk,
and a stream that has ended is either used or has a reader that will say so.

`CodecExact` is about one write and one read: `CodecInv` says that `wire` is
what the value is written as and `got` what the wire is read as. The work is in
the lemmas. The value of a sequence of bits is related to `Bit` and `Two` by their
recurrences, and reading two's complement gives the number back
(`NumberOfTwosComplement`). Of each type of scalar, `IntegerField`,
`BooleanField`, `StringField` and `NumberField` show that its buffer carries the bits
of the value in its part and zeros everywhere else (`Written`, `Carries`), and that
whatever buffer carries them there is read as the value; the round trip (`ScalarBack`)
and the bits on the wire (`ScalarLaidOut`) follow. That second half does not
ask for zeros elsewhere, which is what objects need: by induction over the
properties (`PutFills`), copying one (`CopyIs`) puts its bits in their place, leaves what
was there before it, and leaves clear what lies behind it (`Filled`). The values are any integers of at most
30 bits and a sign, strings of any length, numbers, flags, and flat objects with any number of properties.
Objects within objects are modelled, but `Kept` promises nothing of them.

Assumptions: Thing Descriptions are what `IsThing` says, with finitely many
affordances (`ClientChoiceAssumption`), bounds are numbers, `None` is none
of the values read (`CoreAssumption`), and what is written is what `IsExchange`
says (`ExchangesAssumption`), which does not ask that value and schema fit
together.

### Servient

`LifeInv` says of every behaviour who starts servers, which of them can still
listen after they were removed, and that `shutdown()` is under way only once the Servient
was started; and of behaviours without overlaps `InOrder`: there is one
`start()`, then shutdowns, none of which finds a server under way and
each of which waits for all that are closing. The proof failed at first:
two calls of `start()` of a Servient without servers overlap, both are done, and a server
added after `shutdown()` is then started by the application. TLC found the
behaviour once it was given a Servient without servers. `overlap` had counted
only calls of `start()` during a `shutdown()`; it now counts two
of `start()` as well, which `NothingListensOn` names as an exception.

`ServesInv`, with `LifeInv`, is the invariant of the names. `IsReg`: a name is
an id or a title with numbers behind it and stands once in a registry.
`FormsServed`: each form of a Thing of the Servient has, on its server, an entry
of that Thing under its name, or a socket server, or a topic with a handler
(`WellServed`). That another exposure does not take a name over has a reason of
its own for each kind of server: an HTTP server looks for a free name of the
title (`UniqueFree`, a pigeonhole, as one more suffix is tried than there are
entries), and an id belongs to one Thing (`IdOwned`); a WebSocket server names
its socket servers after entries, which are free names too, until a
`destroy()` frees them (`SocketsNamed`); a broker server tries one suffix only, so
that its names are new for the first two exposures of a title (`TitlesCounted`,
over the counts in `history.titled`) and no longer, and only as long as no other title
with one of these names has been exposed (`Unrivalled`, `BrokerNameNew`). Its subscriptions are made
while its client is open, and only a second start replaces the client:
`StartedOnce`. For a server that joins, `AllOnGrows` follows the loop over all
Things by induction over its length.

`DestroyedIsGone` needs `IdsLast`: an HTTP server that has exposed a Thing once
has two entries of it at most, and the second is its id. `destroy()` deletes the
first entry and the id, hence all. A server that is added has
served nothing before (`Untouched`), and `Gone` carries the property on. Only the
WebSocket servers on the HTTP server of another one join when they are up
(`SharingOK`), which is why `addServer` does no harm to the others.

### CoAP server

`ServingInv`: each path in use belongs to one entry, what is listed is what is
in use, and each form of a Thing that is not destroyed is one of those under a path
of that Thing. That `createThingUrlPath` finds a free path is a pigeonhole
(`UrlPathFree`): one more suffix is tried than there are entries, and all make
different names. That a name is found again which needs no escapes is `NameKept`;
then each kind of form is followed through `handleRequest` (`MetaFormReached` and the
like). `CoapAssumption` excludes titles that make the path `/` or `core`,
with which requests for a Thing would go to the server itself.
`ReleasedOnFinish` is inductive with the types of the records.

### Protocol clients and HTTP routes

`BindingsProofs` has one invariant for each part of `MCBindings`. The least
obvious are those of the OPC UA client: a connection that can still be open and
was asked for before `stop()` is cached, and while `stop()` is under way it is on
the list of those to be closed (`ConnectionsInv`); an item that is live and has not been
given up is the one its node has, so that whoever ends a subscription next
terminates it for all whose handlers it has (`ItemsInv`).
`OneOpens` of the NETCONF client holds only until two requests overlap the opening of the router, and the
invariant says so. `TokensInv`: the credential's token is one that the
endpoint still accepts, or one the answer for which was lost; `SubsInv` relates the map
of active subscriptions to their stages.
`BindingsAssumption`: `None` is none of what it stands beside, the set of
endpoints is finite.

### Only model-checked

- Liveness, which is out of the prover's reach: `AnsweredNatively`, `Settled`,
  `Answered`, `StopsResolve`, `RequestsAnswered`, `PollsAgain`,
  `OperationsSettle`, `CoapRequestsSettle`, `TcpServes`; nothing is stated with
  `ENABLED`.

## 5. Plan

Every safety property that a run checks is proved.
Next are the actions of `Exposure`, `Interactions` and `InteractionData` in one
behaviour of one Thing, with the theorems of each carried over.

To be modelled: the composition of `Exposure` with a long-polling `HttpClient`
(what is lost between two polls); the security settings of the OPC UA client;
publishing over MQTT.

## 6. Not modelled

Formats (Thing Descriptions, JSON, CBOR, text, XML) and their validation; the
content of requests, where no property is about it; options of CoAP, TLS and
certificates, signatures; the file client, which makes one call for each
request; the WebSocket client, whose operations throw; the command line, which
starts what it is configured to; the presentation scripts. `PROJECT.json`
lists every component with its status.
