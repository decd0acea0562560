# OpenVMS in TLA+

OpenVMS is a video management system: a FastAPI backend (`src/backend/app`) in
front of one or more Frigate servers, with PostgreSQL, Redis and MQTT brokers
beside it, and a React front end (`src/frontend/src`).  The backend is one
asyncio process; every `await` is a point where another request, broker task or
timer may run.  The front end is one page at a time whose queries, mutations,
timers and sockets answer in any order.  Nearly everything that is hard in this
code happens at those two places, and it is what is modelled.

Contents: [Inventory](#inventory), [Plan](#plan), [Modules](#modules),
[Runs](#runs), [Proofs](#proofs), [Divergences](#divergences),
[Not modelled](#not-modelled).  `PROJECT.json` maps every definition to the
lines it stands for and names, for every property, a plausible bug that breaks it.

To repeat a run: `tlc -config X.cfg M.tla` with the module and cfg of the table in
[Runs](#runs); to repeat a proof: `tlapm M.tla`.

## Inventory

Backend:

| Component | State it keeps | Operations | Talks to | Hard behaviour |
|---|---|---|---|---|
| Frigate configuration editing (`services/frigate_config_service.py`, `services/frigate_service.py`, `api/v1/frigate_config.py`) | `frigate_config_history` rows, Redis caches; Frigate's memory, disk and go2rtc table | add, update and delete a camera, edit a global section, revert, go2rtc streams | Frigate over HTTP, PostgreSQL, Redis | read-modify-write over HTTP without a lock; failures half way; caches filled after an `await` |
| Event pipeline (`services/event_service.py`, `api/v1/events.py`) | `events` rows, Redis channel, dimension cache | MQTT message to upsert, publish and plugin dispatch; list, protect, delete | MQTT, PostgreSQL, Redis, plugins, Frigate | lost messages, stops between the steps, delete against protect |
| MQTT broker tasks (`services/mqtt_service.py`) | one task per server, back-off | start, reconnect, stop | brokers | reconnection, rows that change under a task |
| Server administration (`api/v1/servers.py`) | `frigate_servers` rows, pool of HTTP clients | create, update, delete, test, sync | MQTT tasks, client pool | a client closed while it is used; steps that fail after the commit |
| Plugin registry (`plugins/registry.py`, `api/v1/plugins.py`, `plugins/base.py`, `main.py`) | active plugins, `plugins` rows, frame subscriptions, in-flight frames | load, enable, disable, configure, dispatch events and frames | plugins, frame buffer | `await on_load` between the check and the change |
| Frame buffer (`plugins/shared/frame_buffer.py`) | one capture thread per stream, queues | subscribe, capture, stop | OpenCV, event loop | threads against the loop, bounded queues |
| Tracker (`plugins/shared/tracker.py`) | the tracks of the last frame | update, match | plugins | identity of tracks, reuse of ids |
| Alert service (`plugins/shared/alert_service.py`) | `events` rows, Redis channel | emit | plugins | one of three steps fails, the others go on |
| Analytic plugins (`plugins/enterprise/*`, `plugins/builtin/*`) | memories per track and camera, cooldowns, windows | `on_event`, `on_frame`, routes | events, frames, alerts | keys and resets of those memories |
| Export jobs (`services/export_service.py`, `api/v1/recordings.py`) | job record in Redis, files | create, run, poll, download | ffmpeg, Frigate | time-outs, expiry of the record |
| Sessions, server side (`api/v1/auth.py`, `services/auth_service.py`) | single-use refresh tokens in Redis | login, refresh, logout | Redis, PostgreSQL | several calls and tabs around one rotation |
| System settings (`services/system_config_service.py`) | rows, in-process TTL cache | get, set | PostgreSQL | cache filled after an `await` |
| Users, cameras, camera sync (`api/v1/users.py`, `cameras.py`) | rows | CRUD | PostgreSQL, Frigate | check then insert |

Front end:

| Component | State it keeps | Operations | Talks to | Hard behaviour |
|---|---|---|---|---|
| Sessions, browser side (`api/client.ts`, `store/authStore.ts`) | tokens in localStorage, a copy per tab, one shared refresh | call, refresh, logout | sessions | tabs that share a single-use token |
| Live event feed (`api/ws/events.py`, `hooks/useWebSocket.ts`, `hooks/useEvents.ts`, `store/eventStore.ts`) | socket, retry timer, the 300 newest events | connect, reconnect, push, history | Redis pub/sub, REST | timers and close events that outlive their socket; two sources of one list |
| Stream player (`public/video-rtc.js`, `public/video-stream.js`) | socket, peer connection, source buffer, reconnect timer | connect, play, hide, reconnect | go2rtc | handlers that act on whichever socket is current |
| Live wall (`pages/LiveView.tsx`, `store/cameraStore.ts`) | tiles, statuses per camera, counters, order in localStorage | layouts, drags, maximise, monitor, retry | the player in an iframe | two components under one key |
| Playback (`pages/Playback.tsx`, `components/playback/PlaybackView.tsx`) | one clock, one video per camera | play, seek, day, cameras | recordings | videos that lead the clock and videos that follow it |
| Lists (`pages/Events.tsx`, pages of the analytics) | rows, cursor | filter, load more, refetch, delete | events API | pages and refetches that answer in any order |
| Pictures (`components/events/EventCard.tsx`, `utils/snapshot.ts`) | blob URLs in the store | load, show, drop | snapshots | each arrival makes every card ask again |
| Editors of rules, zones, lines, faces, notifications (`pages/plugins/*`) | a copy of a list, a draft, an index | draw, edit, save | plugin configuration | whole lists written back from an old copy |
| Settings (`components/settings/*`, `pages/CameraWizard.tsx`) | forms, wizards, switches | edit, test, create, save | servers, cameras, users, plugins | answers that come after the form has changed |

How they meet.  A camera's Frigate publishes `frigate/events`; the broker task of
its server hands each message to the event service, which upserts a row, publishes
it on the Redis channel `vms:events` (from where the live feed takes it) and
dispatches it to the active plugins.  The frame buffer feeds the plugins' frames;
what a plugin finds goes through the alert service into the same table and
channel.  The configuration editor and every other route that talks to a Frigate
take its HTTP client from one pool, which server administration changes.  Every
page calls the API through one client, which renews the session; the live wall
embeds the player in iframes and reads the text it shows.

What makes each component correct, in one line each: an edit is applied whole or
not at all, recorded, and visible to readers in the end; an event that ends is
stored as ended, once, under its server, and announced; a request never uses a
client of a server that has changed; a plugin runs exactly as its row says; a
session lasts until its user ends it; an event is listed once and none is lost; an
object is called abandoned exactly when it has been alone long enough; an export
that is said to be done is a whole file; a player has one connection and comes
back; the wall counts the cameras that play; a list has no holes; and what an
operator entered is what is stored.

## Plan

The order went from what can do most harm (edits of a running Frigate) through the
paths every event takes to what only one screen sees.

1. `FrigateConfig` with the abstract `ConfigStore`, its runs, and its proofs. *Done.*
2. `EventPipeline`, `ServerAdmin`, `PluginRegistry`, `AuthSession`, `LiveFeed`,
   `Tracker` with `AbandonedObject`. *Done.*
3. The front end, which is the larger half of the repository: the player, the live
   wall, playback, the lists, the editors and the settings, with the export job and
   the pictures behind them; `Exchanges`, `Connections`, `PluginHost` and `FrontEnd`
   gather them. *Done.*
4. Proofs of the event pipeline, server administration, plugin registry, sessions
   and export jobs. *Done.*
5. Proofs of the rest of the safety properties: the order and the protection of rows,
   the streams of an edit, the live feed, the player and its face, the live wall,
   the lists, playback and drawing, the abandoned object analytic, and the forms, page
   by page. *Done: every safety property of a run is a theorem.*
6. Left to model: the track analytics (line crossing, people counting and loitering
   keep a memory per track), the frame buffer's threads, the alert service and the
   settings cache.

How modules compose.  `FrigateConfig` implements `ConfigStore`, and `StreamPlayer`
implements `PlayerFace`, which is what `LiveWall` takes an iframe for.
`AbandonedObject` extends `Tracker`.  `RuleEditor` takes from `RuleDrawing` only that
a draft can be drawn.  The others meet through what one promises and the other takes
as given: `LiveFeed` takes an event as announced once per update (`EventPipeline`),
`AbandonedObject` one frame at a time (`PluginRegistry!OneAtATime`), `FrigateConfig` a
client that is open (`ServerAdmin!SendsOpen`), every page an API call that is answered
(`Exchanges!CallsEnd`).  They share no variable but those; a product of whole
components would multiply their states and show nothing more.  The four gathering
modules are therefore a choice made at the start, not a product: a behaviour is about
one of the parts, and each is checked in full, under its own fairness, by one run.

## Modules

### FrigateConfig, ConfigStore

`FrigateConfig` is one Frigate server and any number of edit requests and cached
reads.  Frigate is `mem` (its running configuration), `disk` (`config.yml`) and
`go2rtc` (stream registrations); the backend is `recorded` (history rows), `cache`
(the two Redis keys) and the request records `pc`, `op`, `draft`, `todo`, `rd`.
`pc[r]` names the next HTTP or database call of request `r`, so an action is the code
between two awaits:

| Actions | Code |
|---|---|
| `Begin` | a request arrives, with or without save and streams |
| `Register`, `ReadConfig`, `ListStreams`, `Unregister` | the go2rtc calls and the GET of the configuration before an edit, with its 404 and 409 |
| `SetConfig`, `RejectConfig` | PUT `/api/config/set`: it replaces the configuration, or Frigate answers 422 |
| `SaveConfig`, `UndoRejected`, `RevertChange` | POST save; POST revert after a 422, or asked for by the operator |
| `RecordFailure`, `RecordSuccess` | the history row |
| `InvalidateConfig`, `InvalidateCameras` | the caches an edit drops, after the row |
| `CallFails` | an httpx, database or Redis error, which no `except` of the handlers catches |
| `CacheMiss`, `Fetch`, `Fill`, `Expire` | the cached reads of `frigate_service.py` and the TTL |
| `Crash`, `FrigateRestart` | the backend stops between two calls; Frigate reloads `config.yml` |

A configuration is the set of settings it holds, a setting a pair of the section it
sits in and the request that wrote it.  Requests write distinct settings, so the deep
merge is a union and a lost update is visible as a missing pair.  `ConfigStore` is
what the service promises: each change applies to the configuration as it is then,
a save persists it, a revert drops what was not saved.

External assumptions: `GET /api/config` returns the configuration in memory; a
restart of Frigate leaves the go2rtc table as it is (go2rtc restores it from the same
file); a call that fails before it reaches Frigate changes nothing.

### EventPipeline

`objects`, `width` and `queue` are Frigate and its broker: an object is seen, gets a
snapshot and a clip, ends (`Track`), and every change is a message to each connected
task, in order and at most once (QoS 0, one connection).  `job[s]` is the handler of the
broker task of server `s`, at the step it awaits: `upsert`, `dims`, `publish`,
`dispatch`
(`_handle_event`: `Receive`, `Upsert`, `GetDetectDims`, `Publish`, `DispatchPlugins`);
`rows` is the table `events` keyed by
`frigate_event_id`, with its unique constraint and its `ON CONFLICT` columns;
`dims` the process-wide dimension cache; `request` the delete, protect and unprotect
routes between their check (`Load`) and their commit (`CommitDelete`,
`CommitProtection`).  Faults, each switched by a constant:
a task is disconnected and misses messages, Redis fails between commit and publish,
the backend stops, the fetch of the dimensions fails, the resolution is edited.

### ServerAdmin

`rows` is the table, `pool`, `built`, `closed` the pool of HTTP clients, `task` and
`brokerUp` the broker tasks, `request` the routes.  `update` is load, close the pooled
client (an await, the client still pooled), drop it, commit; `delete` the same up to
the `NameError` that ends it; `use` any route that takes the client and sends.
`servers.py` never imports `mqtt_service`: `create` and `update` fail after their
commit, `delete` before it, and tasks are started by `main.py` only.

### PluginRegistry, Tracker, AbandonedObject, PluginHost

`PluginRegistry` is one plugin, as plugins are keyed by name and never meet in the
registry.  `row` is the
database, `active`, `subs`, `inflight` the registry, `config` and `tasks` each
instance's own, `request` the enable, disable and configure routes between their
awaits (`commit`, `load`, `unload`, `reload`), `frame` and `calls` the dispatch of
frames with the in-flight mark.  `Init` is what `load_all` leaves.

`Tracker` is a pure module: the nearest track within reach takes a detection, else it
gets one more than the number of tracks as its id; tracks without a detection are
forgotten.  `AbandonedObject` applies it to frames: `object[id]` is `ObjectTrackState`
with the positions that are still read, its state, the seconds unattended and the
seconds missing.  A frame is one action, of every possible scene; clearing an object
by its route and unloading the plugin are the others.  `PluginHost` gathers the two.

### AuthSession, EventMedia, ExportPage, Exchanges

`AuthSession`: `valid` is the set of unrevoked tokens in Redis, `refresh` and `access`
are localStorage, shared by the tabs; `store`, `flight`, `call`, `out` belong to a tab:
the copy of the token in its store, the shared `refreshPromise`, its API calls, its
logout.  A token is the second it was minted in: the JWT has no other claim that
differs, so two tokens of one second are one string, and the model keeps that.

`EventMedia`: `face[v]` is what a card, a pop-up or a thumb shows or waits for,
`cached` the store's `blobUrls`, `astray` the answers whose component has gone or asked
again.  A card's effect depends on all of `blobUrls`, so every `Arrive` drops the
requests of the waiting cards and starts them again.

`ExportPage`: `modal`, `told`, `poll` are the dialog and its query; `record` is the
Redis key, `task` and `ffmpeg` the asyncio task and the process it waits for at most so
long, `file` what ffmpeg has written.  `Timeout` fails the job and leaves ffmpeg
running, as the code does.

`Exchanges` gathers the three: everything that is asked for until it has an end.

### LiveFeed, StreamPlayer, PlayerFace, Connections

`LiveFeed`: `socket[s]` is a WebSocket object with its handlers, from `connecting` to
the close event still to run (`closing`) and the timer it sets (`retry`); `current` and
`timer` are the refs the hook's cleanup uses, `alive` its closure variable (one per
mount, so a close event that runs late reads the value of the new effect), `token` the
access token, `list` the store, `page` the answer of the one history request.

`StreamPlayer` is the custom element of `video-rtc.js` as `video-stream.js` extends it:
`ws`, `wsState`, `pcState` and `reconnectTID` are its fields, `socket[s]` the browser's
sockets, `ms`, `sb`, `buf` the media source, its buffer and the 2 MB array beside it,
`peer` the peer connection, `text` the `.mode` element.  A handler does not know which
socket called it and acts on `this.ws`; that is kept.  `setup` is how the element was
made: its modes, which of them comes first and whether it plays in the background.
`PlayerFace` is what its text does, and all that `LiveWall` relies on.

`Connections` gathers the player and the feed: what a tab keeps open.

### LiveWall

`listed`, `order`, `layout` and `stored` (localStorage) give the tiles; `stream[x]` is
one `Go2RTCVideo`: its state, whether its iframe is mounted, its monitor (`watch`) and
what the iframe shows; `status` and `count` are `cameraStore`.  A tile and the maximised
view of a camera are two streams that write one status.  `Render` is a part of every
action that changes what is shown, mounting and unmounting what React would.

### The pages: FrontEnd

`FrontEnd` is `App.tsx`: one page is visited, and in the settings one panel.  Each is a
module of its own with the routes it calls and the other operators who call them:

| Module | Page | State |
|---|---|---|
| `EventsPage` | `pages/Events.tsx` and the keyset query behind it | `rows`, `items`, `cursor`, `first` and `more` (the two requests), `filter` |
| `PluginPages` | the six lists of detections | `items`, `cursor`, `choice` (what a select asks for and keeps); smoke and fire merge two queries |
| `PlaybackPage` | playback of a day | `clock`, `video` (segment and position per camera), `chosen`, `loading` |
| `RuleEditor` | rules of line crossing and loitering | `fetched`, `draft`, `editing` (an index), `puts` |
| `RuleDrawing` | drawing a rule | `points`, `placing`, `dragging` |
| `CountingLines` | lines of the people counter | `lines`, `dirty`, `phase`, `pending`, `put` |
| `NotificationRules` | notification rules | `rules`, `editing` (an index), `puts` |
| `FacesPage` | faces | `known`, `unknown`, `selected`, `appearances`, `calls` |
| `SettingsForms` | dialogs of servers, cameras and users, system settings | `listed`, `open`, `form`, `base`, `save` |
| `CameraPlugins` | the plugins ticked for a camera | `shown`, `boxes`, `puts` |
| `ServerWizard`, `CameraWizard` | the two wizards | the step, its fields, the tests and calls under way |
| `ConfigEditor` | a plugin's configuration as form, JSON text and Telegram form | `formValue`, `raw`, `tgCfg`, `rawMode` |
| `PluginsPanel` | the switches of the plugins | `shown`, `calls`, `query` |
| `ZoneWizard` | the zones of a camera | `zones` (panel), `local` (canvas), `storage` |

A query is idle, under way, or answered and not yet taken, so that a change may fall on
either side of what the server read; focus refetches and failures are actions.  A form of
many fields is one field that is shown and one that the list never carries.

### History variables

`erased`, `feed`, `deleted`, `heard`, `alone`, `steady`, `meant`, `began`, `typed` and
the like remember what happened so that a property can refer to it.  `overlapped`,
`troubled`, `disturbed`, `again`, `mixed`, `blurred`, `raced`, `hasty`, `strayed`,
`behind`, `late`, `missed`, `dropped`, `retyped`, `lapped` and `closedBig` say that
something happened after which the code promises no more: two requests overlapped, an
`on_load` raised, a PUT was made of an outdated list.  No guard reads a history
variable but two bounds: `RuleEditor` and `NotificationRules` send nothing after a
hasty change.  What the code does after such a mark is under [Divergences](#divergences).

## Runs

"Distinct" is the number of distinct states.  Every run is expected to pass.

| Run | Module, cfg | Checks | Distinct |
|---|---|---|---|
| config_concurrent | `MCFrigateConfig`, `FrigateConfigConcurrent` | `RejectedLeavesNoTrace` with every kind of edit and every fault, two edits and a reader overlapping at will | 1,423,254 |
| config_serial | `MCFrigateConfig`, `FrigateConfigSerial` | one edit at a time, three in a row, with faults: `SavedDurable`, `StreamsInPlace`, and that the chain of calls implements `ConfigStore` (`ImplementsStore`) | 1,193,301 |
| config_live | `MCFrigateConfig`, `FrigateConfigLive` | a cache is the configuration again in the end (`EventuallyFresh`), `EveryEditEnds` | 34,588 |
| pipeline_faults | `MCEventPipeline`, `EventPipelineFaults` | `RowAttributed`, `AnnouncedStored`, `EndKept`, `ProtectedKept` under every fault and every route | 341,340 |
| pipeline_live | `MCEventPipeline`, `EventPipelineLive` | without faults: `CaughtUp`, and the liveness `FinishedStored`, `StoredAnnounced` | 21,284 |
| servers | `ServerAdmin`, `ServerAdmin` | the pooled client is the one of the row (`PoolFresh`), no closed client is used (`SendsOpen`), until two requests overlap; `Reconnects` | 103,842 |
| plugins | `MCPluginHost`, `PluginHost` | `OneAtATime` always, `AsStored` until requests overlap, `FramesKeepComing`; and of the analytic `ToldRight` and `RemovedTold` | 198,338 |
| auth_session | `AuthSession`, `AuthSession` | two tabs with two calls each, and lost answers: `Renewable`, `SessionKept` until one is lost or both tabs refresh at once | 239,040 |
| exchanges | `Exchanges`, `Exchanges` | sessions with logins, logouts, page loads and lost answers (`CallsEnd`); pictures (`CardsShow`); exports (`DoneIsWhole`, `ExportEnds`) | 180,969 |
| live_wall | `MCLiveWall`, `LiveWall` | `CountRight`, `TileTold`, `ComesOnline`, and that the page never stops | 90,711 |
| connections | `Connections`, `Connections` | the player (`OneConnection`, that it implements `PlayerFace`, `ComesBack`) and the feed (`ListedOnce`, `Delivered`, `Reconnected`) | 244,190 |
| front_end | `MCFrontEnd`, `FrontEnd` | every page and panel: `NoSkip`, `FormsHold`, `PassesAll`, `DragsOne` | 979,811 |

What each property says stands above its definition.  `FormsHold` is one property of
many parts, as the pages follow one pattern (a copy of a list, edited and written back)
and may fail in one way; [Variants](#variants) has one plausible bug for each part.

### Bounds

*Configuration:* two overlapping edits are enough for every pairwise
race, and the third serial edit for an undo between two others; one camera is
enough as edits of different cameras still share one configuration, and the global
section is a second key.  Two streams (main and sub) let a registration fail half way.
*Pipeline:* `MaxUpdates` 2 gives an object four messages, so an update can fall on
either side of a delete and of its `end`; a second server is there to own the camera
or not.  With two objects and no faults the liveness run has both tasks at work.
*Servers:* two requests, and `MaxClients` 2 clients, so one is built after another is
closed; `MaxAttempt` caps the back-off counter, whose value only sets a delay.
*Plugins:* two instances and two background tasks of one, so that an instance can be
replaced and a load repeated; a camera that one configuration wants and the other not.
*Abandoned objects:* two spots out of reach of each other, scenes of up to two objects
in either order (two on one spot included) and one person; `Persistence` 2,
`Abandoned` 2, `Stale` 2 and `Removed` 1 keep every threshold reachable and distinct, and
frames one or two seconds apart let a removal and a clearing fall due together.
*Sessions:* `MaxClock` seconds bound the tokens minted; four let two rotations follow
each other in each tab.  *Pictures:* a card, and a pop-up and a thumb of another
picture: an arrival between a card's two requests needs no more.
*Exports:* one restart of the backend, exports one after the other.
*Feed:* `MaxEvents` 3 over `Shown` 2 pushes an event out of the
list, `Page` 2 of three rows leaves one behind, `MaxQueue` 1 still lets an event wait
behind a close.  Two sockets are what a late close event can produce.
*Player:* the three setups of the pages (embedded, in the open with WebRTC, without
MSE), two sockets, a `Cap` of one chunk beside the buffer, a `Window` of one chunk kept
and a `Quota` of three, so that the buffer is full before it is cut.
*Live wall:* two cameras and layouts of one and two, so that a tile is dropped and taken
up; `Batch` 1 tile is mounted at once, the other by its timer; one closing timer.
*Lists:* two rows a request (one in `EventsPage`) of at most three rows, six detections
of four kinds.  *Playback:* a day of twelve half seconds with two gaps, one of them in
one camera only, and a timer that may skip `Stride` 2.  *Editors:* one or two rules, a
second operator who changes one, two contents; a polygon of three points with a fourth;
`MaxSaves`, `MaxCalls`, `MaxPresses`, `MaxEdits`, `MaxChanges` and `MaxErrands` bound how
often something is sent: one or two overlapping calls, so that answers meet.

### Fairness

Weak fairness of a request's next step: httpx has a 10 s time-out
(`frigate_service.py`), the database and Redis answer or raise, and the event loop
runs every ready task.  Of `Expire` (configuration): Redis drops a key at its TTL.  Of a
broker task: its loop catches everything but cancellation and its sleep is at most
60 s.  Of a frame: `on_frame` is cut off by a 20 s time-out.  Of a socket's next event:
the browser runs close events and timers.  Of an export's task: ffmpeg is waited for so
long and no longer.  *Strong* fairness is given to three things only, each the
condition of its property: go2rtc accepts a connection if the player tries again and
again (`ComesBack`); of a tile's attempts, in one the player plays before the monitor,
which looks every half second, gives up (`ComesOnline`); and of the requests for a
status, one is answered (`ExportEnds`).  No fairness
is given to users, to Frigate's messages, to brokers coming back or to tokens being
accepted; properties that need those say so in their antecedent (`Reconnects`,
`Reconnected`, `FinishedStored`).

**Symmetry** is used in the safety runs of the configuration only: requests, and
readers, are interchangeable there, and no action tells them apart.

**Deadlock** is checked for the live wall, where something can always happen.  Each of
the other systems may stop for good when its users do and its bounds are used up.

## Proofs

Eight modules, checked by tlapm for every value of the constants.  The assumptions are
the named ones of each module (`ConfigAssumption`, `Parameters`): names of different
kinds are different, bounds are numbers, the sets counted by `Cardinality` are finite, and what is
stored when a page is opened has the shape of its rows, each told apart by its id
(`ToldApart`, `Listed`, `Filled`, `Numbered`, `OfEach`).  Where a theorem has a hypothesis of its own it is given.

| Theorem | Says |
|---|---|
| `FrigateConfigProofs!TypeCorrect` | `Spec => []TypeOK` |
| `NoTrace` | `Spec => []RejectedLeavesNoTrace`, edits overlapping, every fault |
| `SerialImplementsStore` | one edit at a time and no restart in the middle: `Spec => ImplementsStore` |
| `SerialSavedDurable`, `SerialStreamsInPlace` | under the same assumption: `Spec => []SavedDurable`, `Spec => []StreamsInPlace` |
| `EventPipelineProofs!TypeCorrect` | `Spec => []TypeOK` |
| `AnnouncedIsStored` | `Spec => []AnnouncedStored`, every fault and route |
| `RowIsAttributed`, `EndIsKept` | unless servers share a broker: `Spec => []RowAttributed`, `Spec => EndKept` |
| `ProtectedIsKept` | with one request at a time: `Spec => ProtectedKept` |
| `RowsCatchUp` | with neither lost messages nor stops: `Spec => []CaughtUp`, also with a shared broker |
| `ServerAdminProofs!PooledClientIsFresh`, `SendsThroughOpen` | `Spec => []PoolFresh`, `Spec => []SendsOpen` |
| `PluginHostProofs!OneInstanceAtATime` | `Spec => []OneAtATime`, requests overlapping |
| `RequestsAreStored` | `Spec => []AsStored` |
| `RemovedIsTold` | `Removed <= Stale => (HostSpec => RemovedTold)` |
| `AbandonedIsToldRight` | `Persistence >= 2 => (HostSpec => []ToldRight)` |
| `ExchangesProofs!SessionIsKept`, `SessionIsRenewable` | `Spec => []SessionKept`, `Spec => []Renewable` |
| `DoneFilesAreWhole` | `ExchangeSpec => []DoneIsWhole` |
| `ConnectionsProofs!PlayerHasOneConnection` | `Spec => []OneConnection` |
| `PlayerImplementsFace` | `Spec => ShowsFace`: the player implements what the live wall takes it for |
| `EventsAreListedOnce`, `EventsAreDelivered` | `Spec => []ListedOnce`, `Spec => []Delivered` |
| `LiveWallProofs!CountIsRight`, `TileIsTold` | `Spec => []CountRight`, `Spec => []TileTold` |
| `FrontEndProofs!DragMovesOne` | `Spec => DragsOne` |
| `NothingIsPassed` | `Playback!Unhurried => (Spec => PassesAll)` |
| `NothingIsSkipped` | `Spec => []NoSkip`, of the events and of each analytic |
| `WhatIsEnteredIsKept` | `Spec => []FormsHold`, all eleven pages and panels that edit |

*`NoTrace`.*  The property talks of where a failed request's setting may be, and a
failed request got there by a rejected PUT.  The inductive invariant adds the two facts
that connect them: `OnlySent`, a setting is in Frigate, in a cache, a reader or another
request's copy only when its author is past its PUT; and `FailureRejected`, a
failure row belongs to a request that ended as rejected, which is not past its PUT.
That the setting never leaves the request's own copy before the PUT is what makes it
inductive, with copies being taken by others all the time.

*`SerialImplementsStore`.*  An edit changes the store at its PUT, by what it read calls
earlier.  The refinement holds because the copy is still the edit of what Frigate
has: `DraftFresh`, kept by `Alone` (nobody else is at work) and `KindSteps` (which
steps a kind of edit can be at).  Each action is then mapped to one of `Put`, `Remove`,
`Save`, `Revert` or a stutter.  `OneAtATime` is `~Concurrent /\ "restart" \notin Faults`:
without either, [Divergences](#divergences) shows a lost update.
*`SerialSavedDurable`* adds `Followed`: a saved change is in memory and on disk, or
a delete of its camera has been sent after it, in every step from its save on.
*`SerialStreamsInPlace`* adds `StreamsReady`, which begins at the first registration: of
the streams of a camera being added, those not still to be registered are in go2rtc with
the URL of this request.

*`AnnouncedIsStored`.*  A handler announces the row it committed two awaits earlier, and
the row may be deleted in between: `AnnounceInv` says that a handler past its commit
holds an id that is `Known`, in the table or recorded as erased, and `KnownStays` that no
step takes that away.  *`RowIsAttributed`*: what is in a server's queue and its handler
is about its own cameras (`Own`), so the insert, which alone sets the server, does.

*`EndIsKept`.*  The upsert writes `end_time` and `has_clip` of whatever message it
handles, so nothing in it keeps them; the order of the messages does.  `OrderInv` makes a
chain of the row, the message in the handler, the messages in the queue and Frigate's
object, along which an end or a clip is never taken back; a broker of its own is what
puts all messages of an object into one queue.  *`RowsCatchUp`* follows the chain from its
other end (`LatestInv`): the last message of an object in a queue says what Frigate knows,
so does the one in the handler when none waits behind it, and so does the row when none
is left; a message of an object once stored is never skipped, as its snapshot stays.
*`ProtectedIsKept`*: a delete between its check and its commit has read a row that is
still unprotected (`DeleteInv`).

*`PooledClientIsFresh`, `SendsThroughOpen`.*  While a request is changing a server, its
pooled client is stale or closed; every other one is `Good`, which needs that no client
is pooled twice (`Apart`), and `Holds` says what the request knows at each await.  The
invariant is that of runs where no two requests overlapped; the run shows what the
overlap breaks.

*`OneInstanceAtATime`* holds although requests overlap: a subscription replaces the one
before, and a camera with a call under way is in `inflight` (`Marked`), so it gets no
second one.  *`RequestsAreStored`* follows one request from its commit through `on_load`
or `on_unload` (`OneByOne`): between two awaits row, registry and subscriptions differ in
exactly what this request still has to do.

*`RemovedIsTold`.*  `TInv` is the type of the tracks and of what is kept of each object, in which
one in state REMOVED has been reported.  What remains is the order within `Missing`,
through every frame and every number of detections taken for one object (`Shown`, a
recursive function, by induction inside the lemma `ShownSteps`; the loop over the
detections is `UpdateSteps`).
The hypothesis is not true of the defaults, 15 s and 8 s: see
[Divergences](#divergences).

*`AbandonedIsToldRight`* is three properties of one invariant, `TInv /\ AloneInv /\
SteadyInv`.  While nothing is blurred, tracks are numbered in their order (`Ordered`), so
that detections which are apart get a track each (`Placed`, one detection after the other
in `PlacedStep`) and a new track an id that no other has: `Apart`.  Then what is known of
an object is true of its place (`Watched`): the seconds it has been counted as alone are no
more than those since a frame showed somebody near it, which makes `AloneWhenAbandoned`;
`KnownWatched` shows that a frame keeps it, whoever walks where.  For `InTime`, `SteadyInv`
follows the only object through the frames in which it is all there is (`Lasts`): after
`n` frames its last `n` places are this one and, once static, it has been alone for
`n - Persistence` seconds at least.  Two frames of persistence are needed: with one, an
object that moves is static at once and keeps its time.  With `Persistence = 1`, `Places =
0..4` and `Abandoned = 3`, TLC finds one that moves in two steps to a spot that was attended two
seconds before and is called abandoned there.  The default is 8 and the schema's minimum
1 (`abandoned_object/plugin.py:594`).  `blurred`, after which nothing is promised, is:
two objects close to each other, two people taken for one, or a track lost while another
object is shown or known.

*`SessionIsKept`, `SessionIsRenewable`.*  `Awaits` says of the one refresh under way what
the token it was sent is worth at each await; only between the revocation of one token
and the storing of the next does the browser keep one that the server does not accept.
"Undisturbed" is: no login, logout, page load or fault, and never two tabs refreshing at
once.

*`DoneFilesAreWhole`.*  A file is begun anew only by a task whose record, and what the
dialog heard of it, is not at its end.

*`PlayerHasOneConnection`.*  `SocketInv`: a player as the live view sets it up
(`background`, no WebRTC) uses no socket but the one it knows and never takes that one
for closed (`SimpleKnows`), so it begins none beside it; any other does as long as none
was begun before the last close event (`AloneInUse`).  *`PlayerImplementsFace`* maps
each action of the player to a step of `PlayerFace` or a stutter by what it does to the
text, of which an element that is made always has one (`FaceInv`).

*`EventsAreListedOnce`, `EventsAreDelivered`* have one invariant, `FeedInv`: the properties
themselves with the types of queue and list.  The work is in the lemmas about the list:
what a push, the page of the history and the cut to `Shown` keep, add and drop
(`CutKeeps`, `CutListedOnce`, `CutDelivers`, `PushStep`, `AppendStep`).

*`CountIsRight`.*  The counter is changed by increments in one setter, counted anew in
another and lowered with a floor of zero in a third: the lemmas `SetStatusCounts`,
`ClearStatusCounts` and `FirstCounts` show that each leaves the number of cameras
online.  *`TileIsTold`*: only the maximised camera has a maximised view (`BigOnly`), and
a tile that is rendered, retried or told writes the status it has.

*`DragMovesOne`.*  While a corner is dragged no click is owed to the form
(`NothingPlaced`), so that the only assignment is the one at the dragged index.

*`NothingIsPassed`.*  No video is past the end of its segment (`PlayIInv`), so the one
that leads takes the clock no further than a second beyond it, and where no camera has
a segment the clock jumps to the first that begins later (`JumpsToNext`: a least
element, by well-founded induction).  `Unhurried` is that no segment is shorter than a
second or than what the timer may skip: it is called every 500 ms unless the browser
throttles it.

*`NothingIsSkipped`.*  A page is the newest rows of a set down to its cursor (`PageIs`,
from `LargestFirst`: the n-th largest has n - 1 above it, and an injection of the rows
into their ranks finds one for each n).  The invariants (`ListInv`, `FoundInv`) say so of
the list down to its cursor (`Listed`), and of an answer to "load more" that it begins
right below (`Follows`), as long as no two answers have met; a new row is above both
(`Grown`), a deletion only takes away (`FilteredListed`), and the two make one list
(`Joined`).  Where two labels are merged, what each request gets is consecutive among
the rows of its label (`HalfIs`), and stays so in the newest of both (`MergedIs`),
since no row has two labels.

*`WhatIsEnteredIsKept`.*  Eleven pages and panels take what is typed in, most of them
into a copy of what is stored that is written back whole; each has an invariant of its
own, and `SettingsInv` and `PageInv` gather them.  Three arguments carry all.
(1) *What is entered stays in the form*: a field that was not typed in still has what it
was filled with, so that a PUT changes what was typed and no more (`FormInv`); what the
editor shows, as a form or as text, is what was typed last, in both of its parts unless
each was typed in another view (`InForms`); the steps before the one that is shown are
valid, and a server has answered before its wizard gets that far (`CamInv`, `WizardInv`).
(2) *The copy is what is stored*: while nothing that was changed is unanswered, and no
answer was lost or too old, a list that has come, and one on its way, is what the server
has.  `SwitchInv`, `NoteLists` and `FaceLists` say it of an answer as well as of what is
shown; "no answer waits" (`Answerless`) is what makes them inductive, since between a
change and the fetch that its answer asks for the list is old.  Of the lines of the
counter, `LinesLike` says which of three things a clean list may be.
(3) *A change of the copy is the change that was meant*: `RulesMeant` and `NotesMeant` say
that rules are told apart, that what is stored is what is meant, and the same of every
PUT under way; and `DraftOf` that the draft is of the rule at its index.  The lemmas
`AddedRule`, `EditedRule` and `DeletedRule` (`NoteAdded`, `NoteEdited`, `NoteDeleted`)
compute the set of rules after a change of the list by index: a new id is below all
others, an edit keeps its id, and a list without its i-th element (`RemovedIs`, `Without`)
has the others and no rule twice.
The face that is selected when the chosen one has gone is the greatest of a finite set
(`GreatestIs`, from the ranks of `NothingIsSkipped`), which is why `ProfileInv` always
finds it in the list.

Model-checked only: the liveness properties (`EventuallyFresh`, `EveryEditEnds`,
`FinishedStored`, `StoredAnnounced`, `Reconnects`, `FramesKeepComing`, `CallsEnd`,
`CardsShow`, `ExportEnds`, `ComesOnline`, `ComesBack`, `Reconnected`), which are outside
what this version of TLAPS proves, as are ENABLED, induction with the library's theorems
that take an operator and anything reached by a RECURSIVE operator.

## Divergences

Where the code does something else than a document, comment or test of the repository
says.  Each is stated as a property in the module; to see it violated, take the cfg of
the last column with the changes given and the property as its only INVARIANT (or
PROPERTY, where it is one of actions).  TLC finds each in seconds.

| Says | Does | Property |
|---|---|---|
| "On error: revert with POST /api/config/revert, record the failure." (`frigate_config_service.py:12`) | only a 422 is handled; any other error leaves the change applied and unrecorded (`:217`) | `ErrorUndone` (F) |
| "Always record in frigate_config_history — both success and failure." (`:11`) | a stop between PUT and commit leaves a change without a row (`:279`) | `ChangeTracked` (F) |
| "Invalidate Redis cache after every successful write." (`:13`), "El caché se invalida automáticamente al realizar operaciones de escritura" (`docs/frigate-integration.md:326`) | an update drops the configuration but not the cached camera list (`:283`) | `CachedCamerasFresh` (F) |
| the same | a reader that fetched before the write fills the cache after the invalidation (`frigate_service.py:333`) | `CachedConfigFresh` (F) |
| "Correct flow: get_config() → mutate → config_set() → config_save()" (`frigate_service.py:139`) | nothing keeps two such flows apart: the second PUT drops the first change (`:256`) | `SavedDurable` (F) |
| "must happen before camera config references them" (`:158`, of the go2rtc streams) | a delete removes the streams before the PUT that may be rejected: the camera stays without them (`:311`) | `ConfiguredCameraHasStream` (F) |
| "Guard against duplicate" (`:166`) | the streams of the existing camera are replaced before the guard is reached (`:159`) | `RefusedChangesNoStream` (F) |
| one central broker with a prefix per site (`docs/deployment.md:470`) | every task subscribes to the same topics, `frigate/+/events` among them: each event is taken by every server's task, the row goes to the first (`mqtt_service.py:32`) | `RowAttributed` (E) |
| "Cannot delete a protected event" (`api/v1/events.py:254`) | an event protected while its delete awaits Frigate is deleted | `ProtectedKept` (E) |
| "normalized 0-1" (`event_service.py:276`) | a failed fetch is cached as 640x360 for good, boxes go beyond 1 (`:104`) | `Normalized` (E) |
| servers can be created, updated and deleted (`PHASES.md:64`) | `servers.py` does not import `mqtt_service`: a delete ends in a NameError before the DELETE (`:138`) | `DeletedGone` (S) |
| "Start MQTT task for a newly created or updated server." (`mqtt_service.py:68`) | the same error after the commit: the old task goes on with the old address (`servers.py:124`) | `ListensToRow` (S) |
| "Cleanup when the plugin is disabled or the server shuts down." (`base.py:42`) | a configure runs `on_load` again, `on_unload` cancels the newest background task only (`camera_sabotage/plugin.py:47`) | `DisabledRunsNothing` (P) |
| "Limpieza al deshabilitar el plugin." (`OpenVMS2.md:1374`) | a plugin disabled while its enable awaits `on_load` ends active (`plugins.py:220`) | `DisabledNotActive` (P) |
| "List of camera_name to subscribe for on_frame() analysis" (`base.py:54`) | loops are started once: a camera first subscribed to later is never read (`main.py:83`) | `SubscribedCameraRead` (P) |
| "Detección profesional de objetos abandonados, removidos" (`abandoned_object/plugin.py:61`) | with the defaults an object is forgotten after 8 s, and its removal is due after 15 s: `removed_object` is never emitted (`:125`) | `RemovedTold` (R) |
| "refresh automático en respuestas `401`" (`PHASES.md:156`) | two tabs refresh with one token; the loser clears the tokens the winner stored (`client.ts:54`) | `SessionEndsByLogout` (A) |
| "POST /api/v1/auth/logout → Invalidar refresh token" (`README.md:243`) | the store's copy, older than localStorage's after a rotation, is sent (`authStore.ts:92`) | `LogoutRevokes` (A) |
| "Local session is cleared even if server-side revoke fails." (`authStore.ts:97`) | a refresh that answers after the logout stores its tokens (`client.ts:50`) | `LoggedOutStays` (A) |

F: `MCFrigateConfig` with `FrigateConfigConcurrent.cfg`,
`Kinds = {"add", "update", "delete"}`, `Faults = {"reject", "http", "crash"}`.
E: `MCEventPipeline` with `EventPipelineFaults.cfg`, `SharedBroker = TRUE`,
`Faults = {"fetch"}`, `Requests = {r1, r2}`, `MaxUpdates = 1`,
`Operations = {"delete", "protect"}`.
S: `ServerAdmin.cfg` as it is.
P: `MCPluginHost` with `PluginHost.cfg`, `Cameras = {c1, c2}`, `Wants <- FirstAndBoth`.
R: the same with `PluginHost.cfg`, `Stale = 1`, `Removed = 2` (the order of the defaults).
A: `AuthSession.cfg`, `Operations = {"logout"}`.

### What the pages do not promise

The properties of the pages have exceptions, and each exception is a stronger property
that the code does not have; it stands at the end of its module under "What the code
does not do".  To see one, write `EXTENDS MCFrontEnd` and a name for it
(`P == Wizard!AlwaysTested`) and use `FrontEnd.cfg` with `P` alone (`MCLiveWall`,
`Connections` and `Exchanges` for the last ones).

| Property | What happens |
|---|---|
| `List!OfFilter`, `List!Answered` | a page asked for under the old filter is appended to the new list; a search for what is listed already empties the list and asks for nothing |
| `Found!OfChoice`, `Found!Reaches` | smoke and fire: a late answer for "all" overwrites the list of one label, and a merged list of 25 and 25 rows offers no "more"; abandoned objects are picked out of a page of other events in the browser, so a page may be empty |
| `Playback!InSync`, `Playback!SeekHolds` | a video that falls behind the clock while it leads leads for ever, and does not follow any more; a video that leads does not follow a seek back, and takes the clock to where it is |
| `Rules!AsMeantStrayed`, `AsMeantHasty` | a rule is put back by the index it had when it was opened; two saves in a row are both made of the same old list |
| `Drawing!DragsOneOfLine`, `Filled` (`MaxPoints = 5`) | after the drag of one end of a line the click that ends it places the other; a drag that outlives its rule leaves a hole in the next |
| `Lines!SavedIsStoredLate`, `EditsKept`, `DrawnOverOne` | an edit made while a save is under way is shown as saved and lost with the next fetch; any refetch drops unsaved lines; a line is begun over one camera and ended over another |
| `Notified!AlwaysAsMeant` | a rule added before the list has come is stored alone; editing writes over another rule when the list moved |
| `Persons!ProfileNamed` (`People = {"ana", "bob"}`), `NamingHeld` | renaming the selected face leaves its profile under the old name; the answer of one rename closes the dialog of another |
| `Forms!AlwaysAsMeant`, `EditsHeld` | a form filled before the row changed puts the old value back, and an emptied field stays (`exclude_none`, blank passwords); a save that answers late closes the dialog of another row |
| `Boxes!AlwaysAsTicked`, `SentAsChosen` | a camera dialog opened before the plugins are listed un-assigns them; the whole configuration is sent and overwrites others' changes |
| `Wizard!AlwaysTested`, `FailedIsNot`, `ProposedOf` | an address edited during its test is created untested; a create that fails after the commit is told as failed; the streams' address proposed first is kept |
| `Editor!AlwaysAsTyped` | the Telegram form overrides what the JSON text says of Telegram |
| `Switches!AlwaysStandsSo`, `BusyTold` | "Plugin load failed" comes after the commit and leaves the switch as it was; a second call takes the mark from the first |
| `Zones!OwnPoints`, `ColorsApart`, `SavedStay` | points drawn over one camera end in another's zone; a colour repeats after a delete; zones saved in localStorage are never read back and are overwritten |
| `Media!ShownStays`, `FailureTold` | a request that a card has dropped fails later, and the error takes the place of its picture; the card's catch sets the error only if it is *not* mounted |
| `Export!FailedIsOver`, `AlwaysEnds` | ffmpeg writes on after its job has failed; after a stop of the backend the dialog polls a job that nobody ends |
| `GridMatches`, `OnlineCounted`, `StaysOpen` (`MaxTimers = 2`) of `LiveWall` | the sidebar lists other cameras than the wall shows; a tile plays after its maximised view was closed and is not counted; a closing timer closes the view opened after it |
| `Feed!OneSocket`, `Player!Flushed` of `Connections` | after a token change the tab may keep two sockets; what waits beside a full buffer is never appended (`Flushed` is a PROPERTY) |

Met on the way and not stated: the server refuses a WebSocket before it
accepts it, so the browser sees close code 1006 and the branch for 1008 that renews the
token is not reached (`useWebSocket.ts:97`); a reconnect asks for no history, so what
was announced meanwhile is not listed until the page is loaded again
(`useWebSocket.ts:104`); an object whose owner came back and left again is not reported
a second time, as `emitted_events` outlives the return (`abandoned_object/plugin.py:435`).

### Variants

Some definitions are preceded by a "Variant": the same definition with a plausible bug.
`PROJECT.json` names the one that breaks each property of each run.  The other parts of
`FormsHold` are broken by `NotificationRules!EditedAdds` for `Edited`,
`FacesPage!KeptSelected` for `Reselected`, `ZoneWizard!ShowOnce` for `Show`,
`CountingLines!SaveSettled` for `Saved`, `CameraPlugins!AssignedBare` for `Assigned`,
`ConfigEditor!ToFormUnread` for `ToForm`, `ServerWizard!Step1Any` for `Step1Next`,
`CameraWizard!ValidNoStream` for `Valid`, `PluginsPanel!OnServedQuiet` for `OnServed` and
`SettingsForms!MergedWhole` for `Merged`; `NoSkip` also by `PluginPages!OnMoreStands` for
`OnMore`.

## Not modelled

`PROJECT.json` lists every component.  Not modelled yet, and within reach: the frame
buffer, whose capture thread may be started a second time before the first has seen its
flag (`frame_buffer.py:99`); the memories of line crossing (its cooldown is measured on
an event's start time, `line_crossing/plugin.py:234`), loitering (entry times are kept
by track and not by zone, `loitering/plugin.py:99`) and people counting (a track that
stops exactly on the line); the cooldown of the notifications, read before an await and
written after it; the alert service; and the cache of the system settings, which a load
that read before a commit fills after its invalidation (`system_config_service.py:46`).

Left out for good: inference, drawing and OCR (numeric code over pixels), prompts and
calls of the language-model plugins, the WebRTC negotiation, codecs and HLS (the
browser's), CRUD of users and cameras beyond what the forms do (one request is one
transaction under constraints of the database), pages that only show queries (dashboard,
analytics, AI summary, search, plates, sabotage), migrations and deployment, and the
design sample `UIejemplo`.  `public/go2rtc` is a second copy of the player's files.

Within the modelled parts: payloads, labels, scores and texts; the camera sync of a
server, a loop of upserts in one transaction; the severities, zones and areas of
abandoned objects; an alert cut off by the 20 s time-out of `on_frame`, which is marked
as sent and lost; PTZ, full screen and volume of the live wall; zoom and wheel of the
timeline; the search box and the tiles of the lists of detections.
