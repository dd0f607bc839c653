# Transiter in TLA+

Transiter is a Go service that keeps copies of the GTFS static and GTFS realtime
feeds of transit systems in PostgreSQL and serves them over HTTP and gRPC. These
modules specify the scheduler that updates feeds periodically, the updates
themselves, what they make of static data, trips, alerts, vehicles and service maps,
the installation of systems, the life of the server and the requests of the public API.
TLC checks them on small instances; TLAPS proves the main safety properties for every
instance. Source
paths below are relative to `src/`.

To check: `tlc -config X.cfg M` for the module `M` and configuration `X.cfg` of a
run, `tlapm M.tla` for a module of proofs.

## The system

| component | state | operations | interacts with |
|---|---|---|---|
| scheduler, `internal/scheduler/scheduler.go` | the root's map of system schedulers; each system's map of feed schedulers; per feed `updateRunning` and two times | `Run`, `Reset`, `ResetSystem`, `Status`; ticks; ends of updates; cancellation | reads the database through the public service; calls `admin.UpdateFeed`; called by install, delete, `ResetScheduler` and the server |
| ticker, `internal/scheduler/ticker/ticker.go` | a clock ticker, a goroutine, channels for ticks and for stopping | ticks, `Stop` | owned by a feed scheduler |
| admin service, `internal/admin/admin.go` | the system's row (status) and feed rows | `InstallOrUpdateSystem` with its goroutine, `DeleteSystem` | runs updates of required feeds, resets the scheduler |
| feed and scheduler endpoints, `internal/admin/feed_endpoints.go`, `scheduler_endpoints.go` | none | `UpdateFeed`, `ResetFeed`, `GetSchedulerStatus`, `ResetScheduler` | update pipeline, scheduler |
| update pipeline, `internal/update/update.go` | the feed's row: hash of the last successful content, timestamps | `Update`: read the feed, download, compare hashes, parse, store, mark | called by the scheduler, by installs and by API calls |
| GTFS realtime update, `internal/update/realtime/realtime.go` | trips, stop times, vehicles, alerts | upsert and delete per feed | inside the transaction of an update; then realtime service maps |
| GTFS static update, `internal/update/static/static.go` | agencies, routes, stops, transfers, scheduled services, trips and stop times | upsert, then delete what is stale | inside the transaction of an update; then static service maps |
| service maps and graphs, `internal/servicemaps`, `internal/graph` | service maps, their vertices, their configurations | `UpdateConfig`, `UpdateStaticMaps`, `UpdateRealtimeMaps`; `SortBasic`, `SortTree`, `DepthFirstTraverse` | called by the two updates and by an install |
| server, `internal/server/server.go` | goroutines of the servers and of the scheduler, the database pool | start, first `Reset`, shut down | all of the above |
| NYCT subway CSV update, `internal/update/nyctsubwaycsv` | headsign rules, accessibility of stops | replace | inside the transaction of an update; needs the stops of the static feed |
| public API, `internal/public` | none (read only) | several queries per request, pages | the scheduler and every client |

How they interact. A client installs a system; the call returns once the system's
row is committed and a goroutine goes on: it writes the configuration, updates the
feeds that are required for the install, writes the final status, and asks the
scheduler to reset the system. The scheduler reads the system's feeds and starts a
goroutine for each; at each tick this starts an update in another goroutine, and
learns of its end over a channel. An update started by an API call or an install
does not go through the scheduler.

What is hard:

* Every channel of the scheduler is unbuffered and every goroutine waits for
  others. Stops have to wait for running updates; answers need their receivers.
* Changes of the database and of the schedule are not atomic. The schedule is set
  up from several reads; installs, updates and deletions of one system overlap.
* Transactions run at READ COMMITTED, so two updates of one feed can each see half
  of what the other does. An update is skipped on the strength of a hash read
  before.
* The process can end between any two steps, and nothing resumes an install.
* IDs are unique in a system but owned by a feed. Feeds that share IDs take rows from
  each other, delete rows others refer to, and update them in one order of
  statements only that the schema's constraints allow.
* A request of the public API is several queries, and updates commit between them.
* The server's deferred calls run in an order that has to fit what its goroutines
  still wait for.

What makes each part correct:

* scheduler: one update per feed at a time; a stopped system or scheduler has no
  update left; the schedule is that of the database; every call is answered; feeds
  keep being updated; `Run` returns once cancelled.
* feed scheduler and ticker: the status is that of the updates; stopping ends; updates do not
  depend on their outcomes.
* install and delete: the schedule follows; the status tells the truth; a client
  that polls does not poll for ever.
* update: what is stored is all of the content whose hash is stored; a skip loses
  nothing; the data converges to what is published.
* realtime: stop times in order of their sequences, the past kept, the future that
  of the feed; trips, alerts and vehicles are those of the feeds that have them;
  repeated messages change nothing.
* static: the schema's constraints hold after each statement; afterwards the data is
  that of the file, and what other feeds have stays.
* service maps: a map is an order of the stations compatible with the trips, and that of
  the current trips.
* server: a failure of any part ends the process in order, and the pool is closed last.
* public API: an answer has what the tables have, or had while it was made; every stop is
  on some page; endpoints agree on what is active and which vehicle a trip has.

`PROJECT.json` lists every component with what is modelled of it, and every hazard
with its line and its properties.

## The modules

| module | models | abstracts from |
|---|---|---|
| `AbstractScheduler` | the promise of the scheduler: scheduled feeds, updates in progress, closed | everything else |
| `Scheduler` | the goroutines of the scheduler for many systems, feeds and callers | tickers, what an update returns, the scheduling policy |
| `FeedScheduler` | one feed scheduler with its ticker's goroutine and the outcomes of updates | the other feeds, time |
| `SystemInstall` | the install, update and deletion of one system, down to the reset | parsing, service map configurations |
| `FeedUpdate` | overlapping updates of one feed against the database | what the rows are |
| `StaticUpdate` | the static data of a system under the updates of its static feeds and its CSV feed | texts, dates, coordinates, frequencies, concurrency |
| `RealtimeTrips` | the trips of a system and their stop times under the messages of its realtime feeds | times, tracks, headsigns, concurrency |
| `RealtimeEntities` | the alerts and vehicles of a system and the trips they refer to | stop times, positions, texts, concurrency |
| `ServiceMaps` | the service maps of a system under configurations, static and realtime updates | deletion of routes and stops |
| `ServerLifecycle` | `server.Run`, its goroutines, requests and installs in progress, the pool | what requests do |
| `StopRequests` | `ListStops` page by page and `GetStop`, query by query | texts, positions, the search by distance |
| `PublicRequests` | requests for routes, trips, agencies, alerts, transfers, vehicles and systems, query by query | texts, positions, pages of vehicles |
| `OneFeed`, `OneServer`, `PublicApi` | `FeedScheduler`, `ServerLifecycle` and `PublicRequests` under other names, so that a module can extend them next to `Scheduler`, `SystemInstall` and `StopRequests` | |
| `SchedulerProofs` | theorems about `Scheduler` and `FeedScheduler` | |
| `SystemInstallProofs` | theorems about `SystemInstall` and `ServerLifecycle` | |
| `FeedUpdateProofs`, `StaticUpdateProofs`, `RealtimeTripsProofs`, `RealtimeEntitiesProofs`, `ServiceMapsProofs` | theorems about the module of that name | |
| `PublicApiProofs` | theorems about `StopRequests` and `PublicRequests` | |
| `MC...` | the constants of the runs; `MCPublicApi` has requests of one kind in each behavior, since they only read and do not disturb each other | |

`Scheduler` and `FeedScheduler` are two views of one program. The first has the
whole tree of goroutines but only one kind of update; the second has one leaf of the
tree in detail. Each implements `AbstractScheduler`: the first for all feeds, the
second for its feed.

`SystemInstall` and `FeedUpdate` use what the scheduler guarantees as assumptions:
`ResetReturns` of `SystemInstall` is fair because of `EveryCallReturns`, its `root`
serves one request at a time as the root of `Scheduler` does, and a new updater
begins again and again in `FeedUpdate` because of `ScheduledFeedIsUpdated`. In
`StaticUpdate`, `RealtimeTrips`, `RealtimeEntities` and `ServiceMaps` an update is one step:
it is one transaction, and `FeedUpdate` is about transactions that overlap.
`ServerLifecycle` has a scheduler that receives one call at a time and returns once
cancelled, unless it is blocked in the middle of a request: `EveryCallReturns` and
`RunReturnsWhenQuiet` promise as much and no more.

### Scheduler

A goroutine is a program counter with the values of its locals that later steps
use. A blocking send and its receive are one action, since the channels are
unbuffered. The slots `ss[s]` and `fs[f]` hold one goroutine each: the code makes a
new one for an ID only after `wait()` returned for the old one.

| code (`scheduler.go`) | actions |
|---|---|
| `Reset`, `ResetSystem`, `Status` | `Call`, `Receive`, `Abandon` (the caller's context ends while it waits for the answer), `Reply` |
| `runWithClock`, its `select` | `Receive`, `RootCancelled`, `Shutdown`, `StopReturns` |
| `resetAllRequest` branch | `ListSystems`, `NextSystem`, one `resetSystem` per system, `Sweep` |
| `resetSystem` and `stopScheduler` | `GetSystemConfig`, `ListAgencies`, `SendReset`, `ResetAnswered`, `StopReturns`; `ResetReturns` is what follows in the root |
| `statusRequest` branch | `SendStatus`, `StatusAnswered`, `StatusDone` |
| `systemScheduler.run` | `FeedsStopped`, `StartFeedScheduler`, `FeedStatus`, `SystemCancelled` |
| `feedScheduler.run` | `StartUpdate` (a tick), `UpdateReturns`, `UpdateFinished`, `FeedCancelled`, `FeedDrained` |

The database changes at any time (`EditSystem`, `DeleteSystem`), in particular between
the reads of one request. Every read can fail. The context of `Run` is cancelled at
any time (`CancelContext`). `synced` is a history variable: the last reset of the
system has succeeded, what it read is still what the database has, and no failed
`Reset` has stopped the system since.

### FeedScheduler

The goroutine of the ticker takes a tick from the clock's channel, of capacity
one, and then blocks until the feed scheduler receives it (`TakeTick`, `Tick`).
`Stop` is a rendezvous on `stopC` (`StopTicker`). An update ends in one of three ways
(`Outcomes`); `ErrorOf` is what `admin.UpdateFeed` makes of it. The times of the
status are the numbers of the updates they belong to.

### SystemInstall

`run[r]` is a call of the API and the goroutine it leaves behind. A transaction that
reads the system's row and later writes it by primary key is two actions
(`ReadEntry`/`WriteEntry`, `ReadFinish`/`MarkFinished`, `ReadDelete`/`Drop`), and its write
misses a row that is gone by then. `UpsertMetadata` is one action since
its first statement locks the row. `Crash` ends the process, for whatever reason:
shutting down does not wait for these goroutines either. `Restart` is the reset at the
start of the server. `owed` says that a fault, a failed transaction at the end or a
failed reset, has lost the reset after a change of the database; `overlapped`, that
two requests have run at the same time.

### FeedUpdate

An update is `Begin` (read the feed's row), `Fetch` (download, compare, parse), then
the transaction: `Insert`, `DeleteStale`, `MarkSuccessful`, `Commit`. A statement sees
what is committed when it starts, its own transaction's writes included, and waits
for the locks the schema implies: two insertions of one key, two deletions of one
row, a change or deletion of the feed's row while it is marked or referred to.
`Publish` changes what the feed's URL serves, an admin request edits, deletes and
reinserts the feed (with a new primary key), `Crash` rolls back. `alone` in the
record of an updater remembers whether its transaction has overlapped another
one. A content stands for its hash.

### RealtimeTrips

`Update` is all of `updateTrips` for one message: the entities that count (`Active`,
`TripsIn`, `StusOf`), the trips whose hash is unchanged (`same`), the stop times of the
others (`Written`), the deletion of trips the feed no longer has (`Stale`).
`Sequences` is `populateStopSequences`: `LastSequences` is a recursive function over the
stop time updates whose value is the local `lastSequence` after each; `Current` is
`currentStopSequence`. `Known` are the stop time updates whose stop the static data has,
`Made` those of them that become a stop time, which a skipped stop does not. A trip
keeps the stop time updates it was written with in place of its hash. Since times are
left out but hashed, an update with the same stops may skip the trip or write it again:
`Update` chooses. `StaticUpdate` changes the stops and the routes of the static data:
`DeleteStaleStops` and `DeleteStaleRoutes` delete rows, and with a stop go its stop times
and with a route its trips (`ON DELETE CASCADE`), whatever feed they are of. The feed's next
message has a trip again only if the route is there. `seen` and `fresh` are history
variables; `seen[f]` are the trips of the latest message of `f` whose routes have stayed.

### RealtimeEntities

`Update` is `updateTrips` (the rows only), `updateAlerts` and `updateVehicles` for one
message, in this order. A trip that goes and comes back is another row, so a key is a
pair of an ID and the number of the insertion (`born`). `AlertsAfter` leaves an alert
with the same content alone, its owner and its links too. `Candidate` and `Accepted` are the
`continue`s of the loop over the vehicles; the comparison is with the rows before the
deletion. `VehiclesAfter` deletes nothing for a message without vehicles, as
`DeleteVehicles` is then called without the system (`realtime.go:743`). A deleted trip
clears the links of alerts; vehicles have no foreign key to trips and keep the key
(`012_relax_vehicle_trip_constaint.sql`). `DeleteRoutes` is what a static update that deletes
routes does here. `seen`, `placed` and `gone` are history variables: the latest message, the
latest one with vehicles, and the trips of vehicles that were deleted with their route.

### StaticUpdate

`db` is a record of tables. Each step of `static.Update` is a function from tables to
tables, and `UpToTrips` composes them in the order of the code; `Cascade` is what `ON
DELETE CASCADE` and `SET NULL` do after each of them, `Valid` the constraints that can be
broken. A failed update changes nothing. `TripIDToPk` chooses, for each trip ID of the
file, one of the system's trips with this ID: that is what
`MapScheduledTripIDToPkInSystem` does when feeds share IDs of trips. A row of `maps`
stands for a static service map by the trips it was built from. `UpdateCsv` is
`nyctsubwaycsv.Update`; `boarding` says whose accessibility data a stop has. `kept` is a history
variable.

### ServiceMaps

`UpdateConfig`, `UpdateStaticMaps` and `UpdateRealtimeMaps` are the functions of
`servicemaps.go`. `SortBasic` is the set of the results the code can return, since it
depends on the order of a Go map; it is empty for `ErrGraphNotSortable`. `Loop` is what its
loop may have made after as many rounds as there are nodes, and `Pop` a round. `RoutesToRebuild`
is what `updateTrips` computes for the realtime maps. `built` and `behind` are history
variables: the configurations that are the same since the last static update, and the
routes whose realtime maps the code does not promise anything of. `UpdateConfig` returns
nil when it cannot list the stored configurations (`servicemaps.go:48`), and leaves them as
they are: a step that changes nothing, so the module has no action for it. In Postgres a
failed statement aborts the transaction, so the error surfaces later.

### ServerLifecycle

The program counter is that of the goroutine of `Run`. Every `defer` of the code is
a step of the shutdown (`TriggerShutdown`, `Wait`, `Close`, `Closed`, `Return`), in
reverse order. `args` is chosen in the initial state: any set of servers, with and
without a scheduler, and the read-only ones. A handler is a goroutine that
works for a request, or for an install that outlives its request (`GoInstall`). `Answer`
needs a caller that waits: `msg.resp` is not buffered. The first reset stops waiting when
`Run` is cancelled (`ResetCancelled`), a request when its own context is (`GiveUp`), an install
never. `Block` is a request that was being served when the cancellation reached the
goroutine of the system first. What
net/http, gRPC and pgxpool do at shutdown is stated at the head of the module.

### StopRequests

`Queries` are the queries of `getRawStopData` in their order. Each is a step, and
`Commit` may replace the tables between any two. `Rows` is what a query returns, given
the rows of those before it; `StopAnswer` is `buildStopsResponse`; `Panics` is
what makes the handler panic; `Below` is the query for descendents. A client lists stops page after page (`ListStops`), and
goes on or gives up after a failure.

### PublicRequests

`Request` stands for the queries that find what a request is about, `Lists`; `PlanRoutes`
and the other plans are the queries of the `build...` functions, `Precedes` their order,
and `Query` makes the next one, at the tables and the time it finds. An
operator with the name of a query says what it returns (`ActiveAlerts`, `ServiceMaps`,
`StopTimes`), `Headway` is the arithmetic of `EstimateHeadwaysForRoutes`, and `Part` and
`Reference` put rows into the answer as the maps by primary key do. `during` is a
history variable: the tables and the times since the request began. `gone` is why a
key does not come back: they are from sequences.

## The runs

| run | instance | states | what it shows |
|---|---|---|---|
| `scheduler_safety` | 2 systems with one feed each, 1 caller that may give up | 1 879 910 | the safety properties of the scheduler, and that it implements `AbstractScheduler` |
| `scheduler_live` | 1 system with 2 feeds, 1 caller that waits | 38 744 | scheduled feeds are updated, calls return, `Run` returns |
| `feed_scheduler` | 4 updates | 8 672 | the status misses no success, the stop ends, updates keep coming, `AbstractScheduler` is implemented |
| `install` | 2 requests, 2 feeds of which 1 is required | 91 735 | the schedule, the status and the end of an install |
| `update_alone` | 1 updater, 3 contents, 2 configurations, 2 primary keys | 8 660 | the data is whole, skips are right, the data converges |
| `update_overlap` | 2 updaters, 3 contents | 197 768 | an update alone repairs what overlapping ones left |
| `trips` | 2 feeds, one with reassigned sequences, 2 trips of 2 routes, 3 stops, 30 journeys with and without sequences, skips, duplicates and cancellations | 45 399 | sequences are unique, the past is kept, the future and the trips are the feeds' |
| `entities` | 2 feeds, 3 trips, 2 alerts, 3 vehicles, 9 messages | 71 441 | alerts and vehicles are the feeds', repeated messages settle |
| `static` | 2 static feeds that share IDs in every table, 1 CSV feed | 27 744 | the schema, rows and trips of each feed, which updates fail, the CSV data |
| `maps` | 2 routes, 5 stops, default and other configurations, circles | 27 851 | maps are sorted, static and realtime maps are current |
| `server` | every choice of servers, one handler | 136 480 | the pool is closed last, `Run` returns unless a caller or the scheduler is blocked for good |
| `public` | stops: 5 states of the tables, 4 stops, pages of 1 and 2; other requests: 4 states of the tables, 5 moments, 3 choices of what to skip | 430 661 | answers, references and pages; every part of an answer was true, endpoints agree |

Why the bounds are enough for the cases that matter. Two systems let a `Reset` fail
between them, so that one is reset and the other swept; two feeds of one system
let a reset change the schedule in part and let a status be answered by one feed while
the other stops. A second caller adds nothing the first one cannot do: the
root serves one request at a time and a caller may send its next request right after
an answer; but it may wait in line while another one gives up, which a caller that
abandons and calls again does as well. Four updates let failures and successes
alternate and the clock's buffer fill up. Two requests are enough for each order of the
steps of an install with those of an install, an update or a deletion. The
contents share a row, have rows of their own, or have none, so every update
inserts, keeps and deletes; one content means different rows under the two
configurations; two primary keys let a feed be deleted and inserted again under a
running update. Three stops make journeys that shrink, are reordered, revisit a stop, skip one or
have one the static data does not know; both feeds have a trip in common, and each of two
trips has a route that comes and goes. The messages
of `entities` have two vehicles that exchange their trips, a chain of exchanges,
duplicates of each kind, vehicles without an ID or without a trip, and an alert and a
vehicle that both feeds have. The files of `static` share or do not share agencies, stops,
routes, services, shapes, trips and transfers, drop each of them, and move a route
to another agency. The files of `maps` have a branch that few trips take, a
circle, a platform of a station and trips that the windows of the default configurations
leave out. The tables of `public` for stops differ by what a realtime update, a static update
that adds and one that deletes would change, and a stop with the ID of a deleted one.
Those for other requests differ in the same way; a stop with three arrivals has gaps of two
lengths, and the periods of an alert overlap, start and end within the five moments.

`MaxUpdates`, `MaxPk`, `MaxSeq`, `MaxBorn` and `MaxTime` are the bounds in guards: `MaxSeq` lets a
trip of three stops be renumbered past its end twice (sequences can grow for ever when
static updates remove the stops of the past), `MaxBorn` lets trips be deleted and
inserted again, by a feed or with their routes. The other modules are finite because their constants are.

Deadlock is checked where the environment can always act. It is off for `FeedScheduler`,
which ends with the stop of its feed, for `SystemInstall`, where each request is made
once, and for `ServerLifecycle`, where the process ends when `Run` has returned.

Symmetry is used only in `update_overlap`, over the updaters, which checks no liveness.

### Fairness

* `Scheduler`: Go's `select` picks among ready cases at random, so a receive or a
  `ctx.Done()` that is ready again and again is taken eventually (strong fairness).
  Other steps of a goroutine happen once they can (weak). `UpdateFeed` returns: the
  download has a timeout and database calls end. A ticker ticks. Callers, the
  database and the cancellation are not fair.
* `FeedScheduler`: the same, and the clock ticks.
* `SystemInstall`: a request goes on, and the scheduler answers. Requests, crashes,
  restarts and failures are not fair; they may happen at any time, or never.
* `FeedUpdate`: the scheduler begins updates again and again, an update goes on, and no
  error is for ever. The last is an assumption about the world: a download that can
  succeed again and again does so. Without it nothing converges.
* `ServerLifecycle`: `Run`, the servers' goroutines and the scheduler go on once they
  can. A handler makes finitely many queries and an update ends: both have deadlines or
  finite work. Interrupts, requests, callers that give up and `Block` are not fair.

`StaticUpdate`, `RealtimeTrips`, `RealtimeEntities`, `ServiceMaps`, `StopRequests` and
`PublicRequests` state no fairness: their properties say what holds after any updates. That updates keep coming is
`ScheduledFeedIsUpdated`.

## Where the code and its words differ, and other surprises

All of these show in the models: as a condition of a property, or as a step that the
model takes because the code does.

Scheduler:

* A caller of `Reset`, `ResetSystem` or `Status` whose context ends while it waits
  leaves the root blocked on the answer (`scheduler.go:191`): no request is served any
  more, and `Run` never returns. Hence `~Abandoned` in `EveryCallReturns` and the callers
  that wait in `scheduler_live`.
* The context of `Run` is cancelled during a reset: the system scheduler may end before
  the root sends it the reset (`scheduler.go:304`), and the root blocks. Hence the
  condition of `RunReturnsWhenQuiet` that no request is in progress when the
  context is cancelled.
* `Ticker.Stop` blocks for ever when the ticker's goroutine is sending a tick
  (`ticker.go:59`). `fs.done` is closed first, so that the scheduler goes on
  (`DoneIsClosed`), but two goroutines leak. `StopTicker` needs the ticker at its select.
* A failed update counts as successful in the status (`scheduler.go:372`), because
  `UpdateFeed` returns its failure as data and not as an error, while the comment on the
  field (`scheduler.go:70`) and `api/admin.proto` speak of success. `StatusIsAccurate` affirms
  neither: it says that the last successful update is one that left a result, and none
  older than the last that succeeded, which holds whether failures count or not.

Installs:

* Overlapping installs can leave an `ACTIVE` system without the data it needs: the
  last one to finish writes the status, whatever the other one found
  (`admin.go:233`). Hence `~overlapped` in `SequentiallyActiveMeansInstalled`.
* A crash leaves a system `INSTALLING` or `UPDATING` with nobody to finish it
  (`admin.go:103`). Hence the condition of `InProgressEnds`.
* `install_only` leaves only an `ACTIVE` system alone (`admin.go:137`), while
  `api/admin.proto:119` speaks of any system that is installed; `ReadEntry` is the code.

Updates:

* An update after a change of the feed's configuration is skipped if the content is the
  same, although it would be parsed differently (`update.go:138`); the public API says of
  a skipped update that "there is nothing to do". Hence the configurations in
  `SkippedIsCurrent` and `Converges`.
* Two overlapping updates with different contents can leave rows of both under
  one hash, and further updates are then skipped as long as the content stays
  (`update.go:138`). `StoredDataIsWhole` and `Converges` are therefore claims about one
  updater, and `UndisturbedUpdateIsWhole` is what is left with several.
* Stale agencies are deleted before the routes that refer to them are updated
  (`static.go:102`), and a route's agency has no `ON DELETE`: a file that drops the
  agency of a stored route is refused for ever, even if it has another agency for the route.
  `IndependentUpdatesSucceed` says that this is the only such order.
* `MapScheduledTripIDToPkInSystem` looks trips up by ID in the whole system, while their
  key is the route and the ID: of two trips with one ID, one gets the stop times
  of both and the other none. Hence `Unshared` in `TripsAreTheFiles`.

Realtime:

* `api/public.proto:932` calls a stop time future if it was in the latest message.
  When a stop that the static data does not know comes first and has a
  sequence, stops after it with smaller sequences (assigned ones, say) are marked as past
  (`realtime.go:325`): the condition `LeadsWithKnown` of `FutureIsTheFeed`.
* The same comment says that a stop time that disappears is kept as past. A message that
  begins with a new stop, or with a skipped one that has no sequence, starts the
  sequences at 0 again and overwrites the past: the conditions of `PastIsKept` and
  `Matchable`.
* A skipped stop without a sequence in the middle of a message has no stop time, so the
  next message with the same stops gives it a new sequence (`realtime.go:411`), which may
  move the stop times after it: a message that repeats the one before need not leave the
  stop times as they are. This too is a condition of `Matchable`; it came to light in the
  proof of `RepeatsAreHarmless`.
* A trip that two feeds have is deleted when the feed that had it last drops it, and
  comes back only with a changed message of the other feed
  (`realtime.go:206`, `update.go:138`): the last line of `TripsAreTheFeeds`. A trip also goes
  with its route when a static update of any feed deletes it, and if the route comes back the
  trip does only with a changed message: `seen` in `RealtimeTrips`, `gone` in
  `RealtimeEntities`. An alert
  with the same content keeps its first owner (`realtime.go:481`): the same line of
  `AlertsAreTheFeeds`.
* A message without vehicles deletes none, because the parameters of `DeleteVehicles`
  leave out the system (`realtime.go:743`): `placed` in `VehiclesAreTheFeeds`.
* Vehicles that exchange their trips are dropped by one update and are back after the
  next (`realtime.go:807`): `UpdatesSettle`.

Service maps:

* Realtime maps are not rebuilt when a new configuration comes, when a trip loses all its
  stops, or when its feed is deleted, and static maps not when their configuration
  changes: `behind` and `built`.
* A cycle in the edges leaves the old realtime map and an empty static one
  (`servicemaps.go:206`): `MapsAreSorted`.

Server:

* If the first `Reset` fails, no server is started, and `server.Run` waits for the
  scheduler before it cancels the context that would end it (`server.go:120`), until
  an interrupt: the last line of `HasToEnd`.
* If `Run` is interrupted during the first `Reset`, nobody receives the answer
  (`scheduler.go:191`): the root of the scheduler is blocked, `wg.Wait` (`server.go:92`) never
  returns, and neither does `Run`. The same happens when the caller of an admin request gives
  up while the scheduler works for it (`scheduler.go:221`, `:238`), and when an interrupt
  reaches the goroutine of a system before the request that needs it (`scheduler.go:304`):
  `SchedulerStuck` in `RunReturns`.
* A send to a scheduler that has returned is never received, and the sender does not look
  at its context (`scheduler.go:206`). After an interrupt, the first reset or an admin gRPC
  request can keep `Run` from returning: `Stranded` in `RunReturns`. The main program
  exits at a second interrupt (`transiter.go`).
* HTTP requests and installs may find the pool closed: nothing waits for
  them (`server.go:137`). `PoolOutlivesServices` is about updates and gRPC requests.

Public API:

* A request reads in a read-only transaction of the default isolation level
  (`public.go:122`), so that each query sees another state. After a deletion in between,
  the handler may assign to a nil map (`stop.go:386`) or dereference the nil route of a stop
  time (`stop.go:442`), and panic: `changed` in `ReferencesAreFound` and `AnswersAreCurrent`.
* A `limit` of 0 gives an empty page whose next ID is the first: no progress. Limits are
  positive in `StopRequests`.
* The agency of a route (`route.go:101`) and the stops of a transfer (`stop.go:150`) are
  nil in an answer if they were deleted in between: in `AnswersWereTrue` a `Reference` may be
  None if the row was not there at one of the moments since the request began.
* A period of an alert is open in the queries for active alerts
  (`alert_queries.sql.go:256`) and closed in the answer for the alert (`alert.go:98`):
  `EndpointsAgree` excepts the moments when a period starts or ends. An alert without
  periods is never active. Routes, stops and trips have an alert once for each of its
  active periods, agencies once.
* A trip is joined with the shapes of the scheduled trips that have its ID, in any route,
  and listed once for each (`trip_queries.sql.go:347`): the exception of
  `EndpointsAgree`.
* `GetAlert` of an alert that is not there returns neither an alert nor an error: it
  passes nil, not its error, to `noRowsToNotFound` (`alert.go:49`). `GetVehicle` and
  `GetShape` fail, but not with a "not found". The models have no answer either way.

## The proofs

Assumptions: every feed has a system (`OwnerAssumption`), `None` is none of the values
it stands in for (`NoneAssumption`), parsing is a function of configuration and content
(`RowsAssumption`), messages are of their type (`MessagesAssumption`), CSV feeds are
feeds (`FeedsAssumption`), static files are as the parser leaves them, with unique IDs and
references into the file (`FilesAssumption`), the tables of the public API satisfy the keys of
the schema (`DatabasesAssumption` of `StopRequests`; the actions of `PublicRequests` check
it), the parents of stops have no cycle, stops, trips and stop times that are counted or
put in order are finitely many, and the types of the other constants. The other sets need
not be finite.

Related modules share a module of proofs: `SchedulerProofs` has the theorems about
`FeedScheduler` too, `SystemInstallProofs` those about `ServerLifecycle`, and
`PublicApiProofs` those about `PublicRequests`. They find these modules as the instances `Feed` of
`OneFeed`, `Life` of `OneServer` and `Public` of `PublicApi`, whose constants and variables
have new names and nothing else; the runs check the same instances. `OneFeed` assumes that
`MaxUpdates` is a number (`MaxUpdatesAssumption`), and `OneServer` that `Nobody` and `Main`
are none of the values they are told apart from (`NobodyAssumption`, `MainAssumption`).

**Scheduler.** That a stopped system has no update left is not inductive: it
depends on what each goroutine is waiting for. `IInv` has the missing parts.
`FeedInv`: the update goroutines of a feed, executing or reporting, are one if
`updateRunning` is set and none otherwise, it is not set once the feed
scheduler has exited, and is while it drains. `SystemInv`: a system scheduler that has
exited or does not exist has no feed schedulers. `ServingInv`: a system scheduler that
stops, starts or asks its feeds does so for the root, which waits for exactly this one.
`RootInv`: what the root's program counter says of its locals, and that nothing is left
when it has returned. `WantedInv`: the database has a system's feeds under the
system. `Invariant` proves it one action at a time; `OneUpdateAtATime`,
`StopIsComplete` and `ReturnIsComplete` follow, `StartsAreRead` is an action property
from the same invariant. `Refinement` shows that each step is one of
`AbstractScheduler` or a stutter: an action that takes feeds off the schedule is
`Schedule` there, and needs `FeedInv` to know that no update of them is in progress.

`SyncedSystemIsScheduled` speaks of a system between its reset and the next change.
`SyncInv` says where the configuration that the reset has read is meanwhile
(`ConfigurationInv`): with the root, on its way to the system scheduler, or half
in the schedule. A reset of all systems could stop the scheduler of such a system at its
end; `SparedInv` says that while such a reset goes on without an error (`Sweeping`), a
system with feeds has been reset by it, is being reset, or is still to come.
`LiveInv` joins them for as long as `Run`'s context is live, and says that until then a
system scheduler ends only when the root stops it. `SyncedIsScheduled` follows.

**FeedScheduler.** `FeedSchedulerInv` joins the type invariant with `FreshAtStart`, `ReportIsLast` (the
update goroutine reports the last outcome), `StatusFollows` (the two times are those of
the outcomes received) and `DoneMeansNoUpdate`. `StatusTellsTheTruth`,
`DoneIsClosedLast` and, for any number of updates, `FeedRefinement` follow.

**SystemInstall.** `QuietScheduleIsCurrent` says nothing of the steps before
the requests are over. `ScheduleInv` does: if the schedule (or, while the root
serves a request, the schedule it is about to set up) is not that of the
database, then some request has yet to call `ResetSystem` (`WillReset`), unless a
fault lost it. The case that needs care is an install whose system is deleted: it
returns without a reset, so the debt must be that of the deletion. `NoSystemNoFeeds` and
`ServerInv` support it.

`SequentiallyActiveMeansInstalled` follows from `SequentialInv`: as long as no requests
have overlapped, at most one is running, and `AloneInv` says where it is. It finds the
system's row as it has left it, and the required feeds without data are those it still has
to update, unless one has failed, in which case the status it writes is not `ACTIVE`.

**FeedUpdate.** `ReadInv` is what an updater has read, `LockInv` what its
transaction's locks guarantee (the feed's row stays while it has inserted rows for it
or has marked it), `AloneInv` what a transaction will leave if it stays
alone. `WholeUpdates` follows for any number of updaters. With one updater
(`OneUpdater`, the case the scheduler guarantees when nobody else starts updates)
`SingleInv` adds that the hash an update has read is still in the row, from which
`StoredWhole` and `SkipsAreRight` follow.

**StaticUpdate.** An update is ten steps on ten tables. One lemma per step says what it
does to the tables with owners, to the rules and to the accessibility data, and leaves
the rest alone; `UpdateEffect` adds them up. With it `RowsAreTheFiles` is inductive as it is
(given `FilesAreServed`): the rows of a feed after its update are those of its file, and
those of another feed lose only IDs of that file. `CsvIsKept` needs `KeptAreThere`,
that the stops it speaks of have not been deleted.

`TablesSatisfySchema` needs the trips and what refers to them. `SchemaInv` has the
constraints that the schema checks (`Valid`), the references that a deletion follows
(`Closed`) and unique IDs. `Course` describes the tables of one update at each of its four
deletions that reach trips, those of routes, stops, services and shapes: the trips left are
those of before, cut down four times to what is still there (`Cut`).

`IndependentUpdatesDoSucceed` shows from `SchemaInv` alone, so for any tables that satisfy
the schema, that no constraint stops an update but for the agencies: `AgenciesAreFound`,
`ParentsAreFound` and `TransfersAreKeyed` take the constraints one at a time, and the trips
that are inserted have no stop times yet, so those of the file fit.

`TripsFollowTheFiles` needs to know whose a stored trip is, which its row does not
say. `OriginInv` does: it is of the feed that has its service, and its ID is in the latest
file of that feed. A trip whose ID no other feed has is therefore the feed's own.
`StayedIsOfAnother` shows that an update deletes the trips of its own feed, so that what is
left is of others; `CourseForward`, with `UnsharedStay`, that a trip of another feed that
hangs on unshared rows comes through the four deletions with the stop times and the shape
that the theorem speaks of.

**RealtimeTrips.** `OwnersAreRight` is `TripsAreTheFeeds` whatever the sequences come
out as. `OwnerInv` is inductive as it is; `UpdateOwners` says who a trip belongs to after an
update, and `RouteStays` that another feed's message that an update would take the trip from
still counts after a static update, as long as the route stays. With the route the trip leaves
the rows and `seen` alike.

The other theorems are about what the recursive function `LastSequences` computes for
every message. The library's induction theorems take an operator and cannot be used, so
induction is the absence of a least counterexample: `LeastNumber` (from the
well-foundedness of `<` on `Nat`) gives every non-empty set of numbers a least element,
`Induction` states this as a rule about sets, and `RecursiveFunction` shows with it that a
function defined by recursion satisfies its equation, without the library's theorem.
`LastSequencesAre` is that equation for `LastSequences`, and `SequencesIncrease` that the sequences
given to the stops of a message increase with them. Of the invariant, `RowsInv`, the part
that is not a property is `WrittenFrom`: the stop times of a trip that was written since the
stops last changed are what an update makes of some stop times.
`SequencesAreUnique`: the new rows differ by `SequencesIncrease`, and the old rows that are kept
have sequences that no new one has. `FutureStopsAreTheFeeds`: `CurrentIsFirst` shows that
`currentStopSequence` is at most the first sequence made. `RepeatsAreHarmless`: a message applied to its own
result gets the same sequences, by induction again, either because it gives them
(`GivenAreUsed`) or because each stop finds its stop time (`MatchedAreUsed`);
`WrittenAgain` concludes for the rows. `PastStopsAreKept`: the first stop
takes the sequence of its stop time, so the sequences before it are not used again.

**RealtimeEntities.** `TripInv` says that a trip is in the latest message of its feed,
which is why a vehicle whose trip goes by the update of another feed was of a trip that
this feed has had too; a vehicle whose trip goes with its route has it in `gone`, and keeps
it there while the vehicle stays (`RoutesKeepVehicles`, `OldVehicle`). With it `AlertInv` and `VehicleInv` are inductive. `SchemaInv` is the
unique keys: `FirstAlertsAreUnique` and `AcceptedAreUnique` show that what an update inserts is
unique, and what it deletes before makes room for it, so that no update fails for a key
(`EntitiesTypeCorrect`).

`VehiclesSettle` compares three updates with one message. After an update the candidates of
the next one are the vehicles that are the first with their ID and whose trip no other
vehicle of the message has got (`CandidatesAreFree`). After the second update each known trip
that such a vehicle names is taken by one of them (`TripsAreTaken`, which takes the least place
in the message), so the third update accepts exactly those (`AcceptedSettle`), and the rows
are the same (`RowsSettle`).

**ServerLifecycle.** `LifeQuiet` says what is off before `Prepare` and done after `Wait`,
`OffFromNext` that the servers `Run` has not reached are off, `LifeBusy` that a gRPC server
goes on while it has requests and the scheduler, blocked or not, while it has an update, and `PoolPhases`
when the pool is not open. `PoolIsClosedLast` follows: an update in progress keeps the
scheduler running, which keeps `Run` before `Close`.

**ServiceMaps.** `LoopInv` is what holds after `k` rounds of the loop of `SortBasic`, by
`Induction` over `k` as for `RealtimeTrips`: no node is on the stack or in the order
twice, a node is on one of them just if its in-nodes have left the stack, and each round moves
one node. As many rounds as there are nodes therefore empty the stack, and what has left is
in order. `SortIsTopological` follows: if a node is left, the nodes left are a set of which
each has an in-node in it, which is a cycle. `StationsAre` shows that the recursion over
parents gives every stop a station, for else some set of stops would have its parents in
itself. `EdgesAreGraphs` shows from both that the edges of any map are finitely many pairs of
stops, so that the theorem about the sort applies. The invariant is then `TypeOK` with the two
properties themselves: `StoredRowsAreSorted` is what one `persistMap` per route and
configuration leaves, and `RouteHasItsTrips` that a route which `RoutesToRebuild` leaves out,
and which has got no trip without stops, has the trips it had.

**StopRequests.** `PagesComplete`: `PageIsFirst` shows that a page has exactly what comes
before the next one, from `RanksAreDense` (whoever has a rank has all lower ones
before it). `PagesInv` adds where a listing is between two pages: the pages so far end before
the first ID of the next one and have every stop that is there all along and comes before it.
It is inductive under any commit, because a commit only takes stops from `there`.

`AnswersCurrent`: `CurrentInv` says that what a request has read, while nothing has been
committed, is `Rows` of the present tables, and that it reads in order (`Ordered`), since what a
query asks for is what earlier ones returned (`RowsDepend`). At the end `RowsOfAll` has every
query's rows, and `AnswerIsExpected` compares the answer with the tables field by field;
`LastTime` and `DestinationIs` show that the destination of a trip is its last stop.

`ReferencesFound`: `RefsInv` says the same of references only, and survives commits that
delete no stop, route or configuration (`RefsRemain`): what is named in the rows of one
query is still there for the later query that looks it up (`NextRefs`).

**PublicRequests.** `EndpointsDoAgree` follows from the keys of the tables alone
(`TablesInv`), by comparing what two queries return.

`AnswersWereTrueThen` has the invariant `PartsInv`: every row of a request belongs to a
query it has made, and what a query has of a thing is what that query, asked for this thing
alone, returned at one of the moments since the request began. It is inductive because a
query returns the rows of different things independently (`ResultIs`), although it asks for
many at once, and because no two queries of a request ask for the same of the same
(`PlanIsDistinct`), so that no later rows are taken for earlier ones. One lemma for each query
then says that its rows are true of the tables. The one for headways needs arithmetic:
`MomentsAtMost` sends each moment between the first and the last arrival at a stop to the
next arrival, and the longest gap bounds how many moments an arrival gets; `MomentsAtLeast`
sends each later arrival to the moments of the shortest gap before it. Their
quotient is between the two, also when rounded (`RoundedIs`).

Only model-checked is liveness, which the prover does not handle under fairness:
`EveryCallReturns`, `ScheduledFeedIsUpdated`, `RunReturnsWhenQuiet`, `DoneIsClosed`,
`UpdatesKeepComing`, `InProgressEnds`, `Converges`, `RunReturns`. Every other property of
the runs is the subject of a theorem.

## What is not modelled

* The scheduling policy (`NormalizeSchedulingPolicy`) and the times of ticks: pure
  functions of one configuration and of the clock. A period of 0 or less makes the
  ticker panic (`scheduler.go:343`).
* Parsers, conversions, templates, column types: values of one type into values of
  another.
* The public API's endpoints for feeds and shapes: one query, or the pages of stops. Those
  of vehicles too are as for stops. The searches by distance have no pages.
* `SortTree` and the traversals of `internal/graph`: only tests call them.
* The log level, monitoring, the command line, the client's printing, the documentation
  generator: no state, or one variable.
* Migrations and generated code: about half of the lines of the implementation are
  generated protobuf and gateway code without a decision of Transiter's own. The
  generated queries are modelled where a module uses them.
* Stop sequences of 2^31 and more, which `realtime.go:318` would turn negative, and
  concurrent updates of two feeds that share a row (one of them fails on the unique key,
  and is repeated).

## What is left

1. Two updates of different feeds of one system that overlap, over the tables of
   `StaticUpdate`.
2. `NormalizeSchedulingPolicy` and the daily ticker's next tick, over bounded times.
