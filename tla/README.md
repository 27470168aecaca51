# iDRAC Telemetry Reference Tools: TLA+ models, checks and proofs

The tools read metric reports and alerts from Dell iDRACs over server-sent
events and distribute them to time-series databases.  The programs are separate
containers joined by a message bus (ActiveMQ, spoken to over STOMP).  This
directory models the parts in which goroutines, processes or connections have
to agree, checks them with TLC on small instances, and proves their safety
properties with TLAPS for all values of the constants.

All paths below are relative to `src/`.

## 1. Inventory

    browser -- HTTP --> configui -- auth commands --> dbdiscauth <--> MySQL
                         |   |                            |  service broadcasts
             settings    |   | databus commands           v
            of the pumps |   +---------------------> redfishread <== SSE == iDRACs
                         v                                |  one queue per pump
                    kafka, otel, prometheus, victoria, <--+
                    splunk, influx, timescale, elk pumps --> databases

| Component | State | Operations | Interaction | What is hard | What makes it correct |
|---|---|---|---|---|---|
| RedfishDevice (`pkg/redfishread`, `internal/redfish`) | State, Ctx, two channels of ten events, listener and SSE goroutines | monitor start, listener loops, StartSSE, restart after errors, cancel | reads the device, calls SendGroup and AddDataGroup | error events steer restarts; a cancelled context is noticed late; full channels | one stream per listener, never silent, reports in order and once, stops when deleted |
| SSE client (`internal/sse`) | current connection, retry counter and interval, last event ID; the reader's event under construction | Connect, Next, Close; read, Encode, Write | HTTP | Close between two critical sections, reconnects, unlimited retries of 5xx, events cut off | reconnects invisible, no connection lost, bounded retries, what was written is read |
| SSE loops (`internal/redfish`) | loop position, context | StartSSE, GetEventsSSE, GetLceSSE, GetSSEByUri, GetInventoryByUri | SSE client | `break` that leaves only the select, paths without Close | a loop that ended holds nothing |
| Device registry (`cmd/redfishread`) | `devices` map in memory | add on broadcast, delete on command, list | EventQueue, databus command queue | map shared by two goroutines, panic on an unknown name, restart empties it | registry and monitors agree; wanted systems come back |
| dbdiscauth | `services` table, pending broadcast goroutines | ADDSERVICE, DELETESERVICE, RESEND, start-up broadcast | auth command queue, EventQueue | crash between INSERT and broadcast, repeated and delayed broadcasts, failed reads | only committed systems are broadcast, every one is in the end |
| configui | one shared client per service | add, CSV, list, delete, pump settings | commands and calls over the bus | two-step deletion, stale list, shared ConfigClient | deletion reaches both services, settings reach the pump meant |
| Configuration bus (`internal/config`) | settings of each pump | Get, Set, Reset, GetProperties | queues without correlation | two requests read each other's answers | a response answers its own command |
| Data bus (`internal/databus`, `pkg/databus`) | `Recievers`, cache of latest groups | SUBSCRIBE, GET, SendGroup, AddDataGroup | pump queues | list and map shared without locks, restart forgets receivers | each group once per queue; bounded gap at start |
| Request/reply (`internal/service`, `internal/wire`) | `Pending`, reply channels | Call, reply listener, Reply | command and reply queues | timeout against late reply, reply queue shared by incarnations | own answer or an error, nothing left behind |
| kafkapump and the Kafka adapter | settings, channel, connections per topic | wait, connect, send, redial, exit | GetGroup, Kafka | write errors that may have succeeded, settings that change, restart | no record lost silently, at most one duplicate, order |
| prometheuspump, victoriapump | gauges by context and name | create or update, push | GetGroup, registry | panics of MustRegister after any number of groups | the sample shown is the last reading |
| otelpump | table of names | load, convert, export | GetGroup, collector | Go map order, repeated IDs | each value exported once under a name meant for it |
| Other pumps | batches | translate and send | databases | - | no group lost silently |
| simpledisc, simpleauth | maps from files | discovery, authorization | disc and auth queues | shared map | every discovered service authorised once |
| Bus adapters, source simulator, front end, helpers | connections | send, receive | - | connection loss | - |

`PROJECT.json` lists each component with its status, and under `hazards` the
places where the code is hard to test, with the properties that watch them, or
a note where the code does what no property could forbid.

## 2. Modules

| Module | Models | Refines |
|---|---|---|
| `DeviceStream` | one device: `RedfishMonitorStart`, the two listener goroutines, their channels and the SSE goroutines | |
| `EventSource` | the SSE client's Connect, Next and Close | `SourceSpec` |
| `SourceSpec` | what an event source promises its caller | |
| `SseLoops` | the five loops of the Redfish client around an event source; extends `EventSource` | |
| `SseReader` | the line reader, Encode and Write | |
| `MCSse` | `SseLoops` and `SseReader` in one run | |
| `Onboarding` | configui's system list, dbdiscauth and its table, redfishread's registry, and the queues between them | |
| `ConfigBus` | ConfigService of three pumps, the shared ConfigClient and configui's settings handlers | |
| `DataBus`, `MCDataBus` | subscriptions, broadcast, cache and the pumps' intake; the MC module gives `QueueOf` its values | |
| `RequestReply` | `BaseClient.Call` and `BaseService.Reply` | `CallSpec` |
| `CallSpec` | what `Call` promises | |
| `KafkaPump`, `Gauges`, `OtelPump`, `MCPumps` | the pumps that keep state; the MC module runs each by itself | |
| `DeviceStreamProofs`, `SseProofs`, `OnboardingProofs`, `ConfigBusProofs`, `DataBusProofs`, `RequestReplyProofs`, `KafkaPumpProofs`, `PumpProofs` | TLAPS proofs; `SseProofs` is about `MCSse`, that is `SseLoops` and `SseReader`, and `PumpProofs`, which extends `KafkaPumpProofs`, about `Gauges`, `OtelPump` and `MCPumps` | |

### DeviceStream

`monitor` and `devState` follow `RedfishMonitorStart`; `listener[k]` is the
program counter of `StartMetricListener` / `StartAlertListener`, `chan[k]` its
buffered channel, `stream[k][c]` the program counter of one SSE goroutine and
`hand[k][c]` the event it is about to send.  A report is its number.  `Remote`
steps wait for the device, `Local` steps do not.  The two listeners run the same
code, so most actions take the kind `k`.  `cut` is a history variable: how many
reports had been read when the device was deleted.

`Next` of the SSE library is one wait with two outcomes, an event or an error:
that its reconnects are invisible is what `EventSource` shows.  The five-minute
sleep is the state `sleeping`, left at any time.

### EventSource, SourceSpec, SseLoops, SseReader

`EventSource` is one goroutine in Connect or Next, with program counter `pc`, and
Close from another.  `ensureReadCloser` is split where it lets go of its lock:
`NeedConnection` and `UseCurrent` are its first critical section, `Install` the
second, and the requests of `establishConnection` (`RequestFails`,
`ServerBusy`, `BadResponse`, `Accepted`) lie between them.  `retries` is
the 16-bit counter (`Width`), `interval` says whether the wait between attempts
is zero, in which case the timer and the closed channel are both ready.  An
event is its number; the server resumes after the Last-Event-ID.  `late` is a
history variable, counting requests after Close.

`SourceSpec` knows no connections: it returns events, ends, and after a Close
returns no event but the one a running Next had read.  Which event is returned
next depends on the event returned before and on the ID kept (`Follows`): the one
after either, or, with no ID kept, any not returned yet.  An event without an ID
(`Unnamed`) leaves the ID kept or loses it (`Keeps`), since the ID a connection
passes on starts empty with every connection.  If the server numbers every event,
all of this is returning them one by one (`OneByOne`).  The refinement maps
`returned` to itself, `last` to `lastEventID` and `phase` to `closed`, `pc` and
the end of a connection.

`SseLoops` adds the position in the loop (`at`) and the context.  All loops
share the source's steps (`Library`); `loop` says which one runs, and the
differences between them are in `LoopConnect`, `HandleEvent`, `HandleError` and
`SendErrorEvent`.

`SseReader` reads lines, which are a field with a value; `lineNo` is how many it
has read.  The stream is any short sequence of lines, or what the action `Write`
sends while the reader reads: each event in full, or up to the line at which
Write failed, after which nothing follows.  The reference definition does not
read line by line: it says which blank lines end an event (`EndsEvent`) and what
the lines before such a line say of it (`Says`): the last line of each field
since the line that ended the event before, the last `id` of the whole stream,
and all data lines.  One thing is left open there, the name of an event whose last
`event` line stands before a blank line without data (`NameBeforeBlank`): the
reader and the specification disagree on it (run `sse_name`).

### Onboarding

`authQ`, `eventQ` and `busQ` are the three queues (the last one reduced to
DELETEPRODUCER).  `inserted` separates the two steps of `addServiceToDB`,
`deleting` those of `deleteSystem`, `adding` the wait inside
`ValidateAndAddDevice`; `Gone` says that nothing of an address is left in the
table, the registry or any queue; `casts` counts the `go BroadcastService` goroutines that
have not sent yet.  `CrashAuth` and `CrashReader` lose any prefix of the queues
the process reads (automatic acknowledgement); `DeleteUnknown` is the nil
dereference on a name that is not registered, which includes the bracketed
Hostname of every IPv6 system.  `misread` is a history variable: a query of the
table has failed, or has broken off with some of the rows, which getInstancesFromDB
does not notice.  Lost passwords and addresses are outside: a device either
answers its first request or does not.

Assumed: a running process keeps its connection to the bus (the STOMP client
never reconnects), and queues are FIFO with one consumer process each.

### ConfigBus

`commandQueue` and `responseQueue` are the two fields of the one ConfigClient.
A handler (`pc[h]`) sets them, and for each operation of its `plan` builds a
command with the response queue of that moment, sends it to the command queue of
that moment, subscribes to the response queue of that moment and takes the first
message there.  What the broker had pushed behind it is lost with the
subscription.  The value a handler sets is the handler and the setting it is meant
for, so that a setting tells who put it in and for what.  The bus may refuse a send
or a subscription (`SendFails`, `SubscribeFails`, `ServeFails`): the call fails and
the handler goes on, although its response may still come; `busErrors` bounds that.
`overlap`, `unread` and `foreign` are history variables.

### DataBus

`receivers` is `Recievers`.  A `range` over an append-only slice sees the prefix
there was when it began, so `SendGroup` is an index `nextR[s]` that runs to
`lastR[s]`.  `pending` is the unbuffered channel between the goroutine that
reads the command queue (and runs the SUBSCRIBE hook) and the command loop;
`asker`, `todo` and `reply` are the command loop inside the nested loops of GET,
over the live cache.  `base`, `tried` and `answers` are history variables.

### RequestReply and CallSpec

Each member of `Calls` is one execution of `Call`.  `Pending` and `inbox` are
the map and its channels.  A call may be
refused before it registers, a send that failed may have been delivered, and a reply
taken may still be an error to the caller.  `CrashClient` empties the client's memory
and any prefix of the reply queue; later replies to dead calls stay in the queue and
reach the next incarnation.  `CallSpec` knows neither queues nor timers:
`Open`, `Handle` (at most once), `Answer` with the call's own result, `Fail`.
The refinement mapping is the identity on `outcome`, `result` and `handled`.

### KafkaPump, Gauges, OtelPump

`KafkaPump`: `settings` is what configService writes, `conf` main's copy of it;
`hand` is the group handleGroups works on and `pending` its messages, whose
topics are read from the settings when the group is taken.  A failed write may
have been stored, may be stored later (`flying`), or not at all.  `Exit` is the end
of the process, by os.Exit or a kill at any point (`WriteFails`, `DiesElsewhere`),
and the restart with the settings of the environment.  A topic is set as a text and
looked up with "/" as "_" (`TopicName`); the first connection is kept under the text.
`cut` is a history variable: the groups in hand when a process ended.

`Gauges`: `collectors` is the map of maps by context and name, `registry` what
MustRegister has taken.  The two programs differ in the keys and names they
build (`ContextKey`, `NameKey`, `FullName`).  A context is its text and whether
it had spaces, an ID its text and whether characters were replaced: the
conversions that make two names meet.  That joining different parts with "_" may
give one name too is left out.  `victoria`, what the last push that succeeded has
delivered, is in no property; a push that never returns stops the pump.

`OtelPump`: `ReadReport` takes the reports of the table in any order, as the range
over a Go map does, and keeps one row per key; which of several rows of one report
with the same key stays is left open.  `Convert` is the grouping and the conversion
of one group, `Export` the POST.

## 3. Runs

| Run | Instance | Shows |
|---|---|---|
| `stream_safety` | 2 listeners, 2 SSE goroutines each, channel 2, 2 reports | `TypeOK`, `AtMostOneStream`, `NeverSilent`, `SleepDelaysNothing`, `AtMostOneReadAfterDelete`, `InOrderNoGap` |
| `stream_liveness` | metrics only, channel 1, 2 reports | `EveryReadReportForwarded`, `EveryErrorRetried`, `DeletedDeviceStops` |
| `sse` | 3 events, the second without an ID, 3 connections, 2 retries, five loops; streams of 5 lines, 2 events written | `NoLeak`, `AtMostOneRequestAfterClose`, `EndedLoopReleases`, `InOrderSource`, `GivesUp`, `ReadsWhatWasWritten` |
| `sse_name` | streams of 4 lines | a violation, see below |
| `onboarding` | an IPv4 and an IPv6 system, 1 addition, 1 deletion, 1 crash, panics unbounded by it | `RegistryMatchesMonitors`, `OnlyCommittedMonitored`, `GoneStaysGone`, `EveryWantedSystemRegistered` |
| `config` | 2 handlers of six kinds, 4 settings of 3 pumps, 1 restart, 1 failure of the bus | `OwnAnswersWhenAlone`, `OnlyIntendedValues`, `LoneHandlerEnds` |
| `databus` | 1 system, 2 pumps with a queue each, 2 groups, 1 crash, failing sends | `EveryGroupOnce`, `MissesAtMostOne` |
| `databus_shared` | 2 systems, 2 pumps on one queue, 2 groups of each system, no failures | `GroupsArriveInOrder`, `EveryGroupReachesPump` |
| `databus_get` | 1 system, 2 pumps with a queue each, no failures | a violation, see below |
| `reqreply` | 3 calls, 2 crashes of either side | `NothingLeftBehind`, `DropsOnlyLateReplies`, `KeepsPromise`, `EveryCallEnds` |
| `pumps` | 2 groups, channel 1, 2 faults, settings that change; 3 metric values; a table with listed repetitions | `OneOrTwoCopies`, `FirstCopiesInOrder`, `LatestOrClash`, `ExportsWhatIsNamed` |
| `otel_names` | four rows of the shipped table | a violation, see below |

Each module's type invariant is checked in one of its runs.

Bounds.  Two SSE goroutines per listener are enough to show a second live stream,
and to let a new one start while the old one is still closing.  A channel of one or
two is full as soon as the listener is busy, which with ten takes ten reports.  Two
reports make an order; two groups make "the one in flight" and "the next".  Three
connections give one that broke, one that was opened while the source was closed and
one more; with them an event without an ID is repeated by a reconnect and then loses
the ID.  With two retries and a width of four the counter reaches its limit.  Five
lines hold an ID, data and a blank line with two lines that disturb them.  `Init` of
`Onboarding` takes every table, so one addition can follow the deletion of the same
system; one crash puts a restart at every point of every other activity.  Two
handlers are what it takes to overlap; the four settings include two of one pump, of
which the alert topic is always sent.  One failure of the bus leaves a response that
nobody waits for.  Three calls give one that has timed out, one that is open and one
that is new.  Two faults are a broken write and a failing retry. CHECK_DEADLOCK is
off because every model stops when its bounds are used up or when nothing is sent;
liveness is checked by properties instead.

Fairness.  Goroutines that can proceed are run by the Go scheduler: weak
fairness of each.  Devices, users and crashes are not fair.  `DeletedDeviceStops`
assumes a device that answers (`DeviceReachable`): a stream waiting for a silent
device never looks at its context, and one that keeps failing to connect is
restarted for ever.  `GivesUp` assumes that a request has some answer.
`Onboarding` assumes the first request to a device ends (`AddDevice`), which the
HTTP client, having no timeout, leaves to the network; restarts of containers
are fair by `restart: always` (`docker-compose-files/docker-compose.yml`).  In
`ConfigBus` handlers and pumps run, nobody need send a request, and the bus need not fail.  In
`RequestReply` only the calling goroutine is fair: its timer alone ends the call.

### What the runs found

`databus_get`: a pump never receives the groups it asks for.  `Get` is answered
with `Reply`, whose envelope has the type of the request, `get`
(`internal/wire/envelope.go:74`); `GetGroup`, which every pump runs on the same
queue, passes on only envelopes of type `datagroup`
(`internal/databus/databus.go:198`).  What the bus would give a late pump if
it read the answers is `MissesAtMostOne`.

`otel_names`: with the shipped table, which gives `LowerThresholdCritical` a name
of its own in two reports and does not list it under `repeatedMetricIds`
(`cmd/otelpump/redfishToOtel.yaml:2`), a value of one report is exported under
the name of the other, depending on the order of a Go map.

`sse_name`: a blank line without data before it ends nothing, "per the spec"
(`internal/sse/read_closer.go:70`), but the reader keeps the name it has read, which
the specification drops there: the next event is returned under the name of the one
that was skipped.

What the models show without contradicting a promise of the documentation: a
restart of redfishread forgets the subscriptions of all running pumps;
deletion of an IPv6 system by its listed name ends the process and deletes
nothing; a broadcast delayed past a deletion brings the system back (and nothing
does once none is on its way, `GoneStaysGone`); a reconnect after an event without
an ID repeats it, and after that skips events, as the ID is lost; a read of
the table that fails or breaks off is made up for by nothing; two overlapping settings pages
show and lose each other's answers, and a handler may then wait for ever; a
source whose server keeps answering 5xx never gives up; GetInventoryByUri leaves
its connection open; an ID that comes with an FQDD and without a context ends
prometheuspump, a context with and without spaces victoriapump.

## 4. Proofs

Each proof module extends the module it is about and has the shape: a type
lemma and an invariant lemma over all steps, the invariant as a theorem, and the
properties as consequences.  The assumptions are those of the constants, named
below, which TLC evaluates in the runs: they say that bounds and sizes are
numbers, and of what form a row, a group or a text is.

`DeviceStreamProofs`, for any set of goroutines, any positive channel capacity,
any number of reports, with or without alerts; assumption `StreamConstants`.

- `TypeCorrect`: `Spec => []TypeOK`.
- `StreamInvariant`: `Spec => []StreamInv`.  `AtMostOneStream` and `NeverSilent`
  are not inductive: from "one live stream" alone a second could be launched by
  an error still in the channel.  The strengthening says that each started
  listener owns exactly one token: a live stream, or one error event, which is
  then the last element of the channel, or the listener's own decision to launch
  (`TokenAt`), together with what a goroutine holds in each phase (`HandInv`)
  and that nothing moves before the listener has started (`NotStartedYet`).
  Each action moves the token or leaves it.
- `OneStream`, `ListenerNeverSilent`, `BackOffDelaysNothing` follow from it.
- `ReadAfterDelete`: at most one report per listener is read after a deletion,
  by the invariant that after it a stream is in `next` only while nothing more
  than at the cut has been read.
- `OrderInvariant`, then `ForwardedInOrder`: `InOrderNoGap`.  That the next report
  forwarded has the next number needs to be known of every place a report can be
  in: the channel carries, in order and without a gap, exactly the reports
  between what the listener has taken and what the streams have sent (`Carries`),
  and only the one live stream may hold one more (`OrderAt`).  It rests on
  `StreamInv`: with two live streams the hands could send in either order.

`SseProofs`, for any number of events, connections and retries and every loop,
and for any lines, values and events of the reader; assumptions
`EventSourceConstants`, `LoopsConstants`, `ReaderConstants`, `MCConstants`.  The
theorems about the loops are about `LoopsSafety`, the specification without its
fairness.

- `TypeCorrect`, then `SourceInvariant`.  `NoLeak` is not inductive: that Install
  leaves no second connection open needs that there is no current one while one
  is sought (`Seeking`), that Next reads from the current one unless Close has
  taken it (`Holding`), that an ended connection stays current (`EndIsFinal`),
  and that an error is returned with none open (`ErrorsRelease`).
- `NoConnectionLost`: `NoLeak`.  `EndedLoopsHoldNothing`: `EndedLoopReleases`,
  with what a loop may be doing in each place (`LoopInv`).
- `ReconnectsResume`: `InOrderSource`, the implementation of `SourceSpec`, whichever
  events carry no ID: the connection that is read is at an event `SourceSpec` lets
  follow, and what it would pass on as the ID is the ID kept or none (`InStep`).
- `NumberedEventsOnce`: what that means to the caller.  The ID kept is at most the
  last event returned, and every event between the two is one without an ID
  (`Kept`); so a numbered event is returned once and after those before it
  (`NumberedOnce`), and while an ID is kept none is skipped (`NoneMissed`).
- `ReconnectsInvisible`: for a server that numbers every event (`Unnamed = {}`, as
  iDRACs do) each event returned is the one after the last (`OneByOne`).
- `OneRequestAfterClose`: `AtMostOneRequestAfterClose`, by where Next can be once a
  request has been made on a closed source (`LateInv`): not waiting to read again.
- `ReaderTypeCorrect`; `WriterInvariant`: the wire is the encoded events one after
  the other, the last perhaps cut off (`Layout`), and the reader is some lines into
  the event after those it has returned, with the fields these lines give it
  (`Progress`).  That `Encode` is what it is line by line is the lemma `EncodeAt`.
- `ReferenceInvariant`: for any stream, the event under construction is what the
  lines since the last event say, and no blank line has come after its data
  (`Constructing`); while no `id` line has come, its ID is the last one.  The
  lemmas follow the reference over one more line (`KeepsField`, `KeepsData`,
  `KeepsFresh`) and show that lines written later change nothing before them
  (`SameLines`).
- `ReadsBack`: `ReadsWhatWasWritten`, from the last two.
- `EachHalfBehaves`: a behaviour of `MCSse` is one of the loops and one of the
  reader, so what is proved of each holds in the composition that is checked;
  `SseTypeCorrect`: `MCTypeOK`.

`OnboardingProofs`, for any addresses and any number of additions, deletions and
crashes; assumption `OnboardingConstants`.

- `OnboardingInvariant`.  Not even `TypeOK` is inductive: that the inserted row is
  an address needs that only deletions carry the UI's names
  (`AddsNameAddresses`).  `RegistryMatchesMonitors` needs that the device being
  connected to is not registered meanwhile (`ConnectsAbsent`), and
  `OnlyCommittedMonitored` that everything between table and registry (the
  inserted row, waiting broadcasts, the event queue) has been committed
  (`OnlyCommittedSent`).
- `TypeCorrect`, `OneMonitorPerDevice`, `ConnectsOnlyCommitted` follow.
- `OnlyUsersBringBack`: `GoneStaysGone`.  A broadcast is only ever made of a row, a
  registration only of a broadcast, and a crash or an acknowledged message that is
  lost adds nothing to a queue (`StillLacks`), so from where an address is in none
  of them only an ADDSERVICE command leads back.

`ConfigBusProofs`, for any handlers, any of the settings in use and any number of
restarts and failures of the bus; assumption `ConfigBusConstants`.

- `TypeCorrect`.
- `SettingsAsIntended`: `OnlyIntendedValues`, although commands do reach the wrong
  pump.  The invariant (`IntentInv`) says that a handler plans and sends only
  settings of its own pump, each with the value meant for it, and that what a pump
  holds was sent by one that meant it for that setting: a stray command names a
  setting the pump does not have (`EntriesDisjoint`).
- `LoneHandlersReadTheirOwn`: `OwnAnswersWhenAlone`.  Until two handlers have
  overlapped, or a call has failed with its response to come, one message at most is
  under way in all queues together, and it is about the operation the active handler
  is waiting for (`OneAtATime`); a restart of a pump, which loses a prefix of its
  queue, loses all of it or nothing.

`DataBusProofs`, for any systems, pumps and queues (shared or not), any number of
groups and crashes, with failing sends; assumption `DataBusConstants`.

- `BusInvariant`.  `EveryGroupOnce` needs that a queue is recorded once and a loop
  stays within the list (`LoopsWithin`), and that nothing is counted for a queue
  before it is recorded (`NotCounted`).  `MissesAtMostOne` needs that the cache is
  one group behind exactly while its listener sends (`CacheBehind`), hence what
  had been begun when a queue was recorded is at most one more than what is
  cached ever after (`BaseBehind`).
- `TypeCorrect`, `GroupsSentOnce`, `BoundedGap` follow.
- `ArriveInvariant`, then `NoGroupLostOnTheWay`: `GroupsArriveInOrder`.  That a group
  sent is newer than all on the queue needs a bound on what is on the queue and on
  what was handed on: no later than the last group whose loop has come past the
  queue (`SentTo`).  It also needs that answers to GET, which a pump drops, are no
  groups (`RepliesAreGets`).  It rests on `BusInv`: a queue recorded twice would be
  sent a group twice.

`RequestReplyProofs`, for any set of calls and any number of crashes;
assumption `RequestReplyConstants`.

- `TypeCorrect`, then `CallInvariant`.  That a call returns its own
  answer is not inductive: it needs that requests in the queue are distinct and
  not handled yet (`RequestsFresh`), that none is handled before it is sent or
  twice (`HandledOnce`), that each reply in the queue or in a channel answers the
  request whose correlation ID it has (`RepliesGenuine`), and that the map holds
  exactly the open calls (`PendingExact`).  A crash leaves a suffix of a queue
  (`LostSuffix`), which keeps all of this.
- `LeavesNothing`: `NothingLeftBehind`.  `PromiseKept`: `KeepsPromise`, the
  implementation of `CallSpec`: each step is one of `Open`, `Handle`, `Answer`,
  `Fail`, `FailAll` or a stutter.

- `RepliesUnique`, then `RepliesInTimeKept`: `DropsOnlyLateReplies`.  A request has
  at most one reply, still to be made, in the queue or in the channel
  (`OneReply`), so the channel of a call that waits has room for it.

`KafkaPumpProofs`, for any settings, topics, groups and number of failures;
assumptions `KafkaPumpConstants`, `TopicNames`.

- `KafkaTypeCorrect`, then `KafkaInvariant`.  Groups are written in the order of the
  channel and only while in hand (`GroupsInOrder`), what is pending belongs to the
  group in hand with no record twice (`PendingInHand`), and stored copies and
  copies that may still be stored late are counted together: none before its
  message is the first one pending, one at most until it is retried, two after
  (`AtMostTwo`).  What has not been stored is pending (`AllStored`).
- `KafkaOneOrTwoCopies`: `OneOrTwoCopies`.  `KafkaFirstCopiesInOrder`:
  `FirstCopiesInOrder`, which also needs that what may be stored late in partition 0
  is of a group that is there already, is in hand, or was in hand when a process
  ended (`LateAreSecond`).  The last are what the property leaves out: a request such
  a process left behind may be stored for the first time after later groups.

`PumpProofs`, for any table of names and any groups, and for any contexts, metric
IDs and number of values; assumptions `OtelPumpConstants`, `GaugesConstants`.

- `OtelInvariant`: the table has one row per key, complete and under its own key,
  and one for every key of the reports read (`TableInv`), and every request, on its
  way or received, is faithful to its group (`Faithful`).  `OtelExportsWhatIsNamed`
  and `OtelTypeCorrect` follow.
- `GaugesInvariant`: every gauge was created for a value seen (`Origins`), every
  value seen has its gauge while the pump runs (`Known`) and shows the last reading
  (`Current`), and a pump that died saw a name that is none or two values
  that need one full name under two keys.  It rests on no context being the bare word
  under which all FQDDs are kept (`OneKeyOneLabels`).
  `GaugesLatestOrClash`, `GaugesTypeCorrect`.
- `EachPumpBehaves`: a behaviour of `MCPumps` is one of each pump;
  `PumpsTypeCorrect`: `MCTypeOK`, from the type theorems of the three.

Only model-checked: the liveness properties (`EveryReadReportForwarded`,
`EveryErrorRetried`, `DeletedDeviceStops`, `GivesUp`,
`EveryWantedSystemRegistered`, `LoneHandlerEnds`, `EveryGroupReachesPump`,
`EveryCallEnds`), because liveness under fairness and ENABLED are out of the
prover's reach.  Every invariant, action property and refinement of the passing
runs is a theorem.

## 5. Not modelled, and why

- splunkpump, influxpump, timescalepump, elkpump, elkpump-basic: sequential
  translation of a group into a database's format, no state between groups.
- simpleauth and simpledisc: an alternative to dbdiscauth that reads its services
  once; their protocol is a part of `Onboarding`'s.
- Payload navigation, report parsing and value formats: JSON without state that
  outlives a call; a report is its number, a value its kind.
- The AMQP wrapper, and the receiving half of the Kafka adapter, which nothing
  uses; the STOMP adapter is modelled by its use (FIFO queues, automatic
  acknowledgement, prefetched messages lost with the process).
- The HEC commands of dbdiscauth, the exporter's TLS settings, the front end, the
  source simulator, process listing and SDK examples.

Places where the code may go wrong that no model reaches, besides the hazards
listed in `PROJECT.json`:

- the listener goroutine of a deleted device waits on its channel for ever
  (`pkg/redfishread/redfishdevice.go:98`), and `RedfishMonitorStart` returns for
  good when its first requests fail (`pkg/redfishread/redfishread.go:115`);
- a broken STOMP connection ends the receive loop and is never opened again
  (`internal/messagebus/stomp/stomp.go:78`); an error inside the sync.Once of the
  reply listener is kept for the life of the client
  (`internal/service/service.go:102`);
- cached groups of deleted systems stay (`pkg/databus/databus.go:49`);
- ListenForLceEvents dereferences a result without looking at its error
  (`internal/redfish/redfish.go:464`), and getSplunkHttpConfig does
  (`cmd/configui/configui.go:145`; a panic of the handler in `ConfigBus`);
- kafkapump's connection loop goes on with the settings it has read
  (`cmd/kafkapump/kafkapump.go:349`); otelpump gives the certificate's path where
  PEM is expected (`cmd/otelpump/httpexporter.go:61`); the attributes of a scope
  are those of whichever metric comes first (`cmd/otelpump/otelpump.go:491`);
- elkpump's document IDs (`cmd/elkpump/elkpump.go:57`) and splunkpump's nil events
  (`cmd/splunkpump/splunkpump.go:168`).

## 6. What could follow

A composition of `Onboarding` and `DataBus` for the cached groups of deleted
systems, and the loss of a connection to the bus, which no process survives by
itself.
