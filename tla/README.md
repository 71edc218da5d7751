# A verification of AvalancheMQ

AvalancheMQ (1.0.0-alpha.31, Crystal) is an AMQP 0-9-1 broker in one process.
Clients publish messages to exchanges, exchanges route them to queues, queues
push them to consumers, consumers acknowledge them. Message bodies live in
append-only segment files shared by all queues of a virtual host; a queue holds
only positions (`SegmentPosition`) into them. The broker serves a web interface
whose pages talk to it over HTTP and, with an AMQP client of their own, over a
WebSocket. This directory models the system in TLA+, checks the models with TLC,
and proves theorems about them with TLAPS.

Paths without `src/` are relative to `src/src/avalanchemq/` of the repository
(Crystal) or to `src/static/js/` (JavaScript).

## How the program runs

Crystal schedules fibers cooperatively on one thread: a fiber runs until it
blocks on a channel, a lock, a timer or a socket. There are

- one fiber per client connection, the read loop (`client/client.cr`), that
  processes a frame completely before the next one,
- one deliver-loop fiber per queue (`queue/queue.cr`),
- per virtual host: a writer of the definitions log, fsync fibers and a segment
  collector (`vhost.cr`),
- fibers for heartbeats, shovels, federation links, statistics and HTTP requests.

All hazards of the broker come from what happens at the blocking points: writes
to sockets, sends and receives on Crystal channels, locks, timers, `fsync`, and,
for what is on disk, from a crash at any point.

A browser page runs one task at a time: an event, an answer, a timer. What a
promise triggers runs as a job between two tasks, in order. Its hazards come
from answers in any order and from jobs that run after what they depend on has
changed.

## Inventory

| component | state | operations | interacts with | what makes it correct |
|---|---|---|---|---|
| queue delivery (`queue/queue.cr`, `ready.cr`, `unacked.cr`) | `@ready`, `@unacked`, `@consumers`, wake-up channels with one slot | publish, get, deliver loop, ack, reject, requeue, purge, rm_consumer | channels and consumers (calls), vhost (publish, gc) | no loss, one holder per message, publishing order, the loop wakes when there is work |
| channel (`client/channel.cr`, `client/channel/consumer.cr`) | `@unacked`, `@delivery_tag`, prefetch, flow, confirm counters | consume, get, ack, nack, reject, recover, qos, flow, close, publish | queues, vhost | acks settle what they name, counters match entries, prefetch respected, nothing stranded at close |
| client connection (`client/client.cr`, `client/amqp_connection.cr`) | `@running`, channels, socket | frame dispatch, deliver, close, cleanup | channels, vhost, server | clean-up happens once and returns everything |
| consumer store (`consumer_store.cr`) | priority groups, round-robin order | add, delete, next_consumer | deliver loop | a consumer that accepts is found, priorities are respected |
| publisher confirms and fsync (`vhost.cr`, `client/channel.cr`) | `@awaiting_confirm`, `@confirm_total`, `@confirm_count` | publish, fsync, open_new_segment, send_publish_confirms | channels, segment files | a confirmed message is on disk, every publish is confirmed |
| durable queue index (`queue/durable_queue.cr`) | `enq` and `ack` files | publish, delete_message, purge, compact_index!, restore_index | queue, segment files | after a restart a queue has what was outstanding |
| message store and segment GC (`vhost.cr`, `vhost/*.cr`) | segment files, `@dirty` | write_to_disk, collect_sps, gc_segments, punch_hole | all queues | a referenced position is never deleted |
| topology definitions (`vhost.cr`) | definitions log, exchanges, queues, bindings | apply, load_definitions!, compact! | queues, exchanges | a restart rebuilds the topology |
| exchanges and routing (`exchange/*.cr`, `consistent_hasher.cr`) | bindings | bind, unbind, matches, find_all_queues | vhost publish | each matching queue once |
| queue policies (`policy.cr`, `queue/queue.cr`, special queues) | TTL, max-length, delivery limit, DLX | expire, drop overflow, dead letter | vhost publish | what is dropped or expired is disposed of exactly once, positions stay in order |
| server flow and shutdown (`server.cr`, `vhost.cr`) | flow flag, pause channels | flow=, pause!, resume!, close | all queues and channels | publishers and loops resume, shutdown ends |
| shovel (`shovel/*.cr`) | source, destination, state | start, run, ack, terminate | AMQP client library | a message leaves the source only after the destination has it |
| federation (`federation/*.cr`) | links, state | start, run_loop, terminate | AMQP client library | a terminated link stays terminated |
| users and permissions (`user.cr`, `user_store.cr`) | users, permission caches | create, permit, revoke | channels | a revoked permission is not used |
| AMQP WebSocket client (`lib/amqp-websocket-client.mjs`) | channel objects, queues of promises, unconfirmed tags, consumers, messages being put together | every method of a channel, `parseFrames`, close from either side | the broker's read loop and deliveries, over a socket | a reply settles the call it answers, no call waits for ever, messages arrive whole, what is encoded is decoded |
| tables and charts (`table.js`, `chart.js`, `http.js`) | order, filter, page, timer, rows, points of a series | click, search, load, poll, answer | HTTP API lists | what is shown is what the server lists for what the user asked |
| HTTP API (`http/*`) | - | filter, sort and page a list; calls of the other components | all | - |
| pages, forms, CLI, config, proxy protocol, schema, stdlib patches | - | - | - | parsing, formatting, single requests |

`PROJECT.json` lists the components with their files, and under `hazards` every
place where this code is hard to test, with the properties that cover it.

## Modules

| module | what it is |
|---|---|
| `Delivery` | queues, channels and consumers: how messages are delivered, settled and returned |
| `QueueContract` | the abstract promise of a queue, implemented by `Delivery` |
| `MCDelivery` | instances of `Delivery` for TLC |
| `Delivery_proofs` | for every value of the constants: types and counters, limits, no loss, no sleeping deliver loop, one place per message |
| `DeliveryContract_proofs` | `Delivery` implements `QueueContract`; acknowledgements are exact, nothing is stranded, the loop is told of its consumers or about to be |
| `Store` | segments, index files, confirms, the collector, crashes and restarts |
| `StoreIndex_proofs` | the lock discipline and the types of `Store`; the index files say what is in memory |
| `StoreDurability_proofs` | nothing referenced is collected, confirmed messages survive, deques stay in order |
| `Definitions` | the topology of a virtual host, its definitions file, crashes and restarts |
| `MCDefinitions` | instances of it for TLC |
| `WebClient` | the AMQP client of the web pages with the broker it talks to |
| `WebCodec` | how that client writes and reads tables, properties and bodies |
| `MCWebClient` | instances of both for TLC |
| `WebClient_proofs` | the types of `WebClient`; calls, objects, jobs and frames refer to each other as the code assumes |
| `WebClientLife_proofs` | no reply arrives for a channel the client no longer has |
| `WebClientMessages_proofs` | messages are put together from their own frames |
| `WebPages` | the algorithms of tables and charts |
| `Table` | a table of the management pages, its user, its timers and the server |
| `MCTable` | instances of both for TLC |
| `Table_proofs` | the order the user clicked last is kept |

Operators named `Faulty...` are plausible mistakes in the code next to them;
nothing uses them. Put in place of the operator they follow they break the
property that guards against them (`PROJECT.json`, `mutants`).

### Delivery

State and code:

| variable | code |
|---|---|
| `ready`, `unacked` | `Queue#@ready`, `Queue#@unacked`. Both deques are sorted by position, so `ready` is a count per position and `unacked` a set |
| `msgToken`, `consToken` | the wake-up channels `@message_available` and `@consumer_available`: one slot, a send to a full one does nothing |
| `pc`, `inflight` | where the deliver loop stands and the delivery it is writing |
| `chState` | `open`, `lost` (socket closed, read loop has not noticed), `closed` (channel closed, connection up), `gone` |
| `chUnacked`, `deliveryTag`, `qos`, `flow` | the fields of `Channel` |
| `cState`, `cUnacked` | a `Consumer`: not yet there, active, cancelled, closed; its `@unacked` counter |
| `reply` | a handler of Basic.Qos or Basic.Recover that writes its reply, and whom it tells afterwards |
| `pending`, `raced` | history, see below |

A handler blocks while it writes its reply. For most it is the first or the last thing
they do, so the handler is one action and the next frame of the channel just comes
later. `BasicQos` and `BasicRecover` change the limit and the counters, write QosOk or
RecoverOk, and only then tell the deliver loops (`client/channel.cr:512-528`): they are
two actions, the second of which is `ReplyWritten`. Until it has run, no other frame of
the channel is read, while deliver loops and other channels go on. A deliver loop blocks
on its two channels and while it writes a delivery to the socket, so a delivery is two
actions: `StartDelivery` (the message is taken, accounted for, tagged) and
`DeliveryDone` or `DeliveryFailed`; everything else can happen in between. The loop's
other steps are separate actions too, which allows a few more interleavings than the
scheduler does.

A write that fails *after* the channel was closed (or the message acknowledged)
puts the message back a second time. The history variable `raced` remembers that
it happened; the properties about duplicates hold until then, and their theorems
say so.

Left out: message bodies, statistics, the `requeued` flags, TTL, length and
delivery limits and dead lettering, pausing, exclusive consumers, priorities
(which accepting consumer is served next is left open, so the properties hold for
every order), deletion of queues, more than one channel per connection. A reply
whose write fails is the separate action `WriteError`; a handler goes on after it, as
the code does. A multiple ack is one
step: its statistics events can block in the code, while it holds the lock of the
list. Two entries of one queue, position and consumer are one element of the set
`unacked`; that can only happen after `raced`.

Properties:

- `TypeOK`; in particular the unsigned counter of a consumer never underflows.
- `NoLoss`, `OnePlace`: a message outstanding is somewhere, and at one place only;
  once disposed of it never reappears.
- `ListsAgree`: the queue's list and the channels' lists describe the same
  deliveries.
- `NoStrandedMessages`: what a queue holds as unacknowledged some channel can still
  settle or return.
- `CounterExact`, `PrefetchRespected`: the prefetch counter is the number of
  entries, and no delivery exceeds the limit.
- `AckSettlesItsTag`: an acknowledgement that settles anything settles exactly the
  deliveries it names: the one with its tag, with multiple all up to it, and no other.
- `MessageWakeup`: a deliver loop that waits for a message while there is one has a
  token to receive.
- `ConsumerWakeup`: one that waits for a consumer while one accepts has a token, or a
  handler that is still writing its reply will send one (`ToldSoon`).
- `KeepsContract`: `Delivery` implements `QueueContract`, with `places` as refinement
  mapping: messages are handed out in publishing order, come back at most where
  they were, and never come back from "gone".
- `AllDisposed`: with consumers that settle, every message is eventually disposed of.

### Store

A position is a number, its segment times `SegSize` plus its place in the segment;
`owner` says with which channel and tag it was published.

| variable | code |
|---|---|
| `wseg`, `wsize`, `segments` | `@wfile` with its size and the files of `@segments` (`vhost.cr`) |
| `synced`, `gone`, `dirty` | what an `msync` wrote back, what is punched, truncated or lost, `@dirty` |
| `ready`, `unacked` | the queue's deques, here as sequences: their order matters to the collector |
| `index` | `@enq` with the part written back, and `@ack` (`queue/durable_queue.cr`) |
| `serving` | the delivery the deliver loop is in: waiting for the lock, sending confirms, writing |
| `pc`, `writer`, `holder`, `blocked`, `left` | who waits for and who holds `@write_lock` and `@awaiting_confirm_lock`, and whom the holder has still to tell |
| `total`, `confirmed`, `awaiting`, `fsync`, `fibers`, `toSync` | `@confirm_total`, what the client was told, `@awaiting_confirm`, `@fsync`, fsync fibers not yet begun, `@queues_to_fsync` |
| `promised`, `settled`, `later`, `exposed`, `rewritten`, `spoiled` | history |

Fibers switch at the two locks and at writes to sockets: `Publish` runs until it
needs a lock somebody holds, `FsyncBegins` until the lock is free, and every
channel is told by a `confirm_ack` of its own, since the write can block. Opening
a segment (`Write` at a full segment, `RollTakesLock`, `confirm_ack`, `Rolled`)
holds the write lock throughout. A `Deposit` writes the message and enqueues it
in every queue in one step, with the head a length limit drops and its dead
letter inside it, in the order the code does (`RoutedAndDropped`).

What an fsync writes back. `MFile#fsync` syncs the file up to `@pos`
(`mfile.cr:124-126`), and after a restart that is behind the version prefix, until
something is appended (`vhost.cr:706-717`). `appended` says whether it was; `Covered` is
what an fsync of the current segment writes back, all of it or only what is in the
first page. What it misses after a restart (`LeftOut`) stays `later`, and `exposed` if it
was confirmed, until a crash of the machine decides about it.

Crashes. `ProcessCrash` keeps all files, since an mmapped page survives the
process. `MachineCrash` keeps of each kind of file either all or what was written
back: an `msync` of the segment and of the enq files, never of an ack file.
`Shutdown` stops with no operation under way. All three are followed by
`Restart`, which reads the index files (`restore_index`) and the segments.

`spoiled` names the positions that one of the deviations listed below has touched.
The properties leave those out, and only those:

- `IndexExact`: at any moment, the index files say what the queue has in memory.
- `RestartExact`: a restart makes ready, in order, exactly what the queue held.
- `InOrder`: requeues, failed deliveries, segments and restarts keep deques sorted.
- `ReferencedOnDisk`: no collection takes what a queue or its index refers to.
- `ConfirmedSurvives`: a confirmed message is kept until it is settled, also when
  the machine crashes, after any crashes and restarts before.
- `ConfirmsEventually`: all that is published is confirmed in the end.
- `StoreTypeOK` with `Locks`: types and the lock discipline.

Assumed and left out: one exchange, messages persistent and all of one size, one
limited queue of length 1; a dead letter never itself opens a segment (bound in
`Deposit`); a compaction is one step, so a crash inside it is not covered;
overflow by reject-publish, disconnects of publishers, delayed and priority
queues, and the bookkeeping of holes already punched.

### Definitions

`memory` is the topology: what `@exchanges` and `@queues` hold and how it is bound.
`save` holds the frames in `@save`, `file` those of `definitions.amqp`. `Declare`,
`Delete`, `Bind` and `Unbind` are the branches of `VHost#apply`, reached from clients,
the HTTP API and the program itself; `Save` is one turn of the writer fiber; `Crash`
loses `save` and `Shutdown` replaces the file by a snapshot, and both are followed by
`load_definitions!`, which replaces the file too when it holds deletions.

Fibers run one at a time and each until it waits. In a deletion there are three such
points: `apply` yields on every 128th call (`vhost.cr:344`), `Queue#close` tells
consumers and yields (`queue/queue.cr:382-391`), and `@save` may be full. `todo` holds
what a fiber has still to do in the apply it is in, innermost first: a deletion by
name (`Apply`), the bindings it has still to undo (`Loop`), a frame it has still to send
(`Send`), room it waits for (`Wait`). Only where the next of these is `Apply` or `Wait` may
another fiber, the writer or a shutdown come in between (`Free`). Whether a given call
is the 128th is left open: other fibers can make any number of calls in between.

So a deletion removes the thing from memory (`Removes`), undoes what is bound to it one
by one (`UnbindsNext`), which makes an auto-delete exchange that loses its last binding
delete itself at that point (`Unbinds`, `Applies`), and sends its frame (`SendsNext`). An
exchange calls its own `delete` before the frame is sent, a queue after; either comes
back to the vhost with the *name*, and deletes what has it by then. A frame that does
not fit into `@save` is at its end already here, and its fiber waits until it has
moved up: senders to a full channel are served in order.

The file is folded by rules of its own (`LoadFrame`): a deleted exchange takes the
binds to it from the file, but not those from it, and an Unbind is compared by its
arguments, which most exchanges ignore and headers exchanges merge with their own.
`gaps` is history: where the file is known to differ because of such rules and because
of changes made in the middle of a deletion; the deviations are described below.
Each frame in `save` carries the topology it led to, and `written` is that of the last
one on the file.

- `LogExact`: file and frames under way fold into what is durable in memory, at every
  point of a deletion: except for what a frame that is due will undo, and for gaps.
- `RestartRestores`: a stopped broker comes back with exactly what was durable, at most
  with a binding by name of what a deletion was unbinding; a crashed one with what
  was durable at the last frame on the file, with the exceptions of `LogExact`.
- `DeletesCascade`: what is bound exists, or a fiber is about to unbind it; an
  auto-delete exchange that loses its last binding is about to be removed, and so is
  whatever has begun to delete itself, although others may bind it again meanwhile.

The gaps: `ghosts`, pairs of names for which the file keeps a binding that memory has
lost; `torn`, names declared before the Delete frame of their predecessor was sent;
`lost`, bindings made before the frame that unbinds them was.

Assumed and left out: one routing key; names of exchanges and queues are disjoint; a
frame is written whole; the order in which fibers that can run do, and that in which
bindings are undone, are left open; an apply that yields before it has looked at
anything is one that begins later; the exchanges that always exist and those that
delay or keep messages; exclusive and internal queues, policies, and the refusals of
clients' requests, which change nothing.

### WebClient and WebCodec

`calls` are the promises the page was given, `objs` the `AMQPChannel` objects,
`channels` the ids in use, `jobs` the microtasks, `toServer` and `toClient` the
frames under way (one frame is one WebSocket message), `broker` what the read loop
of the connection keeps. An action of the page is one call; `ParseFrame` is the
handler of one frame and needs `jobs` to be empty, as the event loop does;
`RunJob` is the continuation of a promise. The broker's actions answer frames in
the order they come, deliver, confirm, cancel, stop and refuse; what decides
between two allowed answers is left open.

A delivery is two steps. `BrokerChecks` is the check of `@running` in `Channel#deliver`;
`BrokerDelivers` is the write after waiting for the lock of the confirms and for that of
the socket, with no check in between (`client/channel.cr:292-299`). CancelOk, Close and
CloseOk can be written in between, and the Deliver then comes after them
(`late delivery` below).

The client has gaps that are known and that no property can hold across. A
behaviour that runs into one says so in `odd`, and each property leaves out just
the gaps that break it; the definitions name them. The list is below.

- `RepliesMatch`: a reply settles the call it answers, though replies carry no
  number.
- `NoCallForgotten`, `EveryCallSettles`: whatever is pending can still be settled,
  and is.
- `NoReplyAfterClose`: no reply is parsed for a channel the client no longer has, but
  after `closes crossed` and `half closed`. It says nothing of deliveries.
- `NoDeliveryDropped`: a delivery written while the broker has its consumer finds it in
  the client: it is registered in time, and forgotten only for a frame written later.
- `ConfirmsMatch`: a publish is resolved or rejected as the broker decided.
- `MessagesWhole`: a message handed over is put together from its own frames, in every
  behaviour. A part without a start comes only after `late delivery`, `closes crossed`
  or `half closed`.
- `TablesReadBack`, `PropertiesReadBack`, `BodiesWhole` (in `WebCodec`
  `TablesSurvive`, ...): what is encoded is decoded to the same and the reader ends
  where the writer did; a body arrives whole, in frames the agreed size allows.

In `WebCodec` a number, a string or a length is one cell; what matters is where
the reader goes on, and which numbers are changed: an integer is written as a long
int of `IntBits`, any other number as a float with `FloatBits` significant bits, to which
it is rounded (`Float`); `Fits` names what those hold. A buffer of `FrameMax`
stands for the 4096 bytes of the code.

### Table and WebPages

`server` is what the server lists; `order`, `term`, `page` what the user asked for;
`url` and `stored` the query string and `sessionStorage`; `typing` and `ticking` the
timers; `flight` the requests out, each with the query it was made with; `rows`,
`links`, `error` what the page shows. A link carries the column and the filter of when
it was drawn (`table.js:115-124`, `246-288`), also a column that was null and is the
text `null` in the link, and that is what following it loads; `drawn` says before which
click it was drawn. `astray` is history: such a link was followed after a later click.
`Sort`, `Search`, `Load` are the user's, `SearchSettles` and `Tick` the timers', `Serve`
the server's, and `Arrive`, `Garbled` and `Fail` the ways a request ends. `Answer` is
what `http/controller.cr` does to a list.

- `FreshEventually`: when user and server are at rest, a table that polls comes to
  show what the server lists for what the user asked, whatever overtook what.
- `SortKept`: reloads, links, the menu and answers keep the column clicked last, unless
  a link drawn before that click is followed (`astray`); the direction is at worst lost
  to the ascending default.
- `RowsExact` (`UpdateExact`): after an answer the rows are its items, in order,
  whatever rows were there.
- `LinksReach` (`PagesReachable`): every page is reached from every page by links.
- `ChartRight` (`NoHoles`, `ReadingsKept`): a chart has no hole longer
  than the polling interval and keeps the readings of the time it shows, as long as
  fewer than MAX_TICKS points fall into that time. Points are stamped when the answer
  arrives, so after a late answer the next gap is shorter than the interval, and
  enough of those make `chart.js:169-171` drop a reading that is still on the axis.

## Runs

| run | instance | shows |
|---|---|---|
| `settle` | two clients, one consumer each, one queue; ack, multiple ack, reject, requeue, get, recover; prefetch 2; 2 messages, 4 tags per channel | settling in every order and combination |
| `failure` | the same, one consumer with no_ack; cancel, get, purge, close, disconnect, write errors; 2 messages, 2 tags | failures at every point of a delivery; the refinement |
| `prefetch` | one channel, a consumer on each of two queues; prefetch changes between none, one per consumer, one per channel; flow; recover without requeue; 3 tags | the limit in force is respected |
| `live` | one channel, two consumers of one queue; prefetch 1 or 2, changing; 4 messages | wake-ups and progress |
| `store` | one publisher, a queue of length 1 and its dead letter queue, segments of 2, an ack file of 1, two crashes of any kind, 4 positions (3 when both crashes happen) | index, order, collection and confirms across crashes; what one restart leaves to the next crash |
| `fsync` | two publishers, segments of 1, 2 positions; purge, consumers without acks | the locks of confirms and segments, progress; purges |
| `calls` | one channel id used by two channel objects, 5 calls, a message of one body frame; errors, cancels by the broker, a lost socket | replies, consumers and closes; the codec |
| `confirms` | the same id and 5 calls; confirms, deliveries, returns; refusals, errors, a stop | confirms, assembly of messages, progress |
| `table` | two items, pages of one, two columns, two clicks, a search, a load, a change, a failed answer, two requests out | the order clicked last, what a table shows in the end; rows, links and charts |
| `definitions` | two fibers, a durable headers exchange that deletes itself and has an argument, a direct exchange that is durable or deletes itself, a durable queue that may delete itself; room for 1 frame, no change begins with more than 3, 2 restarts | the definitions file across deletions others interfere with, compactions and crashes |
| `stale_ack`, `order` | the smallest instance each | the code does other than the repository says, see `findings` |

Bounds. `Delivery`: two messages are enough for order and for a multiple acknowledgement
that covers more than one; two clients and two consumers for one consumer's messages
going to another; two queues for the wake-up of one by the other. A redelivery needs a
second tag, and the `MaxTag` of a run leaves room for every message to be delivered at
least twice in total. `Store`: four positions in segments of two fill a segment, roll to
the next and leave one between two references for the collector; an ack file of one
makes every second settlement compact the index; after one crash the broker publishes,
settles and collects again; a process crash, a roll and a machine crash need two crashes
and three messages. `MaxEvents` bounds positions and crashes together. `fsync` gives
every message its own segment, so that each publisher may open one while the other's
fibers wait. `Definitions`: a change begins with at most three frames on the file and on
the way and may send several more: enough to declare a chain of two auto-delete
exchanges on a queue, delete the queue and declare it again while the exchanges go; one
place in `@save` makes the second frame of a deletion wait, and two fibers are one in a
deletion and one that interferes. After the first restart the file is a snapshot, and
more is done to it before the second. Three frames are not enough for a binding to
become `lost`; simulations with seven frames meet it. `WebClient`: five calls are enough
to open a channel, use it, close it and open another under the same id while replies to
the first are under way, or to publish twice with confirms on it. `Table`: two requests
out are enough for one to overtake the other. `WebPages` and `WebCodec` are checked on
every row table of up to three rows against every answer of up to three items, every
number of pages up to 12, six answers to polls at every mix of gaps of 1, 2, 3, 5 and 9
with a polling interval of 2, nested tables of the field types the client can write
except null, arrays and bytes (see below) with integers and fractions on both sides of
what fits, up to three properties at once, and every length of body and head up to three
frames; they depend on no variable, so TLC evaluates them in the initial state
(`AtStart`).

All `Max...` constants only stop the model: no handler behaves differently near
them. Deadlock is not checked, because a system whose clients are gone and whose
bounds are reached has nothing to do.

Fairness is weak fairness, of what the program itself does, with one exception.
`Delivery` assumes it of each deliver loop - a fiber that can run is scheduled, and a
client that reads its socket lets the write finish - and of `ReplyWritten`, for the same
reason. It assumes strong fairness of clients that consume and settle: a frame of theirs
may have to wait for the replies to any number of others, but frames are read in their
turn. `ConsumerWakeup` needs none. The others assume weak fairness: `Store` of the
publishers, fsync fibers and deliver loops that have begun something, so that writes to
sockets end; `WebClient` of jobs, of frames being parsed, of the broker's read loop and
of its confirms; `Table` of timers, of the server and of answers, which arrive or turn
out to be none. None is assumed of a user, of a new publish or delivery, of failures,
changes or closing.

### Findings

Two runs show the code doing other than the repository says; each is a short
counterexample TLC prints.

- `stale_ack`: acknowledging a tag that is settled already settles the next higher
  delivery instead of closing the channel.
- `order`: a queue that takes the dead letters of another queue of the same
  exchange gets them before the message that pushed them out, although that has
  the lower position; the collector raises on it and ends the process.

### Known deviations

The models contain these too, and the properties above say what holds in spite of
them. They were met while modelling; no run is spent on them.

Queues and channels (`Delivery`):

- A failed write inserts the message again although closing the channel has already
  requeued it (`raced`).
- Basic.Recover forgets the deliveries of a cancelled consumer; they are not
  requeued at close.
- Basic.Recover without requeue locks a checked mutex twice and ends in a closed
  connection.
- Basic.Qos and Basic.Recover tell the deliver loops only after their reply
  (`client/channel.cr:512-528`): while its write blocks, a loop waits although a consumer
  accepts. `ConsumerWakeup` counts the reply under way as a wake-up, no more.
- With a prefetch limit a reject does not wake the deliver loop; with a global
  prefetch an ack on one queue does not wake the loops of the others it made
  room for. `AllDisposed` is checked with acks and limits per consumer.

Store:

- A delivery sends the outstanding confirms before any `fsync` (`client/channel.cr:298`),
  and `confirm_ack` names what is published by the time it is sent: `exposed`. The
  message that does not fit into the segment is confirmed while the next segment is
  opened, before it is written (`client/channel.cr:231`).
- After a crash of the process the broker no longer knows which enq files are not
  written back (`@queues_to_fsync` is gone), so the next `fsync` confirms messages and
  leaves those files to the kernel: a crash of the machine after a crash of the process
  may lose what was published before the first (`forgotten` in `SyncFiles`).
- `MFile#fsync` writes a segment back up to `@pos` (`mfile.cr:124-126`), which a restart
  leaves behind the version prefix: the first roll after a crash of the process writes
  back one page of the segment it leaves (`LeftOut`). What the broker restored from the
  rest is never written back by it, and a crash of the machine may take it.
- `compact_index!` writes a new enq file that nothing syncs until the next publish
  to that queue: `rewritten`. It forgets a message that is being written to a
  consumer without acks, and inside `drop_overflow` it writes a position that
  `publish` then appends again.
- `purge` empties both index files although unacknowledged messages exist; they are
  gone after a restart.
- The collector does not see messages in flight to consumers without acks.
- The ack file is never synced, so after a power loss what was settled may come
  back, and may refer to segments that are deleted by then; the collector then
  raises.
- A crash between the deletion and the creation of the ack file leaves none, and
  `restore_index` takes that for an empty queue (not modelled: a compaction is one
  step). A priority queue is restored into a plain one (not modelled).

Definitions (`gaps`):

- A deletion may wait, in `Fiber.yield` (`vhost.cr:344`) or for room in `@save`, between
  the removal of a name from memory and its Delete frame. A thing declared under the
  name meanwhile has its Declare before that Delete in the file and is gone after a
  restart: `torn`. A binding made before the frame that unbinds its predecessor is
  missing in the same way: `lost`.
- `Exchange#delete` and `Queue#delete` come back to the vhost by name
  (`exchange/exchange.cr:243`, `queue/queue.cr:400`): a thing declared under the name while
  they waited is deleted too, although its client was told that it exists. A queue that
  deletes itself removes its directory afterwards (`durable_queue.cr:92`; not modelled).
- After a deletion the file keeps the binds *from* the exchange (`vhost.cr:582-585`): if
  one of the name is declared again before the file is compacted, a restart brings
  back bindings that had gone.
- An Unbind whose arguments differ from those of the bind (`vhost.cr:588-593`)
  removes the binding, since most exchanges ignore arguments, but leaves it in
  the file. A headers exchange with arguments of its own writes the merged ones at a
  compaction (`vhost.cr:657-672`), and no Unbind matches those.
- A compaction writes the bindings of a durable exchange to transient queues and
  exchanges; if such a name is later declared durable, the next restart binds it.
- Declarations are answered before they are written. An I/O error while the file is
  read replaces all of it by the default exchanges (`vhost.cr:623-625`; not modelled).
- `in_use?` counts the keys of bindings (`exchange/exchange.cr:104`), and publishing to
  a direct exchange with a key nothing is bound by adds one: a deletion if unused is
  then refused (not modelled).

Web client (`odd`):

- `purge`: `queuePurge` with no_wait still waits for the answer that never comes,
  and takes the next reply. `unchecked`: `exchangeDeclare` and `exchangeDelete` do not
  look at whether the channel is closed.
- `closes crossed`: both sides close at the same time; the broker ignores the
  client's Close of the connection once it has sent its own, and closes of a channel
  that cross make a later reply go astray.
- `half closed`: a publish with another user's id is answered by Channel.Close, but
  the broker's channel goes on.
- `closed by page`: an object the page has closed itself settles no more than the
  calls queued on it, so confirms and waits on it stay open, and a wait started on
  it never ends; `lost`: a lost socket rejects only the promise of `connect()`.
- `select`: confirm mode changed around a publish, or asked for again, makes the two
  counts differ; `direct reply`: a publish to a direct reply queue is not counted
  by the broker; `last confirmed before`: an unroutable publish confirmed on its own
  makes the client ignore the acknowledgement up to it.
- After a Channel.Close the broker closes the whole connection on frames still under
  way for that channel (`client/client.cr:309-336`), although its log line speaks of
  discarding them. A Basic.Cancel by the broker is ignored, although the client
  announces `consumer_cancel_notify`.
- `late delivery`: a delivery that waited for the write lock since its check of
  `@running` comes after CancelOk or CloseOk (`client/channel.cr:292-299`). The client
  ignores it, or, if the id is in use again, meets a header without a message and
  throws.
- The codec writes every integer as a long int and every other number as a float of
  single precision, which loses digits (the properties leave out what does not fit;
  `Fits` names it), cannot encode null, arrays or bytes in tables, leaves out properties
  that are zero or empty, and ignores the offset of a body that is a view.

Tables:

- Links between pages write `sort_reverse`, `renderTable` reads `reverseOrder`: the
  direction is lost (`SortKept` says it is at worst lost).
- A click on a header does not redraw the links: one followed before the answer, or
  after the answer failed, loads the page with the column of before, or with a column
  named `null` (`astray`).
- An error, also a transient one, clears the timer for good; `FreshEventually` holds
  until then. Two items with the same key columns raise such an error.
- A filter that leaves one page while a later one is shown leaves neither rows nor
  links; an answer that is not JSON is shown as an empty list.
- Rows found in place redraw only the columns that are meant to change.

## Proofs

All theorems are of `Spec` and hold for every value of the constants that the
module's assumption allows. Several of these properties fail for some workloads, by
what the code does; their theorems name those workloads as a hypothesis and cover
all others, and the text below says which step of the code makes the hypothesis
necessary.

### Delivery

For any finite sets of queues and consumers, any channels, any assignment of
consumers to them, any prefetch values and any workload (`DeliveryAssumption`):

- `TypeInv` (in `Delivery_proofs`) is inductive: `TypeOK`, tags of entries are at
  most the last tag given out (so a new entry is new), entries belong to consumers
  of their channel (`OwnEntries`), and `Counters`. The exact equality of counter and
  entries is only inductive for consumers that are not cancelled: Basic.Recover
  drops the entries of cancelled ones without touching the counter. For those the
  counter is at least the number of entries, which is what keeps it from
  underflowing. Theorems `TypeCorrect`, `CountersExact`.
- `PrefetchRespected` is about steps: only `StartDelivery` adds an entry of a
  consumer (`OnlyDeliveryAdds`), to one that accepts, and for an active consumer the
  counter it reads is the number of entries (`AcceptsCounts`). Theorem `LimitKept`.
- `NoLoss` and `MessageWakeup` are inductive together with `TypeInv`: every action
  either takes nothing a message rests on, or puts what it takes into the ready
  deque, or disposes of it. Theorems `NothingLost`, `NeverAsleep`.
- `OnePlace` needs the two lists to agree. `PlaceInv` adds that consumers are active
  only on channels that are up, that only published messages are outstanding, and,
  as long as `~raced`, that a message in flight is outstanding, and `Matched` and
  `Unique`: an entry that its channel still owes an answer for stands for a message
  of the queue, and no two do for the same. Entries of the active consumers of a
  lost connection are exempt, since a failed write returns their message before the
  channel is cleaned up. The kinds of steps are lemmas: a head is taken
  (`TakenOnce`), entries are taken back and disposed of (`DisposedOnce`) or
  returned (`ReturnedOnce`), nothing moves (`NothingMoves`). Theorems `AtOnePlace`,
  `BothListsAgree`.
- The refinement, `KeepsContract`. The refinement mapping `places` is made from three
  lists; `NoLoss` and `OnePlace` make it a function of the ready deque and of what is
  outstanding alone (`PlaceOf`, `PlacesAreTold`). With that a step moves messages
  in one of a handful of ways, each of which is a step of `QueueContract` or none.
  Once a write has failed after its delivery was taken back (`raced`) the promise is
  off, and the property says so. Theorem `ContractKept`.
- `AckSettlesItsTag`, if clients name no tag they have settled before: what leaves the
  list is then exactly the entry with that tag, or with multiple all entries up to it,
  since the search of the sorted list stops at the tag or nowhere (`SearchFinds`). With
  stale tags it stops at the next entry, which run `stale_ack` shows. Theorem
  `AckExact`.
- `NoStrandedMessages`: `HeldInv` is `PlaceInv` with the converse of `Matched`
  (`Known`: what a queue holds has an entry) for all but `Forgotten` messages, those
  of cancelled consumers, and for none at all if clients do not both cancel and
  recover: it is Basic.Recover that drops those entries. Theorems `NeverStranded` and,
  with no hypothesis, `StrandedByCancel`.
- `ConsumerWakeup`, if clients neither reject nor requeue and no limit is one for a
  whole channel: where a loop waits and a consumer of its queue has room there is a
  token, or a handler of Basic.Qos or Basic.Recover is still writing its reply and
  will send one (`Announced`). `Told` says it with the room of a consumer in place of
  what the loop asks; every step that makes room sends the token or starts such a
  reply (`NoneAdmitted`, `ReleasedTold`, `QosTold`). A reject makes room and sends
  none; an acknowledgement under a limit for the channel makes room for other queues
  and tells only its own. Theorem `ConsumersTold`.

### Store

For any channels, queues, routes, sizes of segments and ack files, and workload,
and any number of crashes (`StoreAssumption`):

- `Locks`, a conjunct of `StoreTypeOK`, is inductive with the types of the variables
  it speaks of (`LockInv`): nobody but the publisher that opens a segment holds the
  write lock, nobody but who tells the channels holds the other, and the channels
  still to tell are among those that wait. That the two locks cannot deadlock rests
  on it: who waits for the second while holding the first has it given by one that
  waits for no lock. Theorem `LocksHeld`.
- `DurableInv` is `LockInv`, `StoreTypes` (among them: every position is below the
  next one, and in a segment up to the current one) and, for each queue, `Tidy`: its
  files hold what its memory holds (`Exact`), all of it positions that were written,
  every acked one is settled (`Contained`), and no position is in two places or twice
  in one, the enq file included (`Single`). `Exact` alone is not inductive: deleting a
  position that is in the deque twice would take it from the files and leave it in
  memory. What an operation does to one queue is one lemma (`TidyEnqueued`,
  `TidyDeleted`, `TidyMoved`, `TidyPurged`, `TidyRestored`), which the lemmas about
  actions cite. Theorems `StoreTypesHold`, `IndexesExact`.
- `DiskInv` rests on `DurableInv`. `SyncInv`: what no `msync` wrote back is known as
  `later`, the part of a segment that an fsync after a restart did not cover
  (`LeftOut`) included, and so is what an enq file has beyond its synced part, unless
  it was compacted; what was confirmed of it is `exposed`. `KeptOnDisk`: what a queue
  has can be read. `KeptInQueues`: a message that was confirmed, or that its channel
  may still be told of, is in every queue it was routed to or settled there; without
  the second half the step that sends the confirm could not be proved. Theorems
  `NothingCollected` and `ConfirmedKept`, the latter through crashes of the machine:
  what is lost is either not yet synced, hence `later`, hence not confirmed or
  `exposed`, or it was settled.
- `OrderInv`: the deque *and* the enq file of every queue are in order, since a
  restart turns one into the other. New positions are higher than all there are,
  `ReadyQueue#insert` stops at the first higher one, a compaction sorts, a restart
  keeps the order of the file. Theorem `DequesInOrder`, unless a length limit drops
  messages into a queue that the exchange routes to as well: run `order` shows the
  copy getting there before the lower position.

The lemmas those rest on, each for all sequences or sets of positions:
`InsertedAt`, `InsertedElements`, `InsertedOnce`, `InsertedAscending` (what `Inserted`
does, and backwards what taking the head does), `SortedSet` (`Sorted` of a finite set
is its elements in order; the choice in it has a solution because the ranks of the
elements are exactly the places), `RestoredElements` (what `restore_index` reads),
`DeletedFiles` and `EnqueuedFiles`. Where induction over data is needed it is by the
least counterexample: `LeastElement` takes one from the library's `WFMin`, whose
parameters are not operators.

### WebClient

For any channel ids, any number of objects, calls and messages, any size of
messages, any calls of the page and any mishaps (`WebClientAssumption`):

- `TypeInv` is `WebTypes` and the links: promises, consumers and unconfirmed publishes
  of an object name calls made on it (`ObjectLinked`), a channel lists an object of
  its id, a job names a call it can be a continuation of (`JobLinked`). `TypeOK` also
  says that the promises of an object are in the order of its calls. That alone is
  not inductive, because a promise is queued by a job that runs later than the
  call: `PromisesFirst` (what is queued was called before what jobs will queue)
  and `JobsSorted` carry it. Theorem `WebTypesHold`.
- `NoReplyAfterClose`, as long as closes have not crossed and no channel is half
  closed. `LifeInv` says of each id what is under way in both directions, together
  with what the client lists under it and the broker has (`LifeOf`): a frame on the
  way to the client means the client lists the id; CloseOk is the last one and Close
  is followed by nothing but CloseOk; an Open is sent when nothing is under way to the
  client, is the only one, and comes before all else; no Open, Close or CloseOk
  follows a Close. That is said of replies, closes and cancels alone (`HeededKinds`):
  the frames of messages may come later than CloseOk, as `BrokerDelivers` shows, and
  the property is not about them. Both directions are needed: that a CloseOk is the
  last frame follows from the broker having read the Close after which the client sent
  nothing it answers. `Handshaking`, `ChannelsRest` and `OpenListed` say the same of
  the connection, of a channel the broker has closed, and of objects. Theorem
  `NoLateReplies`.
- `MessagesWhole`. `MessageInv` adds to `LifeInv` that the frames to the client are the
  rest of one message (`Rest`) and then whole messages with other frames between
  them (`Chunks`), and that the object listed under the id of the rest has begun just
  that message and needs just those frames (`Growing`), while all others have begun
  none (`SlotsAre`). The number of frames left is not a variable of the code: the
  invariant says that there is one (`Assembled`). That parts are never mixed holds in
  every state. That a part finds its message begun holds if in addition no delivery
  came late: then what is under way was sent to an object that is listed, and no
  Close or CloseOk comes before it (`Told`), which a step of the broker keeps because
  it sends messages only to those (`Heard`, `Listening`). Without the hypothesis a
  delivery sent after CloseOk could find a new object under its id. What
  the broker sends at once is `Whole`: one lemma for each kind of answer, and one for
  their concatenation. Theorem `WholeMessages`.

### Table

`SortKept`, for any columns, items and bounds. The order is kept at four places: the
page, `sessionStorage`, the query string, and the links as they were drawn. `OrderInv`:
`sessionStorage` has the order clicked last; until a link of an older order is followed
(`astray`) the query string names its column or none, and so do the links that were
drawn since that click (`LinksInv`); neither the page nor the query string has the
descending direction unless it was chosen. Theorem `OrderKept`.

### Only model-checked

- Liveness, out of the prover's reach: `AllDisposed`, `ConfirmsEventually`,
  `EveryCallSettles`, `FreshEventually`.
- `RestartExact`: it compares with `SelectSeq`, which the provers have no facts about.
  `IndexesExact` and `RestoredElements` prove what it says of the elements, and
  `DequesInOrder` what it says of their order.
- `RepliesMatch`, `NoDeliveryDropped`, `NoCallForgotten`, `ConfirmsMatch` of
  `WebClient`. The first, which the next two need, would say of each channel that the
  replies under way and the requests under way together are the calls that wait, in
  their order, less the get whose message has begun to arrive; the last needs the
  positions of two counts, and is about sums over confirms that cover several
  publishes.
- `Definitions` (`LogExact`): memory after a restart is a fold over the frames of
  the file, which is induction over data. `WebCodec` uses recursive operators, which
  the prover's solvers cannot be used with, and its readers and writers, like the
  rows, links and charts of `WebPages`, are recursive and folded: `TablesReadBack`,
  `PropertiesReadBack`, `BodiesWhole`, `RowsExact`, `LinksReach`, `ChartRight`.
- `TableTypeOK`: that an answer is a sequence of items rests on the sorted sequence
  the server makes, a fold of the library.

## Plan

1. `Delivery`, `QueueContract` - done, all safety properties proved.
2. `Store` - done, all invariants proved. To add: a compaction as two steps,
   reject-publish.
3. `WebClient`, `Table` - done; proved: the types, `NoReplyAfterClose`, `MessagesWhole`,
   `SortKept`. To prove: `RepliesMatch`, then `NoDeliveryDropped` and `NoCallForgotten`.
4. `Definitions` - done; to prove: what one frame does to the fold and to memory (the
   fold itself and a cascade of any depth would need induction over data). To add:
   frames written in part, exclusive queues, the files of a queue that is deleted.
5. `Routing` (exchanges and bindings against reference definitions),
   `ConsumerStore`, `QueuePolicy` (TTL, delivery limit, byte limits).
6. `Flow` and `Shutdown`, `Scheduler` (starvation of the clean-up fiber), `Shovel`,
   `FederationLink`.

## Not modelled

Routing of messages by exchanges, priorities of consumers, the special
queues, TTL and delivery limits, flow control and shutdown, shovels and federation:
planned, see above. Users and permissions: a store with a cache and no
concurrency. Schema versions, proxy protocol, configuration, logging, statistics,
command line tools, extensions of the standard library: parsing, formatting, I/O
and one-time rewriting of files. The pages of the web interface other than tables,
charts and the AMQP client: formatting, DOM construction and single requests that
keep no state.
