# plug2proxy in TLA+

Models, model-checking runs and machine-checked proofs for the Rust program in
`src/`. plug2proxy is a transparent proxy of two halves. The IN half stands where
the clients are: it takes their TCP connections and UDP datagrams, decides by
rules which way each of them leaves, and sends it through a tunnel. The OUT half
stands where the traffic leaves: it accepts tunnels and connects on to the
destinations. The two find each other through a Redis server.

Paths below are relative to `src/src/lib/`.

## Inventory

Each component with its state, its operations, what it talks to, what is hard
about it and what makes it correct.

**IN tunnel manager** (`in/tunnel_manager.rs`). State: the tunnel map, the map
from labels to sorted tunnels (one tokio mutex each), a selection counter; per
(provider, OUT) a `handle_out` task with a semaphore of `connections` permits;
per tunnel a task that waits for its end. It accepts OUTs and tunnels from the
providers, registers tunnels in both maps and in the router, removes them when
they close, and selects a tunnel for a connection. Hard: loops, closers,
connections and the tunnels' own tasks interleave, and permits travel through
all of them. Correct: the maps and the router speak of the same tunnels; permits
are neither lost nor doubled; a connection starts on an active tunnel only.

**Client tunnels** (`tunnel/http2/http2_tunnel.rs`, `tunnel/byte_stream_tunnel.rs`,
`tunnel/quic/quic_tunnel.rs`). State: the permit slot, the h2 request sender,
lifetime and active stream counts, a `Notify` for the end. An HTTP/2 tunnel is
retired at its 4096th stream (it gives its permit back, is no longer selected)
and closed by whichever stream ends last. Hard: counting and testing are not
atomic with the opening of streams; a connection may end while its tunnel is
still being registered. Correct: an active tunnel can be used; a retired one
disappears once it is drained.

**Redis match server** (`match_server/redis_match_server.rs`). State at the IN:
the set of active OUTs. State in Redis: OUT keys (5 s), match keys with IN data
(30 s), locks on match keys (5 s), and channels that lose what nobody is
subscribed to. `accept_out` finds OUTs by SCAN and by announcements; `match_out`
announces an IN to one OUT until it is answered; `match_in` waits for an IN, locks
its key, answers. Hard: separate Redis commands, expiry, lost messages, several
INs for one OUT, processes that go away. Correct: each OUT is served once by each
IN; a match is one IN's and one OUT's; whoever waits is served or told.

**Tunnel providers** (`tunnel/http2/http2_tunnel_provider.rs`,
`tunnel/http2/plug_http2_tunnel_provider.rs`, `tunnel/quic/*`). They turn a match
into a connection. HTTP/2 and QUIC: the IN connects to the OUT, which listens in
that call only. plug-http2: the OUT connects to the IN, where one listener task
reads a tunnel id from each stream and leaves the stream in a slot of size one
that all waiting handlers poll. Hard: the slot is overwritten and stolen from;
timeouts exist on one side only.

**Router** (`route/router.rs`, `route/rule.rs`, `route/config/*`). State: the IN
rules, each OUT's rules with its tunnel ids, a cache of rules cut into groups of
one priority. Registration rebuilds the cache; matching yields groups of
(label, tag), `select_tunnel` turns them into a tunnel. Hard: priorities,
fallbacks, PROXY and ANY, unknown domains and regions, the order in a HashMap.

**UDP forwarder** (`in/udp_forwarder.rs`, the UDP loop of
`in/transparent_proxy.rs`). State: an association per client address with its NAT
maps, a task, a timer and a remover; response sockets shared by all
associations and freed by reference count. Hard: tasks, timers and removers
interleave with the loop; the map entry outlives the task.

**Fake IP DNS** (`in/fake_ip_dns/*`). State: a SQLite table of rows whose ids
become addresses; rows expire after seven days and are then written over.
Lookups assign, the resolver looks up. Hard: concurrent lookups, answers still
in use, restarts, clocks read before a mutex, ids that are never given back.

**Transparent proxy** (`in/transparent_proxy.rs`, `utils/io.rs`,
`tunnel/http2/compat.rs`). A TCP connection is accepted, its name sniffed while
nothing is lost of what was read, a tunnel selected, and bytes copied both ways.
State of a connection: the sniffed bytes, the client's end if the sniffing met it, a
buffer for each direction, the rest of an h2 frame. Hard: each side runs two
directions at once over two segments; either may end or fail at any time, and
dropping a half means something else for TCP, h2 and QUIC. Correct: bytes arrive in
order and once, an end behind them, and nobody waits on a connection that is gone.

**OUT side** (`out/*`, the `Out...` halves of the tunnels). A loop per provider that
accepts tunnels, a task per tunnel that accepts streams, a task per stream that
connects and copies. State: an h2 tunnel's `closed` flag. Hard: one stream's head is read, or its
error met, in the loop that all streams of the tunnel depend on. Correct: a stream's
trouble is its own, streams are served as long as the connection lives, and
the loop ends with it.

**GeoLite2** (`route/geolite2.rs`): a database that is downloaded, cached in a
file and updated every so often.

The rest has no state of its own worth a model: STUN, sockets, DNS, logging,
configuration, dispatch enums and traits; the semaphore rate limiter is unused.
`PROJECT.json` lists every part with its status.

How they interact: a provider's `accept_out` makes the tunnel manager start
`handle_out`, whose `accept` runs `match_out` and then makes the connection; the OUT's
accept loop runs `match_in` and meets it. The tunnel goes into the manager's maps
and the router. A client's connection to a fake address is resolved to a name,
matched by the router, and given a tunnel by `select_tunnel`. The IN opens a stream
of that tunnel, which the OUT's `handle_tunnel` accepts, and each side copies between the
stream and its own socket.

## Modules

| Module | Models | Composition |
|---|---|---|
| `TunnelManager` | `handle_out`, closers, maps, router registration, client tunnels, connections' use of them | core |
| `TunnelPool` | what the above promises, without tasks, locks and caches | refined by `TunnelManager` |
| `TunnelManagerProofs` | theorems about `TunnelManager`: types, the maps, permits, streams, senders, the refinement of `TunnelPool` | |
| `MatchServer` | `accept_out`, `match_out`, `match_in`, Redis, the meeting of the HTTP/2 provider | abstracts what follows a match |
| `MatchServerProofs` | theorems about `MatchServer` | |
| `PlugHttp2` | both ends of the plug-http2 provider, the slot | takes the match as given |
| `PlugHttp2Proofs` | theorems about `PlugHttp2` | |
| `Router` | rules, groups, matching, `select_tunnel` | registration is one step here, `TunnelManager` opens it up |
| `RouterProofs` | theorems about `Router` | |
| `UdpForwarder` | the UDP loop, associations, removers, response sockets | the resolver is a choice |
| `UdpForwarderProofs` | theorems about `UdpForwarder` | |
| `FakeIpDns` | assignment, expiry, resolution, restarts | |
| `FakeIpDnsProofs` | theorems about `FakeIpDns` | |
| `BytePipe` | what one direction of a proxied connection promises | refined twice by `ProxyConnection` |
| `ProxyConnection` | a TCP connection from client to server: sniffing, both ends' tasks, `copy_bidirectional`, the h2 stream adapters | the tunnel is a segment with two pipes |
| `ProxyConnectionProofs` | theorems about `ProxyConnection`: the invariant of the bytes on their way, the refinement of `BytePipe` | |
| `OutTunnel` | `handle_tunnel` and both tunnels' `accept` at the OUT | a stream's bytes are in `ProxyConnection` |
| `OutTunnelProofs` | theorems about `OutTunnel` | |
| `MC...` | constants and symmetry of the small instances | |

The `map` in `PROJECT.json` names the lines of each definition. Variables carry
the names of the code's fields and locals; `..._pc` variables say at which
`await`, lock or spawn a task is. One action is what a task does between two
points at which others can run. Definitions whose comment begins with *Mutant*
are used by no specification: each is a plausible slip that one of the
properties must notice, so that the property is known to say something.

### TunnelManager

A *loop* is a `handle_out` task. `AcquirePermit`, `AcceptTunnel` (or `AcceptNone`,
`AcceptError` and `WakeUp`), `SetActivePermit`, then the critical section
`LockAndInsert`, `UpdateLabelMap`, `RegisterTunnel`, `CollectRules`, `WriteCache`,
`FinishRegister`. A closer passes the same section with `LockAndRemove` and
`UnregisterTunnel`. The section is that many steps because a connection may select a
tunnel in between: `select_tunnel` takes only the label map's lock, the router only
its own. `CollectRules` and `WriteCache` are apart because `update_rules_cache`
copies under one lock and writes under another.

A connection: `SelectTunnel`, `CountLifetime`, `SendRequest`, `CountStream`,
`EndStream`, then the stream-closed task's `CountDown` and `CloseIfRetired`. The
permit slot is `active_permit`: it holds the number of the `handle_out` call whose
semaphore the permit is from, since dropping a permit of an earlier call gives
nothing to the present one. A late `SetActivePermit`, after the connection's task
has already taken the still empty slot, is in the model as in the code.

### MatchServer

Redis commands are single steps, in the order of the code. A message reaches
those that are subscribed at that moment; the announcement of a handler, which
is repeated each second, is put into a set. Time is left out: a key can expire
whenever nobody has to have refreshed it; a refresh that comes too late, a
failing command and a lost message are *faults*, and a bound. The listening time of the OUT
after a match is `ListenTimeout`: five seconds for HTTP/2, none for QUIC.

### PlugHttp2

`OutMatched` stands for `match_in` answering `match_out`. After it the OUT connects,
does TLS, sends the id and waits for the h2 preface of the IN, all without a
time limit; the IN reads the answer, waits three seconds and polls the slot:
`TakeOwn`, `TakeOther` (the stream is dropped), `WaitTimeout`. The listener serves one
stream at a time and replaces what is in the slot. A wait that times out although
its stream is on the way is a fault; one that times out because the stream was
stolen is not.

### Router

A domain is a sequence of labels, an address and a region are names; `None`
stands for an unknown domain, port or set of regions. `Match` and `SelectTunnel` are the two
algorithms; the properties compare them with a reading of the rules that
knows neither groups nor loops (`Effective`, `Serves`). `InOrder` excludes two
cases. `Router::new` puts the IN rules into the cache as they are in the file, so
that, until the first tunnel registers, a fallback rule listed before another
rule applies although that one matches. Afterwards fallbacks come last, unless
another rule is configured with their priority, `i64::MAX`, and sorted behind one.

The folds of the code are recursive functions (`GroupLabels`, `Match`), its
filters, `take_while` and `unique` keep some positions of a sequence (`Keep`), a
stable sort that is cut into groups is `Groups`. All of them are written so that
`RouterProofs` can speak of lists of any length.

### UdpForwarder

`Receive`, `Look`, `Send`, `Insert` are the loop, which holds the association map's lock
from `Send` to `Insert`. `ReadDatagram`, `AssignResponseSocket`, `Reply` are an
association's task, `Timeout` and `TaskFails` its ends, `RemoveAssociation` and `RetainSockets`
its remover. A send to an association whose task has ended, or a datagram that
cannot be sent, is an error of the loop and ends the program (`up = "failed"`).

### FakeIpDns

`ReadClock` is a step of its own since `assign_fake_ip` reads the clock before it
takes the mutex; the rest of it is one step. `answers` is what clients may still
use. Two constants carry the timing: an answer's TTL and `MaxDelay`, the longest
time from a lookup's first reading of the clock to its answer; a row must outlive
an answer by two of these. The real values are seven days against a minute, which
leaves no doubt. Time is assumed to pass evenly; the code uses the system clock,
and a clock set forward while answers are out breaks the property. The unique
index of the schema is not in the model, because it is not in the database:
`execute` (`fake_authority.rs:45`) runs the first of the two statements only.
The real address is left out: it is written together with the name.

### ProxyConnection

Three segments: client, tunnel, server. Each has two pipes, and each relay (`"in"`,
`"out"`) reads one segment and writes the other: `Read`, `ReadEnd`, `Write`, `Shutdown`, `Fail`
are the steps of `tokio::io::copy` within `copy_bidirectional`, once for each
direction. A direct connection is the IN's relay between the client's and the server's
segment. A byte is its place in what its sender sent, so that order, loss and
duplication show. A pipe over h2 keeps its frames: a frame that does not fit the
reader's buffer leaves a rest in `pending`. `Sniff` is one `try_read`; `read_attempts` is
bounded by the code's own limit (5 there, 1 in the run). `end` is the client's end
met while sniffing, which makes the IN shut the tunnel's half down without copying.

TCP, h2 and QUIC are external, and `EndsFound` is all that is assumed of them: a TCP
socket that is dropped with unread data, or written to afterwards, is reset; a quinn stream
that is dropped is finished and stopped; an h2 stream that is dropped before it
is over is reset behind its data, and a reset may be found before an end that
was sent. Data is lost in a pipe only when a connection breaks. The ends read
whatever comes as long as they are there, and do nothing else of necessity.

The model shows, and `BytePipe` admits, that an end is not proof of completeness:
`copy_bidirectional` shuts the writer down after a read error as after the last byte
(`io.rs:31` and `42`), so after a break the other end may see a clean end behind a part of the bytes.

### OutTunnel

The kind of the tunnel is chosen in `Init`; `AcceptRequest` is h2's `accept`, `AcceptStream` and
`ReadHead` are QUIC's. `closed` is the flag of `Http2OutTunnel`; for QUIC `IsClosed` asks the
connection. Everything an error of `accept` leads to is in `AcceptFailed`. A head may be
written late, overtaken by other streams' heads, or (`HeadTooLong`) never be written: `connect`
(`byte_stream_tunnel.rs:120`) opens the stream before it finds that a name does not fit
its length byte, and drops it.

## Runs

| Run | Instance | Shows |
|---|---|---|
| `tunnel_mixed` | HTTP/2 and QUIC loop of one OUT, 2 permits and 1, 2 tunnels, 1 connection, 2 `handle_out` calls | conservation across calls, maps agree, `TunnelPool` is implemented |
| `tunnel_live` | both loops, 1 tunnel, 2 connections, limit 2 | active streams are counted, an active tunnel keeps its sender; drained and closed tunnels leave; a late permit comes back |
| `tunnel_limit` | 1 loop, 1 tunnel, 1 connection | **violation**: see finding 1 |
| `match_two_ins` | 2 INs, one with a spare handler, 1 OUT, 2 keys, 1 fault | one handler per IN and OUT, agreement of a match, a key answered once, no listener left over |
| `match_live` | 1 IN, 1 OUT, 1 fault | every OUT is accepted, every announced handler answered, a dead OUT forgotten by a handler that looks again |
| `match_waiting` | 1 IN, 1 OUT, no faults | **violation**: see finding 2 |
| `plug` | 2 OUTs, 4 matches, 1 fault | a tunnel has the stream of its own match and nobody else holds it, an OUT hangs in one situation only, an OUT alone is served |
| `router` | all lists of up to 3 of 8 IN rules, 2 OUTs with rules, 3 tunnels, 36 requests | matching and selection follow the rules; the best tunnels take turns |
| `udp` | 2 clients, 1 fake and 2 real addresses, 2 associations, 3 sockets | one socket per destination, map and tasks match, destinations are sticky |
| `fake_ip` | 2 names, 2 lookups, 2 rows, rows for 4 ticks, answers for 1 | usable answers resolve, one row per name, growth only when all rows are in use |
| `proxy_connection` | both kinds of tunnel and DIRECT, 3 bytes up and 1 down, buffers of 2, sockets of 1, window of 2, 1 fault | both directions are a `BytePipe`, ends notice a break, tasks end |
| `out_tunnel` | both kinds, 3 streams, 2 faults | failures stay with their stream but for one case, streams are served, the loop ends |

**Bounds, and why they are enough.** The hazards are races of two: two tunnels
compete for permits and maps, two connections for the last stream of a tunnel,
two INs for one OUT, two handlers for a slot, two lookups for a row. Each instance
has two of what races and one of the rest, or one more than the code needs where
a second one must be possible (the spare handler of `match_two_ins`, three sockets
for two users). The lifetime limit is 4096 in the code and 1 or 2 in the runs:
both below and at the limit are reached. `MaxGeneration = 2` lets a permit of
an earlier `handle_out` come back late. In `fake_ip` the id of the last row that may be
inserted lies outside the pool, and `Expiration = 4` is the least
the timing assumption allows. Four matches in `plug` are enough for a stream that
was given up to be replaced by one of the same OUT and one of the other. In `proxy_connection` the client sends more than a buffer of `copy` holds (8 KiB in
the code), so that its sniffed bytes make a frame longer than the reader's buffer; sockets hold less
than a buffer, so that writers wait with both directions full. Three
streams in `out_tunnel` are one that goes wrong, one before and one behind it. The
router's rules cover each kind, negation, ports, tags, equal and different
priorities, two fallbacks and a rule with the priority of a fallback. Ids that are made up at random are either
used once and bounded in number (tunnels in `TunnelManager`, `PlugHttp2`) or
used again once nothing in the system holds them (`MatchServer`, associations and sockets).

**Deadlock** is checked by the `router` run only. Elsewhere the system may rightly stop in the
bounded instance: all tunnel ids are used up, a connection is over, the OUT is dead and every fault
spent, the clock is at its bound, or the program has ended. What must go on is
stated by the liveness properties instead.

**Symmetry** is used for ids that differ only by name, and in runs without
liveness properties only.

**Fairness.** `tokio` polls every task that can go on: weak fairness for each
task's own steps. Its mutexes serve waiters in order: strong fairness where a
lock that others take again and again must be had (`LockAndInsert`,
`LockAndRemove`, an OUT's `announce_task`). Timers run out. Clients end their
streams. Nothing makes an OUT appear, a match succeed, a message get lost or a
fault occur. In `MatchServer` a handler with an answer waiting leaves the
announce loop by itself: its `select!` is woken by the message. In `ProxyConnection` each
direction of a copy is polled, and an end that is there reads; in `OutTunnel` the IN
writes the head of a stream it has opened, and the network brings it. No end has to
send, finish or leave, no server to be connected to before its time.

**Liveness, not obvious from the statements.** `DeadOutForgotten` speaks of handlers that have yet
to look whether their OUT is there, or have an answer. `match_out` looks at the OUT's key once
(`redis_match_server.rs:148`), before it announces itself: an OUT that dies
afterwards is announced to for ever, remains in the active set, and its
handler never ends. No line promises otherwise. `StreamServed` and `StreamsIndependent` allow for one thing an h2 OUT does:
a request that was reset before `accept` came to it makes `send_response` fail
(`http2_tunnel.rs:357`), any error sets `closed`, and `handle_tunnel` drops the tunnel with
all its streams. `ClosedTunnelLeaves` is restricted, for HTTP/2,
to closers that are already waiting: `notify_waiters` (`http2_tunnel.rs:100`) wakes nobody who comes
later, so a connection that ends between registration and `closed().await`
leaves its tunnel in the maps. `OutCallEnds` has its one exception because of what `plug` otherwise finds: when
the answer to a match is lost, or the IN gives up after three seconds, the OUT's
stream stays in the slot and the OUT waits for the IN's preface, which needs
another handler of the same provider to come by and throw the stream out. With
one OUT there is none: the IN waits for the OUT's next match, the OUT for the
IN. No line of the repository says otherwise, so this is a hazard and an exception
of the property, not a finding.

## Findings

1. `LimitedConnectionEnds` (`http2_tunnel.rs:157`, "h2 might has some memory leak
   issue for long standing connections."). A tunnel is to be closed once it has reached its
   lifetime limit and is idle. The connect that reaches the limit takes the permit
   before it sends its request. If it fails then, and no other stream is open,
   there is no stream-closed task to take the request sender: the connection of
   the retired tunnel stays.
2. `WaitingOutServed` (`tunnel_manager.rs:225`). The look at the key and the removal
   from the active set are two steps. An OUT whose key ran out while it listened
   for its previous tunnel sets it again and announces itself in between; the
   announcement is passed over since the OUT is still in the set; then it is
   removed. It waits in this call of `match_in` without an IN that knows of it.

## Proofs

All theorems hold for every value of the constants that meets the named
assumptions; nothing is assumed besides.

**`TunnelManagerProofs`** (assumption `ConstantsAssumption`: loops and tunnels are
distinct, every loop has an OUT, a priority and at least one permit).
`TypeCorrect` and `MapsAgreement`. Agreement of the maps when the lock is free is not inductive: one has to say what
they hold while somebody is half way. The invariant `IInv` adds

- `LoopsOwnTunnels`: a tunnel belongs to its loop, and has no closer, until it is
  registered, so that a loop and a closer never speak of the same tunnel;
- `LocksOK`: who is inside the critical section owns the tunnel map's lock, and
  the label map's from its second step on, so that there is one such process;
- `ConnsOK`: a connection that is not idle has a tunnel (needed for types only);
- `MapsOK`: for each map the tunnels that count in it, given how far the process
  in the section has come (`InMap`, `InLabels`, `InRouter`, `InCache`). They are
  the same set when nobody is inside, which is `MapsAgree`.

The proof has one lemma per group of actions and per part of the invariant;
`CountsKept` says that a step within the section matters only to the maps it is about;
`MapsFrame` and `MapsQuiet` dispose of the many actions that leave the maps, and who
is where, alone.

Its second part (there may be any number of tunnels and
connections) has `PermitsConserved`, `StreamsAreCounted`, `ActiveTunnelHasSender` and `ImplementsPool`, on top of `IInv`. The invariant
`PoolInv` adds three parts, each inductive given `IInv`:

- `PermitsInv`: conservation itself, with `PermitsOK`: until `SetActivePermit` a tunnel
  has no permit, a permit is of a call that has begun, and those who hold permits are finitely many,
  so that one more or one less holder changes the sum by one. A permit of an earlier call
  that comes back late is nobody's (`TakePermitConserves`);
- `UsersInv`: the count of streams, with `UsersOK`: a connection came by its
  tunnel through the label map, so the tunnel is a loop's and past `SetActivePermit`, and
  connections that count a stream are finitely many (`StreamsOK`);
- `SendersInv`: `ActiveHasSender`, with `SendersOK`: a loop that is about to give its permit has
  the tunnel's sender still in place.

`ImplementsPool` maps steps to steps: `AcceptTunnel` to `Meet`, the write of a
label's cache to `Join` or `Leave`, the taking of the permit of a joined tunnel to
`Retire`, `SelectTunnel` to `Start`, the end of a connection's use to `Stop`, and everything else, the
locks and the other three maps included, to a stutter. `JoinedIsCached` is what makes it go: with
`MapsOK` and `LocksOK` the joined tunnels are at every moment those of `InCache`, and so what is routed are
the OUTs of the members (`Writes`), also in the middle of another's section.

**`MatchServerProofs`** (assumption `MatchAssumption`: `None` is no id, a handler belongs to an
IN, messages and faults have bounds). `TypeCorrect`, `ActiveSet`, `Agreement`,
`MatchedOnce` and `ListenerExpected`. The invariant says

- of the active set that each of its members has a live handler and each live handler its OUT in
  there, one handler per OUT (`ServedOnce`): the cardinality of `ActiveSetMatchesHandlers` follows;
- of keys that only the OUT of the handler that made one up knows it, and only after the handler has
  announced it (`KeysOK`); that of all OUTs that came by a key one holds it, under
  the lock, until the lock runs out (`LocksOK`); and that as long an answer is the only one (`AnswersOK`);
- as long as nothing failed, that a key still to be answered has its handler
  announcing, and that a listener's answer is in the handler's hands (`ExpectedOK`).
  Both halves are needed: the second is established by `OutReply` from the first.

`Effects` and `Replies` reduce the two dozen actions to the few things they do to handlers and OUTs.

**`UdpForwarderProofs`** (assumption `UdpAssumption`: `None` is no address, socket or
association; associations are finitely many, as the sockets' users are counted). `TypeCorrect`, `OneSocket`,
`MapAndTasks` and `Sticky`, an action property. The loop looks an address up, lets go, and inserts later.
`LookedUp` says that what it looked up is still what the association says when it
comes to insert, and `TasksOK` why: while a task can still read, or its remover has yet to act, the association
stays under its source, so that no other can have come in between.

**`FakeIpDnsProofs`** (assumptions `DelayAssumption`: a row outlives an answer by two
delays; `BoundAssumption`). `TypeCorrect`, `AnswersResolve`, `NamesAreUnique`, `Growth`.
That a usable answer's row expires later than the answer is not inductive: a
lookup that read an older clock may refresh the row with an earlier expiry, and
an address may be assigned but not yet answered. `IInv` bounds the age of a lookup
(`LookupsInTime`) and says of assigned addresses that their row lasts for the latest
possible answer (`FakesHeld`) and of answers that it lasts as long as they do
(`AnswersHeld`). Uniqueness of names rests on the mutex alone. With one delay
instead of two in the assumption the step lemma `WritesHeld` fails, as it should.

**`PlugHttp2Proofs`** (assumption `PlugAssumption`: ids are positive numbers, `None` is
none of them). `TypeCorrect` and `StreamsPaired`, the latter being `TunnelsPaired`.
That a handler compares ids is not enough: the id in a handler's hands must be one
that was made up in a match with its own OUT (`IdsOK`, `InTunnelsOK`), and a stream
must be opened once and be in one place at a time: the backlog, the listener, the slot
or a tunnel (`OnePlace`). `PlacesShrink` disposes of the steps that at most drop a
stream or put the listener's in the slot; the lemmas of their own are for the
match, the connection, the listener's accept and `TakeOwn`.

**`ProxyConnectionProofs`** (assumption `ProxyAssumption`: buffers, pipes and windows hold at
least one byte; how many bytes the ends send, how often something fails and how often
the sniffing tries are arbitrary). `TypeCorrect`, `UpPipeSafe` and `DownPipeSafe`: every step
of the connection is, for each direction, a step of `BytePipe` or none. That is
the safety half of `UpPipe` and `DownPipe`; `Delivery`, their liveness, is left to TLC.
That what the receiver has read is the beginning of what was sent is not
inductive: bytes are in sockets, frames, `pending` and buffers. `IInv` (`Invariance`) has

- `FlowOK`, once for each direction: what has arrived counts up from 1 without a gap;
  what a relay holds and may still write goes on from there (`HeldOK`), as long as its writer, and
  what is behind that, take bytes; and all of them together are everything sent, unless something
  failed (`WholeOK`). A relay whose writer is closed may hold what will never
  follow, which is why `HeldOK` asks for `Beyond`;
- `CalmOK`: as long as nothing has failed, a pipe ends when its writer has ended, a relay's
  direction when the pipe it reads has, with nothing left in it or in the
  buffer, and an end found while sniffing is the client's. It makes an end that is seen the
  end of everything that was sent (`EndIsLast`), and excludes that a direction
  fails, or a task is over, while bytes are on their way;
- `StagesOK`: before it copies a relay holds nothing but what was sniffed, and only h2 keeps frames.

A step is first reduced to what it does to a direction's bytes: it leaves
them (`FlowQuiet`), moves them past a relay (`FlowMoves`), adds one (`FlowSends`) or loses the last of them
(`FlowKeeps`). `FlattenSeq` joins any number of frames; what its lemmas (`FlattenAppend`,
`FlattenHead`, `FlattenPart`) say of every sequence is proved from the least number of frames
for which it would fail (`LeastNumber`, from the well-foundedness of `<`), which
takes no induction principle with an operator for a parameter.

**`RouterProofs`** (assumptions `RouterAssumption`: rules come in lists, of any length, and
priorities are within `i64`; `NamesAssumption`: an OUT is not named `DIRECT`, `PROXY` or `ANY`, and
`None` is neither a tunnel nor `DIRECT`). `TypeCorrect`, `MatchingFollowsRules`, `SelectingFollowsRules`,
`TakeTurns`: the four invariants of the run, from `IInv` (`Invariance`), which says that the maps are what
`Rebuild` makes of the registered tunnels and is inductive at once. The work is to show what the
algorithms compute from that, in three layers.

- *Lists.* A recursive function exists and is what its equations say
  (`RecursionExists`), by `CountUp`, which is induction over a set instead of an operator. From
  it `FlattenRange`, then `KeepPlaces` (a kept element has a place in the original, places rise, and
  none that should be kept is missing), `UniqueFirsts`, and `AscendingOrder` (every finite set of integers
  can be listed in order, each once).
- *Matching.* `GroupLabelsAre` is the inner fold: with fallbacks last, what it gathers
  is the labels of the plain rules that match, or of the first fallback with labels when nothing has matched
  so far. `MatchShape` is the outer fold: each group of rules with a match has its group of labels, in
  their order (`Levels`). `LevelsRanked` adds that repetitions are dropped: the first
  of equal groups stays, which may be that of another priority; this is why
  `MatchFollowsRules` orders the first priorities with given labels only. `InvCacheInOrder` is where
  `InOrder` is needed, and that `Groups` sorts by priority.
- *Selecting.* `Turns`: a sorted list's tunnels of the head's priority are the best ones, and
  indices modulo their number reach each. `SelectedInGroup` is one group, `SelectedTunnelOfGroups` all of
  them. `SelectionIs` says when this is right for a set of rules: the first group that can
  be served must have the labels of the best rules, and others only if they cannot be
  served. `PlainChoice` and `FallbackChoice` show that of a match. A group that was
  dropped as a repetition does no harm, as the equal one before it answers first.

**`OutTunnelProofs`** (assumption `OutTunnelAssumption`). `TypeCorrect`, whose part about
`arrived` says that no stream is queued twice or after it was accepted, and
`FailuresIsolated`, which is `StreamsIndependent`. The invariant adds `StreamsInPlace`: a stream is new, queued,
the one whose head is read, or accepted, and only QUIC reads heads.
The hardest step is an error of `accept`: that it ends an h2 tunnel is right only because the
stream it failed for was dropped and has no task.

The type invariants of `FakeIpDns` and `OutTunnel` are proved and not checked by a run besides.

**Only model-checked**: all liveness properties (they rest on fairness, which the prover
does not treat), and with them `Delivery` of `BytePipe`. Every safety property of the
passing runs is a theorem, `UpPipe` and `DownPipe` in their safety half.

## Not modelled

- Bytes: TLS, the contents of a stream's head, SNI, window sizes, addresses' families,
  encryption of what is stored in Redis. An expired key that is decrypted panics
  (`redis_match_server.rs:476`); in `MatchServer` that is an `OutCrash`.
- Real time, apart from `FakeIpDns`: how long a retry takes, how often one is made.
- GeoLite2 (`route/geolite2.rs`): one task and a lock for each assignment. That a downloaded
  file replaces the cache before it is parsed (line 102) matters only
  for the bytes of that file.
- DNS, STUN, SOCKS5, netlink and socket options: calls of the system or a library.

## Plan

Done: the core (`TunnelManager`, `TunnelPool`) with its first proofs, then in the
order of what would hurt most: `MatchServer`, `Router`, `PlugHttp2`, `UdpForwarder`, `FakeIpDns`,
`ProxyConnection` with `BytePipe`, `OutTunnel`.

Models that could follow: `MatchServer` with `ListenTimeout = FALSE`, the QUIC OUT that
waits without a limit (`quic_tunnel_provider.rs:165`), once there is something the code
promises of it.
