# A TLA+ model of oxiduct

oxiduct is a TCP and UDP proxy whose point is to clean up after itself: dead,
idle, half-open and surplus connections go away, slots and metrics are given
back on every path, and a shutdown drains, then forces. This directory holds
TLA+ modules of its whole life from the command line to the exit code, TLC
configurations that check them on small instances, and TLAPS proofs, for every value
of the constants, of every safety property the runs check.

Paths below are relative to the repository root; `PROJECT.json` maps every
definition to its lines and lists runs, mutants, findings, hazards and theorems.

## The system

| Part | Code | State | Operations | Talks to |
|---|---|---|---|---|
| Connection limits | `src/limits.rs` | total and per-IP counters, warned flags | `try_acquire`, `Guard::drop` | TCP and UDP listeners |
| TCP accept loop | `src/proxy/tcp.rs` `serve_graceful` | JoinSet, limits, listener | accept, admit or reject, back off, join, stop | limits, connection tasks, tokens |
| TCP connection task | `handle` | slot, outcome counters, active gauge | connect, PROXY header, relay | relay, metrics |
| TCP relay | `relay`, `copy_dir`, `watchdog` | bytes, `last_activity`, done channel, cancel token | read, write, half-close, timeouts | peers, shutdown token |
| UDP proxy | `src/proxy/udp.rs` | session map, pending set, per-session channel, token and activity | lookup, admit, set up, forward, evict, drain, force | limits, metrics, tokens |
| Supervisor | `src/main.rs` | JoinSet, two tokens, error flag | start, signal, grace, force, exit code | all proxies, exporter |
| Metrics and exporter | `src/metrics.rs` | registry, in-flight permits | accept, read the request line, answer, drain, time out | scrapers, stop token; everyone counts |
| Configuration | `src/config.rs`, `src/cli.rs` | the names and addresses seen by `load` | expand, resolve, validate, refuse duplicates | supervisor |
| PROXY header | `src/proxy/proxy_protocol.rs` | none | encode | TCP task |
| Socket options | `src/socket_opts.rs` | none | setsockopt | TCP task, kernel |
| Clock | `src/clock.rs` | none | monotonic reading | relay, UDP proxy |

What is hard here: five kinds of task share state through two mutexes, atomics,
a bounded channel and cancellation tokens; every `select!` is a race; deadlines
are recomputed while somebody sleeps on the old ones; a shutdown may come at any
await; every exit path owes a slot, a gauge and a counter. The hazards in
`PROJECT.json` name the lines.

What makes each part correct:

* limits: counters equal the guards alive, the caps hold for the guards, the
  operator is warned before the first refusal, and once;
* relay: `eof` means everything was delivered, half-closes are passed on in
  order, no connection outlives an error, a forced shutdown or its timeouts;
* accept loop: slots and outcome metrics follow the tasks, nobody is left hanging
  in the accept queue, it returns only when, and surely when, its tasks are gone;
* UDP: one set-up per source, slots, gauge and close counter agree with the
  sessions, dead and idle sessions go without further traffic, drain and
  forced shutdown end, nothing is left running;
* supervisor: the exit code tells failures, a signal or a failure ends the process,
  and after a signal it cuts no connection of a TCP proxy by exiting;
* configuration: exactly the sane files are accepted, flags and file mean the same,
  what is accepted works at the socket;
* header: the target learns the client's address and where its data begins;
* exporter: permits come back, nobody holds one for long, answers arrive.

## Modules

| Module | Models |
|---|---|
| `ConnLimits` | the data of `limits.rs` and its two operations as state functions; used by all that follow except the relay |
| `Limits` | `limits.rs` as a state machine: the parts of `try_acquire` under the mutex and after it (`Acquire`, `LogTotal`, `LogPerIp`, `ReturnsGuard`; `RejectTotal`, `RejectPerIp`) and `DropGuard` |
| `Admission` | what limits promise, without counters: a gate that looks at the guards alive. `Limits` implements it |
| `ConnLimitsProofs`, `LimitsProofs` | what the two operations do to the counters, and proofs about `Limits` |
| `TcpRelay` | one relayed connection: two copy loops, the watchdog, peers, time |
| `TcpRelayProofs` | proofs about `TcpRelay` |
| `ProxyHeader` | the encoder of `proxy_protocol.rs` and a receiver |
| `ProxyTask` | what `main.rs` relies on in the task of a TCP proxy, without connections. `TcpServer` implements it |
| `TcpServer` | accept loop and connection tasks, with the limits and the header inside and the relay seen from outside |
| `TcpServerProofs` | proofs about `TcpServer`, the header included |
| `UdpProxy` | listener, set-up, relay and cleanup tasks of a UDP proxy, with the limits inside |
| `UdpProxyProofs` | proofs about `UdpProxy` |
| `Config` | flags and file resolved, validated and checked entry by entry; the options they lead to |
| `Supervisor` | `main.rs`: the process over the configuration of `Config` and its tasks: TCP proxies as in `ProxyTask`, UDP proxies with the two looks of their drain, the exporter |
| `ConfigProofs`, `SupervisorProofs` | lemmas about loading, and proofs about the process that loads |
| `MetricsExporter` | `serve` and `handle_request` of `metrics.rs`, scrapers, time |
| `MetricsExporterProofs` | proofs about `MetricsExporter` |
| `MC*` | constants for TLC; `MCRelayProgress` adds two history variables |

Definitions named `Mut...` are deliberate slips, each next to the definition it
spoils. They are used by nothing; replacing the definition by its slip must make
TLC refute the property `PROJECT.json` names, which shows that the property
depends on that code.

### Limits

`state` is the record `State` behind the mutex, `guard[c]` the `Guard` that
connection `c` keeps alive. What happens under the mutex is a step: `drop`, a refusal,
and of an admission everything up to the unlock (`Acquire`). The warnings are logged
after it (`LogTotal`, then `LogPerIp`), before the `Guard` is returned, and other
tasks may drop their guards in between. No other admission can: each proxy makes its own
`ConnLimits` and calls `try_acquire` from its one accept or listener loop. `caller` is
the connection whose call has unlocked and not returned, `toLog` what it has still to
log. `WarnedBeforeRejecting` is about the moments at which the next call can begin: while
a warning is on its way the layer can be full and the log does not say so yet. `peak` and
`warnings` are history. Counters are naturals: the code's u32 cannot overflow below 2^32
live connections, and `reached_90pct` computes in u64. Where the limits are a part of
`TcpServer` and `UdpProxy` nothing is about the log, and an admission is one step.

### TcpRelay

A copy loop is at `read`, `write` (inside `write_all`, one byte a step),
`report` (its `done.send`) or `done`; the watchdog at `check` (head of its loop),
`wait` (its `select!`), `join` and `closed` (the rest of `relay`). Bytes are
counted: sent by the source, read, written, counted in the metric. The
destination's kernel takes `Window` bytes before a write blocks. `sockErr` is the
pending socket error, reported once to whoever calls first: after a failed write
has taken it, a read on the same socket sees an end of file. Instants are kept as
ages (`quiet`, `armed`), which `Advance` increases together with running down the
sleep; they saturate at `MaxAge`, above every timeout. A direction whose loop was
stopped by the token reports `Eof`, exactly as in the code.

### TcpServer

`conn[c]` follows a client: `away`, `queued` in the kernel, then `refused`,
`rejected` by the limits, or a task at `connect`, `header`, `relay`, `closing`
(close counted, gauge not yet down), `ending` (guard not yet dropped), `ended`,
`joined`. The biased select polls the token, the tasks and `accept` one after the other
(`lpc` is `select`, `tasks`, `accept`), and the runtime has many threads: tokens are
cancelled and tasks end between two polls. So a client can be accepted after `stop`,
and with a grace of 0 after `force`, until the loop comes round to the token again
(`StopListening`); its task then meets the token in its own selects. `Pends` is the loop
going to sleep with nothing ready. `AcceptErr` may happen at any poll of `accept` and
leads to the pause in which nothing else is looked at. In `handle` a look at the token
and the act on it are one step, because nothing that others look at before the token
changes in between. A relay may end by itself at any time and
must end after `force`: that is `EndsOnShutdown` of `TcpRelay`.
`upstream[c]` is what the target got before any of the client's data. An address has
one of three families, the third being IPv4 written as IPv6, which a dual-stack
listener reports; octets are opaque, their number and order are kept. `HeaderTellsClient`
reads the bytes back the way the protocol's specification has it.

`ServesAsTask` is the refinement of `ProxyTask`: the loop before, during and after its
`join` is the phase `serve`, `drain` and `ok`, guarded tasks are `busy`. In `serve` a task
may open connections whatever was cancelled, from the step that closes the listener on
it may not. `ProxyTask!Live` is stated with leads-to and not with fairness, so that it
says nothing of how often sessions come and go.
`UdpProxy` is not shown to implement `ProxyTask`, because of `udp_drained` below.

### UdpProxy

Sessions are numbered by set-up. `map` is the `HashMap`, `pending` the set of
sources with a set-up in flight, `setup[s]` the progress of a set-up task
(`open`, `opened`, `insert` = waiting for the map's lock, `clear` = before
`PendingGuard::drop`, `end`). A step is what a task does between two points where
others can interfere: a critical section of either mutex, or an await. So the
listener's lookup (`Lookup...`) and its pending mark (`Admit`, `DropFirst`) are
two steps, as are the two looks of the drain check. `relays[s]`, `dead[s]`,
`queue[s]` are the relay tasks, the token and the channel of a session; the sender
lives with the map's entry, hence `SenderAlive`. The cleanup task is at `calc`,
`wait`, `retain` or `ended`; `lag` is how long ago it read the clock when it gets
the lock.

### Config

The text of an address is a host and a port; `Bare` is the host of a text without a
colon, a port that spells no u16 has a value above 65535, and leading zeros are kept,
because `load` compares texts while the kernel compares numbers. An optional setting
is a function whose domain says whether it was given, so the precedence of entry,
`[defaults]` and built-in value is `First`, and the flags' (clap's own defaults) is in
`from_cli`. `load` resolves all entries at once and then checks them one by one
(`CheckEntry`, `RefuseEntry`) against the names and addresses so far. A generated name
is the tuple it is formatted from, and a given name may spell the same. `Asked` are the
options a proxy asks for, `KernelTakes` is what Linux accepts, with its own bounds and not
those of `validate`, and `apply_tcp` is what is in force in the end: the keepalive options
are set in order up to the first that is refused, `TCP_USER_TIMEOUT` on its own. The
kernel's bound for that one, 2^31 - 1, is the constant `MaxUserTimeout`, because TLC's
integers end there; the run scales it down.

### Supervisor

`mpc` is where main is: `start` (configuration, taken from `Config`), `select` (signal or
first task to end), `grace` (the first drain), `expired` (the drain was polled, the clock
has run out), `force` (the second drain), `exited`. `TimesOut` needs a task that was not
joined, since `timeout` polls the drain before the clock; by the time `Forces` cancels
the token the last task may have ended. There is a task per
resolved entry and one, numbered 0, for the exporter when `metrics_listen` is set. A
task is `bind`, `serve`, `drain`, `drained` or its result; `busy` are the proxies with
sessions. A TCP proxy closes its socket when it goes to `drain` and returns when it is not
busy, as `ProxyTask` has it. A UDP proxy keeps its socket and opens sessions while set-ups
are in flight; its drain check looks at the sessions (`FindsNoSession`, to `drained`) and
then at the set-ups (`UdpReturns`, `FindsPending`), and a set-up that ends between the two
lets it return with a session (`udp_drained`). When forced it returns at once and leaves
its sessions to end. `EndsAfterAll` therefore promises something only of TCP proxies. The
exporter knows only `stop`. A bind fails when the address is unusable or another task's
socket overlaps with it, and it may fail at any time because of another process.

### MetricsExporter

A request is a number of pieces: `eol` is the piece with the first newline, `path` the one
that completes method and path, `size` what the client sends in all. `conn[c]` is
`away`, `queued`, then a task at `read`, `write` or `drain`, or how it ended. The
kernel's resets are modelled because the drain exists for them: a socket closed with
unread data, or sent to after it was closed, is reset, and a reset destroys an answer not
read yet (`seen` becomes `lost`). A stalled client never lets a large answer be written. Both
timeouts run on `age`; `tokio::time::timeout` polls its future before its timer, hence
`~Ready(c)` in `TimesOut`. Tasks are detached: they go on after `serve` returned, until
the process ends.

## Runs

| Run | Instance | Shows |
|---|---|---|
| `limits` | 4 connections, 2 addresses, 12 pairs of caps | `SlotAccounting`, `CapsRespected`, `WarnedBeforeRejecting`, `TotalWarnsOnce`, refinement of `Admission` |
| `relay_safety` | 2 bytes up, 1 down, window 1, buffer 2, four timeout settings | `EofMeansDelivered`, `HalfCloseFaithful`, `NapNeverOversleeps` |
| `relay_live` | one byte each way, peers that never read, three timeout settings | `EndsOnError`, `EndsOnShutdown`, `EndsWhenSilent` |
| `tcp_server` | 3 clients, 2 addresses (IPv6 and IPv4-mapped, with and without a mismatch), both caps (2 and 1) and none, with and without header | `SlotsAreTasks`, `OutcomesAddUp`, `ReturnsClean`, `HeaderTellsClient`, `NobodyHangs`, `ServesAsTask` |
| `udp_safety` | 2 sources, 2 addresses, 3 caps, 2 set-ups, channel of 1 | `OneSetupPerSource`, `SlotsAreSessions`, `GaugeTracksMap`, `ClosedOnce` |
| `udp_live` | 1 source, 2 set-ups | `DeadEvicted`, `ForceEndsAll`, `DrainEnds`, `NoOrphanRelays` |
| `udp_idle` | 1 source, 1 session, idle timeouts below and above the tick | `SleepCoversDeadlines`, `EvictsOnlySilent`, `IdleEvicted` |
| `supervisor` | 1,168 pairs of a command line and a file, running up to 2 proxies and the exporter | `LoadExact`, `OptionsTake`, `ExitCodeTellsFailures`, `EndsAfterAll`, `SignalEnds`, `FailureEnds` |
| `exporter` | 2 clients, 1 permit, buffer of 2 pieces, timeouts 3 and 2 | `PermitsAreTasks`, `HoldsPermitBriefly`, `AnswerReaches`, `PermitsReturn` |
| `relay_progress`, `udp_insert`, `udp_drained` | as small as shows it | disagreements, below |

Bounds. The limits are symmetric in connections, and every cap between 0 and
beyond reach occurs. In the relay two bytes with a window of one are the least
that makes a write stop half way; the floor of the sleep (2) does not divide the
timeouts, so that the watchdog can wake late; ticks, floor and timeouts are scaled
down together. In the UDP runs two set-ups are what every race of
set-ups with listener, cleanup and shutdown needs; first packets beyond
`MaxSetups` are lost, as UDP packets may be. `MaxLag` bounds the wait for the
map's lock in the timed run. With `Idles = {0}` and `CleanTick = 0` time stands
still and the cleanup task may wake at any moment, which covers every timing of
an untimed property. The inputs of `supervisor` are chosen, not enumerated: each wrong
shape of a command line; each keepalive knob, the user timeout and the connect timeout at, below and above
its bound from each layer; pairs of entries that agree or differ in name, protocol, text
and meaning of their address; and third entries that repeat the name or the address of
the first but not of the second. Larger files are for `LoadDecides`. In `exporter`
one permit and two clients are what it takes to lock a scraper out; a line comes in
two pieces with headers after it, or is longer than the buffer; the drain's timeout
is shorter than the request's, and not so short that it always ends first.
`CHECK_DEADLOCK FALSE` is there where the proxy may end.

Fairness. Tokio polls a task that can go on, so each task's enabled step is
weakly fair, and time passes. Strong fairness is assumed where the code picks
among ready branches at random (the watchdog's and the cleanup task's `select!`
are not biased) and for the drain tick, which is above packets in a biased
select and, being built outside the loop, becomes due whatever arrives.
Connect attempts end because of `connect_timeout_secs`. Nothing is assumed of
peers, clients, targets, accept errors, or of when main.rs cancels the tokens.
In the exporter a tick is long: a task that can go on does so before time advances, and
a timer that is due fires. In the supervisor a bind is decided, TCP proxies keep
`ProxyTask!Live` and UDP proxies `ForceEndsAll`; no signal is assumed and no session need end by itself.

## Disagreements found

* `relay_progress`: `last_activity` is bumped when a read returns, not while
  `write_all` makes progress. A large chunk taken slowly by its receiver counts as
  silence: the half-close timeout cuts a transfer that the comment in `watchdog`
  says "is never killed mid-transfer".
* `udp_drained`: a set-up that inserts its session and clears its mark between
  the two looks of the drain check makes the listener return with a live session.
* `udp_insert`: a set-up that ends between the listener's lookup and its
  pending mark lets a second one start for the same source; its insert replaces a
  live session, which is then never counted closed, against the comment "No
  session for this source can be in the map".
* Not runs:
  * at a forced shutdown the listener counts the map's sessions closed but leaves
    them in the map; a cleanup task already past its select counts them again as
    `error`. `ClosedOnce` shows that this needs a forced shutdown;
  * an address's warned flag goes with its map entry, so the "single `warn!`" of
    `limits.rs` is logged again after the address held no connection;
  * the close reason `error`, which UDP sessions use, is missing from the list in
    `README.md`;
  * `user_timeout_ms` above 2^31 - 1 is accepted by `validate` and refused by the kernel
    (EINVAL), the same failure "on every connection" that `validate` prevents for
    keepalive. `OptionsTake` says that no other option can be missing, and that this one
    is missing only then;
  * duplicate addresses "would only fail later at bind time": they still do when they
    are written differently (`localhost` and `127.0.0.1`, `080` and `80`), when one is a
    wildcard, or when the other is `metrics_listen`, which is neither expanded nor
    validated. `FailureEnds` shows what then happens.

## Proofs

The proof modules are checked by TLAPS for every value of the constants that
satisfies the named assumptions, which TLC evaluates on each run. They say what the
code's types and constants say:

| Assumption | Says |
|---|---|
| `CapsAssumption`, `NoIpAssumption`, `NoConnAssumption` | caps are naturals (0 is no cap); "no address" is none, "no connection" is none |
| `RelayAssumption` | timeouts, tick, floor, buffer and window are naturals, the floor and the buffer positive and the floor within the tick; ages saturate above every timeout plus a floor |
| `ServerAssumption` | peers and local ends are socket addresses with a 16-bit port |
| `UdpAssumption` | timeouts and sizes are naturals, channels hold something, ages saturate above every timeout plus the wait for the lock; there are any number of sources, and `MaxSetups` is any natural |
| `KernelAssumption`, `ConfigAssumption`, `SupervisorAssumption` | the kernel takes the built-in user timeout; the tables of a file are a sequence, of any length up to any bound; the socket settings given are numbers |
| `ExporterAssumption` | a request's line ends within what is sent, its path fits the buffer, and the drain's timeout is shorter than the request's, as the code's constants are; finitely many clients |

`LimitsProofs`. `SlotAccounting` is inductive together with `TypeOK` and the
finiteness of the set of guards, which is needed because nothing bounds `Conns`:
cardinalities only behave for finite sets, and each step adds or removes one
guard. The decrement saturates at 0, so the step `DropGuard` needs the accounting
of the state before. `CapsRespected` follows from `CapsInv`: the caps hold for
the counters, and the counters are the guards. For the warnings `WarnInv` ties
the warned flags to the history: a layer at 90 percent has its flag set, and a set
flag means a warning was logged or is among those `toLog` (`Pending`, `PendingFor`); once
the call has returned nothing is pending, which is what `WarnedBeforeRejecting` adds. That
a full layer is at 90 percent is arithmetic.
`LimitsImplementsAdmission` uses the accounting to replace counters by guards in
every guard of an action; the remaining steps stutter or map to `Enter`, `Refuse`
and `Leave`.

`TcpRelayProofs`. The invariant `Delivery` has five parts besides the types:
`Books` (out <= got <= sent; between chunks all that was read is written and
counted), `Errors` (an error has a reset behind it, and a socket error that was
taken has left an `Err` in one of the loops, which is why an end of file read from a
reset socket is harmless), `CleanEnds` (a loop that ended with `Eof` and was not
stopped by the token has delivered everything, or the other loop has the error),
`Fins` (a write side is shut down only by a loop that ended) and `Verdicts` (the
watchdog's `done` set names only loops that reported `Eof`, and the token is
cancelled only as the watchdog returns, never with `eof`). None is inductive alone:
`EofMeansDelivered` needs `Verdicts` to know that no report it believed came from a
stopped loop, and that needs `CleanEnds`, which needs `Books` and `Errors`.
`NapNeverOversleeps` is proved along: every step that moves a deadline moves it
away or ends the wait.

`TcpServerProofs`. `ServerIsTask` is the safety part of `ServesAsTask`. It rests on what
the loop's places mean and on no order between the tokens and `accept`: `Accept`, which
adds a guarded task, happens only at a place that maps to `serve` (whatever the tokens
say), the steps of `handle` keep the set of guarded tasks or remove one, `StopListening`
sees `stop` and is the abstract `Closes`, and `Return` needs the set to be empty. `LoopOnly`
and `Phase` say that the polls of the select are stutters.
The accounting theorems need `Queue`: what is in the accept
queue is queued, each client once, because only then does `Accept` add a
connection that was not counted before. `Outcomes` is `OutcomesAddUp` with the
finiteness of its two sets, `Slots` is `SlotsAreTasks` with that of the guarded tasks
and the shape of the counters (an address in the map has a positive count, which
makes the saturating decrement exact); both follow one connection through one move.
`ReturnsClean` combines them with `Drained`: no client is queued once the listener is
closed, and no task is left once the loop has returned.

`ServerHeader` proves `HeaderTellsClient`. `Sent` says that whoever relays with the
option on has been written a header of its own addresses, which holds because `handle`
reaches the relay only through that write. What the receiver makes of it is about
sequences: `PartsFound` and `BlockParts` find each part of a concatenation at its offset
(`MiddlePart`), `BigEndian` reads ports and lengths back, and `HeaderRead` puts them
together for both families and the `LOCAL` form, for any hosts and all 16-bit ports.

`UdpProxyProofs`. The inductive invariant `IInv` is seven facts that need one another.
`Sessions` numbers the sessions as they start and says that one in the map is there
under its own source and has only its pending mark left to clear; it is what
makes a step about one session leave the others alone. `OneSetupPerSource` is
inductive with it. `SlotsInv` compares the counters with `Holders`, the sessions
that hold a slot, in total and per address; besides it states that an address in the
counters' map has a positive count, without which the saturating decrement of
`drop` would not be the inverse of the increment. Retaining and draining
drop several guards in one step, with a fold; `FreedUnrolls` and `MatchesFreed` show
that this is dropping them one by one, by induction on their number. `GaugeTracksMap` and
`CountsInv` need the size of the map as the number of `Mapped` sessions, which is
`MapSize`: a bijection between the sources with an entry and the entries. The
counters may fall short of the sessions opened (a replaced session is never counted,
see `udp_insert`), hence the inequality. `SleepCoversDeadlines` is inductive with
the types alone: the sleep is computed from the oldest session (`NapBounds`), time takes from
the sleep what it adds to an age, other steps only move a deadline away, and a
session that appears while the task sleeps comes with its wakeup permit.
`EvictsSilent` is an action property over the same invariant: only `Retain` ends the
cleanup task's look (`OnlyRetain`), and an age that passes for stale with the older clock
is stale with the newer one.

`ConfigProofs` and `SupervisorProofs`. `ConfigInv` describes what the loop of `load` has
established when it is at an entry: all before it are valid and pairwise distinct, and
`names` and `listens` are exactly theirs. From it `LoadDecides` is the claim that
a configuration is accepted if and only if all its entries are valid and pairwise
distinct, for a file of any length, and that flags mean what a file of one entry means.
The invariant of the process adds where main is: `TokensTellPlace` (before a signal no
proxy returned `Ok`, so leaving the select without one means a failure),
`SessionsNeedTask` (a connection needs the task of its TCP proxy, serving or draining; of
UDP sessions nothing is said), `DrainRemembers` (`any_error` is exactly a failure among the
joined, over both calls of `drain`, the second of which continues the first) and
`CodeTellsPlace`. `ExitCode` and `NothingCut` need all of them: main leaves with every task
joined, a joined task is no longer serving or draining, so no connection is left.
`OptionsTaken` compares the bounds of `validate` with the kernel's, option by option.

`MetricsExporterProofs`. Permits and tasks are one fact, `PermitsAreTasks`, kept by steps
that move one client. The rest is an invariant of each connection: `ReadInv` (the
status was decided on the whole line or on all there will ever be), `TimerInv` (no task
outlives its timer, and why each one ended) and `LossInv` (an answer is lost only to an
error or a timer that was up). `Others` shows that a step of one client leaves these
facts of the others alone, so that each action is looked at for its own client.
`AnswersReach` needs the drain's timeout to be the shorter one.

The library's induction theorems take an operator as a parameter, which the provers cannot
instantiate. Where a proof needs induction (`NatSetInduction`, `MinLeast`), it takes a
least counterexample instead, which the library's theorem on well-founded relations
provides without such a parameter.

Only model-checked: the liveness properties (`EndsOnError`, `EndsOnShutdown`,
`EndsWhenSilent`, `NobodyHangs`, `DeadEvicted`, `ForceEndsAll`, `DrainEnds`,
`NoOrphanRelays`, `IdleEvicted`, `SignalEnds`, `FailureEnds`, `PermitsReturn` and the part
`Live` of `ServesAsTask`), because the prover has neither fairness nor ENABLED; and the
three disagreements above, which are counterexamples. Every invariant and action
property of the passing runs has a theorem.

## Not modelled

Packet and byte contents, log texts and log levels, DNS, the parsing of TOML, the
rendering of metrics, and the kernel's keepalive (a peer may be reset at any time
instead). `clock.rs` is one monotonic reading and `lib.rs` declares modules. Panics inside
proxies: nothing in the modelled code panics except on a poisoned mutex (the
supervisor's handling of a panicking task is modelled).

## Plan

1. Done: `ConnLimits`, `Limits` with `Admission`, `TcpRelay`, `UdpProxy`, `TcpServer` with
   `ProxyHeader` and `ProxyTask`, `Config`, `Supervisor`, `MetricsExporter`; proofs of every
   invariant and action property the runs check.
2. An abstract session table that `UdpProxy` implements between forced shutdowns, and
   the relay inside `TcpServer` tied to `TcpRelay` by refinement instead of by its
   properties alone.
3. Proofs of the safety that the liveness properties rest on: that after a forced
   shutdown no relay of `TcpServer` and no set-up of `UdpProxy` starts anew, and that the
   supervisor's TCP tasks follow `ProxyTask`, the other half of the composition.
