# TLA+ models of the rawrelay server

Models, model-checking runs and machine-checked proofs for the server in
`src/`: a prefork HTTP/1.1 and HTTP/2 server for raw Bitcoin
transactions, with a JSON-RPC client for a node.  `PROJECT.json` maps every definition to
the lines it models and lists runs, hazards, findings and theorems.

## The system

A **master** process forks **workers**, watches them, reloads them on SIGHUP and
stops them on SIGTERM or SIGINT.  Each worker is a single thread around a
libevent loop; everything in it happens in callbacks.  An accepted connection
passes the **access lists**, the **rate limiter** and the **slot manager** (three
tiers of slots that bound memory), then becomes an **HTTP/1.1 connection** or,
after ALPN, an **HTTP/2 session** whose streams draw on the same slots.  The
**asynchronous RPC client** hands transactions to a node.  At present no route
calls it: a worker initialises the client, logs its status and cancels its requests
on exit, and the broadcast route serves a static page.  It is modelled as a library
with any caller that keeps to `rpc.h`.

| Part | State | Operations | What makes it hard |
|---|---|---|---|
| Slot manager (`slot_manager.c`) | a counter per tier | acquire, release, promote | release hides a double return by stopping at 0 |
| Worker (`worker.c`) | `active_connections`, `draining`, listeners | accept, drain, exit | SIGUSR1 against the last close; accept failing half-way |
| HTTP/1.1 (`connection.c`) | state, tier, slot, byte counts, times | read, write, event callbacks | every exit must return the slot; limits on drained buffers |
| HTTP/2 (`http2.c`) | streams with slots of their own | nghttp2 callbacks | streams closed from inside other callbacks |
| Master (`master.c`) | `worker_pids`, `draining_pids`, two flags | start, loop, reload, reap, shutdown | signals between any two steps; pids that are reused; fork failing |
| Rate limiter (`rate_limiter.c`) | token buckets in a bounded table | allow, cleanup | two clocks; cleanup inside a lookup |
| RPC client (`rpc.c`) | `RPCRequest` objects, cookie, counters | broadcast, socket events, timer, cancel | four ways to end one heap object; retry after a cookie change |
| Access lists (`ip_acl.c`) | exact and range entries | load, check | masks, prefix conversion, hand-written files |
| Router, path validation (`router.c`, `hex.c`) | none | classify a path | two validators and a router that must agree, on paths that arrive in pieces |
| Counters (`endpoints.c`) | counters per status, method, route | count a response | one place of counting for many ways to end a request |
| TLS context (`tls.c`) | the `SSL_CTX`, the expiry date | init, reload | files rewritten meanwhile; reload failing half-way; old connections |
| Configuration (`config.c`) | a `Config` per load | read a line, refuse, repair | recurring sections, unreadable values, reloads that are refused |
| Others | | | static files, network names, seccomp, logging, the blocking reader, `main.c` |

The properties that make the system correct: slots and connections are counted
exactly; a draining worker exits, and never cuts a client off; the master knows
its children; grants are bounded by the configured rate; a broadcast ends with
one callback and is submitted at most once; a plain connection cannot be held
longer than the limits say; lists, configuration and paths mean what they say; every
response is counted once; a worker serves a certificate with its own key.

## Modules

| Module | Models | Correspondence |
|---|---|---|
| `SlotManager` | `slot_manager.c` | pure operators on the three counters |
| `Worker` | `worker.c`, `connection.c`, `http2.c` | one action per callback outcome; an HTTP/2 read callback is a sequence of steps (`reading`), because nghttp2 calls back several times within it; nothing else runs meanwhile |
| `SlotPool` | the promise of `slot_manager.h` | who holds a slot of which tier: no counters, flags or callbacks |
| `WorkerProofs`, `WorkerRefinement` | | theorems about `Worker`; `Worker` implements `SlotPool` |
| `TlsContext` | `tls.c`, reference counts of OpenSSL | pure operators on a record; a certificate and a key are represented by the renewal they come from |
| `WorkerLife` | `worker_main` from fork to exit, signals, sockets, certificate reload | one action per stage of start-up; the two reads of a reload are two steps, since the files may change between them, but nothing else of that process runs in between; the kernel's accept queues, certbot and the sender of signals are external |
| `WorkerLifeContexts` | | the inductive invariant of `WorkerLife` and the steps that make, swap and drop contexts |
| `WorkerLifeProofs` | | the other steps, and the theorems about `WorkerLife` |
| `Master` | `master.c` | `pc` is the place in `master_run`; workers, crashes and signals interleave with it |
| `MasterProofs` | | theorems about `Master` |
| `RateLimiter` | `rate_limiter.c`, the cleanup timer | tokens are integers: one request costs `Token` units and `Rate` units come per tick; hash chains are a function from addresses |
| `RpcAsync` | the asynchronous half of `rpc.c` | one record per `RPCRequest`; the node and its cookie file are external |
| `Http1Connection` | the clocks and byte counts of `conn_read_cb`, the search for the end of the headers, keep-alive reset, read timer | one connection on either port; sizes instead of contents; a read may cross the end of a request; on the TLS port bytes may restart the timer without a callback (`tls_bytes`) |
| `ConnectionProofs` | | theorems about `Http1Connection` and `RpcAsync` |
| `IpAcl` | `ip_acl.c`, loading in `worker_main` | addresses of `AddrBytes` bytes of `ByteBits` bits; `V4Prefix` is the bytes before a mapped IPv4 address; a line is what the parser makes of it |
| `AdmissionProofs` | | theorems about `RateLimiter` and `IpAcl` |
| `ConfigFile` | `config_load`, its callers in `master.c` | a setting is a field with its section, key, reader and default; a line is what `trim` and `strchr` make of it |
| `RequestPath` | `router.c`, both early checks, `process_request`, `h2_process_stream_request`, the counters | a path is what the code tells apart of it: slash, word, length, leading hexadecimal digits; HTTP/1.1 and HTTP/2 side by side |
| `InputsProofs` | | theorems about `ConfigFile` and `RequestPath` |
| `MCWorker`, `MCRateLimiter`, `MCHttp1`, `MCInputs` | | values and symmetry sets for TLC; `MCInputs` runs `IpAcl`, `ConfigFile` and `RequestPath`, one of them per behaviour |

`Worker` composes connections, streams and slots through `SlotManager`.  It takes
the size of a request, the outcome of parsing and the verdicts of the access
lists and the rate limiter as nondeterministic inputs; `Http1Connection`, `IpAcl`,
`RateLimiter` and `RequestPath` model those parts with their own detail.
`WorkerLife` composes `TlsContext` with sockets, signals and files; there a
connection is just open until it is freed.

`Worker` implements `SlotPool` under the mapping that reads the slot of a holder
off its flag and tier (`conn_slot`, `stream_slot`); the counters have no
counterpart, they are how the pool's limit is kept.  The pool allows a holder to
move up, or down to the normal tier, only into a free slot; a worker that drops a
slot and takes it back within one callback makes one such move or none.

Definitions whose names begin with `Faulty` are deliberately wrong versions of
the definition that follows them.  No specification uses them.  They stand for
plausible bugs, and each property is tested by putting one in place.

## Runs

Passing runs:

| Run | Bounds | Shows |
|---|---|---|
| `worker` | 2 connections, 2 stream ids, 2 keep-alive requests, 3 normal slots, 1 large, 1 huge | slots and connections are counted exactly, every open connection or stream holds a slot, the drain decision is never lost or premature, expensive slots are returned before a response, the counters implement `SlotPool`, a draining worker exits |
| `tls` | 1 worker, 1 client, 3 contexts, 1 renewal, 1 failed call, TLS on and off | reference counts are exact, certificate and key belong together, the expiry shown is the one served, a renewal is served, a drain ends if the clients leave, a process that resets its queued clients drains, is starting, had a fatal accept error or lacks a handler |
| `master` | 2 workers, 1 reload, 2 crashes, 1 failed fork | the master's tables are exact, nobody serves after a stop, a shutdown ends, a crash is repaired |
| `rate_limiter` | 3 addresses, table of 2, clocks 1000 apart | exact count, bounded grants, spaced requests pass |
| `rpc` | 2 requests, 2 node restarts | one callback, exact list, no double submission, a retry uses the new cookie, every request ends |
| `http1` | 3 shapes of request, 1 keep-alive reset, 9 ticks, reads of up to 3 bytes, 7 bytes in the buffer, plain and TLS | requests bounded while the timer and `conn_read_cb` see the same bytes, justified kills while headers are read, no complete request left waiting by a read |
| `inputs` | lists: 2 bytes of 2 bits, every pair of lines; configuration: 2 loads, 4 lines, `SIZE_MAX` 7; requests: 2, on a connection and a stream, 13 paths cut at 4 places | matching equals the bit-wise meaning and block wins over allow; a loaded configuration is what the file says, and one in force is usable; early checks refuse nothing the router would serve (challenges apart) and HTTP/1.1 and HTTP/2 refuse the same paths; every response is counted once, as what was sent |

Why the bounds are enough.  Two connections with two streams each want up to six
normal slots and there are three, so every pool runs out and connections compete
with streams for the last slot; the theorems lift the safety properties to any
number.  Of the master, a crash and the crash
of its replacement, and a failed fork, fall anywhere around a reload.  A second
reload, which overwrites `draining_pids`, is covered by the theorems for every
bound; TLC also finished that instance (2 reloads, 1 crash, 684,403 states, all six
properties, no error), but in nearly five minutes, so the run keeps to one.  A table of two with three addresses
is full when the third comes.  Two requests share a cookie and a list; two node
restarts allow a second refusal.  In `Http1Connection` seconds and bytes are
scaled, and the order interval < read timeout < request limit is kept.  Headers of 4
bytes are the blank line alone and those of 6 begin before it, so a read can end
anywhere inside it; a body of 5 needs two reads, and the buffer limit of 6 lies below
headers and body together.  Reads of 3 bytes reach from one request into the next,
and the clock runs on for longer than the request limit, 4, and a read timeout, 3,
together.  In `IpAcl` two-bit bytes
give prefixes inside a byte, at its edge, 0 and full length, and 16 addresses are
all checked.  In `ConfigFile` the fields are one of each kind with a key that two
sections share, and four lines set a field, set it again, or set two, before and
after a reload; the numbers lie on both sides of every comparison.  The paths of
`RequestPath` lie on both sides of every length the code compares with.  In
`WorkerLife` one worker with one client and one renewal meets a reload before,
during and after the files are rewritten, with a connection of the old context
open, and a second SIGUSR2 in the middle of a reload; three contexts are the old,
the new and one more to leak.  The theorems lift its invariants to any number.

Deadlock checking is off in the runs of `Http1Connection` and `MCInputs`, whose
systems really stop: a freed connection, a loaded list or configuration.

Violated runs state a sentence of the documentation, a comment or a metric that
the code does not keep:

| Run | Statement | What the code does |
|---|---|---|
| `master_reload_timeout` | "30s timeout, then SIGKILL" | no deadline after a reload |
| `rate_limiter_expiry` | "expire after 60 seconds of inactivity" | compares the monotonic with the wall clock; each cleanup empties the table |
| `rpc_ok_means_accepted` | `RPC_ERR_PARSE` | a body without result or error is reported as success |
| `acme_challenge` | challenge tokens are served "automatically" (`DEPLOY.md:206`) | a challenge with a token of 37 characters or more makes a path of 64 after the slash, which the check for hexadecimal digits refuses with 400 |
| `http1_upload` | clients "at any reasonable speed are unaffected" | the check compares lengths of a buffer that is drained in between |

Other disagreements met while modelling; none has a run here.  TLC found these
when they were stated as properties of the models:

- `master.c:447` logs "All workers stopped": workers that drain since a reload are
  neither waited for nor killed.
- `master.h:67` "fork new workers, drain old ones": `master_reload` drains first.
- `master.h:13` "restart on crash": a replacement whose fork fails is never retried,
  hence the condition in `CrashRepaired`.
- `config.h:35-36`: a rate below 1 with the default burst admits nobody, since the
  bucket never holds a whole token.  `SpacedRequestsPass` is checked with a burst
  of at least one token.
- `endpoints.c:442` exports `successful_broadcasts`; the asynchronous path never
  increments it.
- `OPERATIONS.md:197` says keep-alive cycles "are fine"; a request of fewer than
  100 bytes that arrives whole, 5 s or more after the previous response, is killed
  at its first read.
- `connection.c:1127` "extra data is discarded": only data that is there when a
  request completes with its headers.  What follows a body that took several reads,
  or arrives while a response is written, stays in the buffer, and the keep-alive
  reset does not look at it: a request that is whole by then waits for the next byte.
- `OPERATIONS.md:183-197` speaks of every connection.  On the TLS port, bytes of a
  handshake or of an unfinished record restart libevent's read timer and do not call
  `conn_read_cb`, where the limit on a request is tested.  `RequestBounded` holds on
  the plain port, and on the TLS port when bytes have reached the callback again.
- `parse_cidr` reads the prefix with `atoi`: text that is not a number is taken as
  /0 instead of being reported as an invalid line.

These come from reading the code for the models; where a property is named, it
carries the exception:

- `OPERATIONS.md:12` says a draining worker "stops accepting connections, exits when
  all active connections close".  It disables its listeners but leaves the sockets
  open, so the kernel goes on queueing clients on them, and resets those at the
  exit.  `LostOnlyToDrain` excepts such a worker.
- `OPERATIONS.md:19` and `DEPLOY.md:252` send SIGUSR2 to every process that
  `pgrep rawrelay-server` finds.  The master is one of them and has no handler for
  it; neither has a worker that is still starting.  The default action ends both.
- `network.h:8` "Server must start with exactly one chain configured": a file that
  cannot be opened is replaced by the defaults, with no chain, at the start and on
  SIGHUP alike.  `UsableInForce` therefore speaks of configurations from a file.
- The repair of the tier order (`config.c:490`) leaves thresholds out of order when
  the large one is 0 or its double overflows; a negative threshold is read as a
  huge one by `strtoull`.
- `router.h:37` sends paths of more than 64 digits to the broadcast page; below 164
  they are answered 404.
- `endpoints.h` says the challenge over HTTP/2 returns "-1 on error (404 sent)"; an
  empty challenge file returns 0, and its 200 is counted as a 404.  The return value
  of `h2_send_response` is ignored, so a response that could not be sent is counted.
  `CountedAsSent` names both.
- The data discarded at `connection.c:1127` may be the start of the client's next
  request, whose rest is then read as a request of its own.  `CompleteIsAnswered`
  speaks of bytes that are still there.
- A reload drops what `--benchmark` changed in the configuration (`main.c:131-140`).

## Fairness

- `Worker`: libevent runs every ready callback, and a connection on which nothing
  arrives, or too much for too long, is freed by its timers (`RequestBounded` in
  `Http1Connection` is the timed statement of this).  Strong fairness, because a
  read callback of another connection may be running when the event is ready.  On the
  TLS port this supposes clients that finish their records.  The bound on keep-alive
  requests is an assumption of `DrainCompletes`: clients that ask for ever are not
  told to close.
- `WorkerLife`: `worker_main` runs on; libevent runs every callback that is ready,
  with strong fairness, because a reload may be running when it becomes ready.
  Nothing is assumed of clients, of signals or of the files.  That connections end is
  not assumed either, since a client that goes on asking keeps its connection and with
  it a draining worker; it is the hypothesis of `DrainEnds` (`ClientsLeave`).
- `Master`: the master only ever sleeps 100 ms, a started worker comes up, the
  kernel delivers signals.  That a draining worker finishes is not assumed.
- `RpcAsync`: libevent fires pending timers and reports silent sockets.  The node
  may be silent, refuse, restart or cut its response short, but a response is finite:
  `Pieces` bounds how often it keeps a socket busy.

## Proofs

`WorkerProofs` proves, for any set of connections, any streams, tier limits and
number of requests, every safety property of the run `worker`.  Assumptions: finite
sets of connections and streams, and limits that are naturals.  The properties
are not inductive one by one, for example a slot is returned correctly only
because the connection is known to hold it and its tier is the one counted.  The
invariant `IInv` is the conjunction of

- `TypeOK`, `SlotsAccounted`, `ActiveAccounted` and `OpenHoldsSlot`;
- `WithinMax`: no counter exceeds its limit, which is what makes the failure
  branch of a downgrade unreachable;
- `StreamsOwned`, and `ReadInv` for streams while a read callback is in progress;
- `DrainInv`: how `draining`, `listening`, `loop` and the connection count relate;
- `RequestsInv`: the bound on requests.

The argument: a change of slots is always a move of one holder from tier to tier
(`Moved`), moves preserve the counts, and each action is a move plus a change of
state.

`ConnectionProofs` proves the three properties of the run `http1` for every setting
of the limits and whatever bytes arrive when, with the exceptions that the properties
state: TLS bytes that reach no callback in `RequestBounded`, bytes discarded with the
request before in `CompleteIsAnswered`.  Neither check bounds a request alone.  The
invariant `ReadInv` is the conjunction of the types and

- `ClockInv`: unless TLS bytes went unseen, the last read was within the limit, and
  the timer has not run out since;
- `WindowInv`: while headers are read the buffer has grown, since the last check, by
  at least what arrived;
- `ScanInv`: the search for the end of the headers has not passed it, even if it
  straddles two reads;
- `BodyInv`: a body that is being read is short of its length.  This is also the
  theorem `BodyCountsDown`: the unsigned difference of the two never underflows.

`WorkerRefinement` proves that `Worker` implements `SlotPool`, from `IInv`: a step
changes the slot of one holder, and the pool had a slot free for it because after
the step the counters still equal the holders and are within the limits.

`WorkerLifeProofs`, with `WorkerLifeContexts`, proves `RefsExact`, `TlsReady`,
`ExpiryShown` and `LostOnlyToDrain` for any number of workers, clients, contexts,
renewals and failures.  The invariant adds what each
stage of `worker_main` has made (`Stages`) and which context an open connection
holds (`Connections`), because what closing a connection gives back depends on the
port it came in by.  `LostOnlyToDrain` has an invariant of its own, `Excuses`: a loop
stops only in a drain or after a failure, and a signal finds no handler in the loop
only if making one failed.  Assumptions: finitely many clients, and `NULL` is no
context.

`MasterProofs` proves the invariants of the run `master`, and that no child is
tracked twice, for any number of workers, reloads, crashes and failed forks.  The
invariant adds that pids are handed out in order and those above the last are
unborn, what the loops that fork have done below their index (`New`) and still have
to replace above it (`Told`), and that each configuration has a SIGHUP of its own.

`ConnectionProofs` also proves the invariants of the run `rpc` for any number of requests and
node restarts.  `SubmittedOnce` follows from `AcceptedIsAnswer`: the node has taken
the transaction if and only if its last answer says so, and only a refused request
is sent again.  `SecondRefusalIsNew` speaks of refusals for the cookie, a node may
refuse with 403 for other reasons too; it needs the order of cookies: a client never
holds a newer one than the node, nor sends an older one than it re-read.

`AdmissionProofs` proves the three properties of the rate limiter for every rate, burst, table size,
clock and number of addresses, the last if the burst holds one request.  `RateBound`
rests on a potential: tokens held plus tokens spent never exceed a bucket for each
entry the address has had plus what was earned up to the last stamp (`Budget`).
`SpacedRequestsPass` rests on `Earned`: a bucket is full, or holds what came in since
the last grant.

It proves `ContainsListed` and `VerdictSound` as well, for addresses and bytes of any
size, any mapped prefix and files of any length.  `MatchIsBits` is the core: whole
bytes and one masked byte agree exactly if the first bits do.  It needs what division
by `Pow2[n]` does to a number bit by bit, and so induction on `n`.  `AclInv` then says
that a list holds the addresses and ranges of the lines it took.  Assumptions: an IPv4
address is shorter than a whole one, and its prefix has the bytes that are missing.

`InputsProofs` proves `LoadedAsWritten` and `UsableInForce` for any settings and lines.
The invariant `ConfigInv` says that after each line the `Config` and the section are
what the lines so far mean; one more line leaves the meaning of the others alone, and
is itself the last about the fields it names.  Assumptions on the settings, all of
them facts of `config.c`: no two fields have section and key in common, there is a
chain, whose default is "not set", and two thresholds with sizes in order as defaults.

It also proves the four properties of `RequestPath` for any paths, views, connections
and streams.  `RequestInv` has, for each connection and stream, what its state says of
its path, method and status (`ConnOK`, `StreamOK`); that the families of counters
agree (`Families`); and that the responses made, less those counted and lost, are those
on their way (`Balance`).  The sets of those on their way are finite by the invariant,
so nothing is assumed of the number of connections.  Assumptions on paths, which
`router.c` fixes by exact comparison: a word that is a whole path has at most 7
characters, and a path that begins with `tx/` has no more digits than come after it.

Induction over numbers is done by the least counterexample (`LeastNumber`), from the
library's well-founded order on the naturals; the library's induction rules take an
operator as parameter and cannot be used.  `Pow2` is a recursive function, and that
its equation holds is proved in the same way (`Pow2Defined`).

The inductive invariants were model-checked on the instances of the runs before they
were proved.  Every safety property of a passing run is proved; only model-checked is
all liveness, `DrainCompletes`, `ShutdownCompletes`, `CrashRepaired`, `RequestEnds`,
`RenewalServed` and `DrainEnds`, since the prover has no rules for fairness or
`ENABLED`.

## Not modelled

Static files, seccomp, logging and socket options have no state of their own worth
exploring: they are tables, formatting and I/O, and a failure of theirs is a failing
start in `WorkerLife`.  Of the network names only the parsing of a chain is used.
Of the endpoints, `generate_health_body` and `generate_metrics_body` print counters.
Of `main.c`, the options change a configuration after it was loaded.  The blocking reader is not on the server's path.  The
synchronous RPC calls are not called by the server (`rpc.c` marks some of them
"UNHOOKED").  OpenSSL's handshake, nghttp2's flow control and libevent itself are
external.

The order of the checks at accept (access list, rate limiter, slot) is in `Worker`
as one nondeterministic verdict: the three share no state, so a composition of
`IpAcl`, `RateLimiter` and `Worker` would add no behaviour of any of them.
