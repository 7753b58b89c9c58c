# A TLA+ model of the modbus library

This directory models the Modbus/TCP client and server of this repository
(`src/modbus`), checks the models with TLC on small instances, and proves the most
important properties with TLAPS for every value of the constants.

## 1. The system

| Component | State | Operations | Talks to |
|---|---|---|---|
| `tcp_server` (`server/tcp_server.*`) | `acceptor_`, `stop_`, the manager | `start()` (coroutine: resolve, listen, accept loop), `stop()` | creates sessions, spawns `manager.start`, `stop_all` |
| `tcp_session_manager` (`server/tcp_session_manager.*`) | `sessions_` (set of `shared_ptr`), `max_sessions_`, `mtx_` | `start`, `stop`, `stop_all`, `set_max_sessions` | owns the sessions, spawns their coroutines, stops them |
| `tcp_session` (`server/tcp_session.*`) | `socket_`, `stop_`, a 256-octet buffer | `start()` (coroutine: read, handle, write), `stop()` | user's request handler; tells the manager when its peer has gone |
| `server_helper.hpp` | the user's coil and register arrays | address checks, bit maps, copies between arrays and messages | called by request handlers |
| `tcp_client` (`client/tcp_client.*`) | `transaction_id_` (atomic `uint16_t`), `con_pool_`, `config_` | `create_request`, `send_request` (with or without timeout), `set_config`, `validate_response` | connection pool, connections |
| `cpool` (external) | idle and used connections | `get_connection`, `release_connection`, reads, writes, deadlines | network |
| `tcp_data_unit` and messages (`core/`) | an octet buffer | serialise, parse, header access | everybody |
| `modbus_response` (`core/`) | values of an answer | typed access | users of the client |

Everything is a C++20 coroutine on an `any_io_executor`, which may be a thread pool: the
code guards the registry with a mutex and uses atomics for the stop flags and the
transaction id, so the models interleave at every suspension point and between the
statements of `tcp_server::stop()`.

What is hard here:

* **stop() against everything else.** `stop()` sweeps the registry while an accept is
  resuming, an admission is only spawned, a session is inside the user's handler, or a
  session is leaving by itself.
* **Object lifetime.** A session coroutine holds a raw `this`; the registry's `shared_ptr`
  is what keeps the session alive.
* **Exceptions in detached coroutines.** A message whose length field disagrees with what
  was read, or a throwing handler, ends a session without the manager hearing of it.
* **Late answers.** A request that timed out leaves its answer (or half of it) to the next
  request on the connection; `clear_buffer` and the loop on the transaction id must cope.
* **Wrap-around and reordering of ids.** Ids are 16 bits wide and are reserved by
  `create_request`, in an order that need not be the order of sending.
* **Reads and writes that are not messages.** The session takes one `async_read_some` for one
  request and one `async_write_some` for one response; TCP promises neither.
* **Resource bounds.** Limits on sessions and on connections, and leaks of either.

What makes each component correct:

* *manager*: the registry is bounded; a running session is registered exactly until it is
  stopped; a session never comes back (abstract specification `SessionRegistry`).
* *session*: it releases its place and its socket however it returns; it ends when it is
  stopped; a peer that left frees its place.
* *server*: `stop()` ends the accept loop; no session survives it (violated, see 4).
* *client*: every connection goes back to the pool exactly once; a call with a timeout
  returns as long as the other calls have timeouts too (a call without one may keep the
  connection it waits for, see 4); the answer returned is the caller's own, under the weakest conditions the code
  can promise.
* *client and session together*: the session is a server the client can live with, and on
  a connection where nothing has gone wrong every call gets its own answer.
* *codec*: what is written is what is parsed; impossible lengths are refused.
* *response object*: what the application reads is what the server's memory held.
* *helpers*: bits and registers move to and from the places the request names, and a
  request outside the array is refused.

`PROJECT.json` lists the hazards line by line and which property covers which.

## 2. The modules

| Module | Models | Extends |
|---|---|---|
| `TcpSessionManager` | the registry: one operator per manager operation, each atomic because it runs under `mtx_` without suspending | |
| `TcpSession` | the session coroutine and its peer | `TcpSessionManager` |
| `TcpServer` | accept loop, `stop()`, the composition, all server properties | `TcpSession` |
| `SessionRegistry` | abstract specification: what the server promises about its set of sessions | |
| `TcpClient` | client calls, pool, connections, network, remote server, all client properties | |
| `EndToEnd` | the client against the repository's own session, over octet streams; it implements `TcpClient` | instance of `TcpClient` |
| `Codec` | the 21 messages, `tcp_data_unit` and `validate_response`, as operators on octets | |
| `Exchange` | requests and responses through the buffers of both sides | `Codec` |
| `DataMap` | the helpers of `server_helper.hpp` and a handler that uses them | |
| `ModbusResponse` | `modbus_response_t`: construction, setters, typed access | `Codec` |
| `DataPath` | an application's reads and writes of the server's memory, through helpers, messages and response object | `DataMap`, `ModbusResponse` |
| `MCTcpServer`, `MCTcpClient`, `MCExchange`, `MCDataPath` | symmetry sets, messages and memories for TLC | the modules above |
| `TcpServerProofs`, `TcpClientProofs`, `TcpClientHistoryProofs`, `EndToEndProofs`, `CodecProofs`, `ExchangeProofs`, `DataMapProofs`, `DataPathProofs` | theorems (section 5) | the modules above, `TLAPS` |

### Server

`pc[s]` is where session `s` stands, from a connection in the kernel's backlog to its end.
An asynchronous operation is two steps: it completes with a result (`ReadCompletes` stores
it in `ready`), and later the coroutine resumes with that result (`ResumeRead...`) in
whatever state the others have left. `session_stop_` and `socket_` are the members
`stop_` and `socket_` of each session, `sessions_` and `max_sessions_` those of the
manager, `stop_` and `acceptor` those of the server.

Data abstracted: a read delivers a chunk that is `short` (fewer octets than a header and
a PDU), `mismatch` (the length field announces more than was read: the
`tcp_data_unit` constructor throws) or `request`. Whether a peer sent one chunk or many is
one flag `inbound`. End of file and other read errors differ only in a log line. What a peer
does after the coroutine of its session ended reaches nobody and is left out.

Undefined behaviour: a coroutine that resumes after its session left the registry runs on a
destroyed object. Either the freed memory still holds the old values, and the ordinary steps
apply, or the process ends (`UseAfterDestroy`). The log call after a failed write
(`tcp_session.cpp:60`) has the same two outcomes. Where the process ends, `process` is `"aborted"`
and the session whose coroutine did it is in phase `crashed`, so that a property can tell by which
step and in which state it came to that.

`start()` and `stop()` of the server are called at most once each, in any order;
`set_max_sessions` is called by whoever owns the manager (`tcp_server` itself never does).

### Client

`pc[r]` is where call `r` stands: created, waiting for the pool, clearing the
buffer, writing, reading the header, reading the body, returned. A connection carries a
sequence of units: a `Header` (its id, its kind of length field, and the request it answers)
or a `Piece`, octets that are not a header. That split is the only one the code can see:
`read_response` reads six octets, then as many as the length field says. `wire` is what the
server sent, `rx` what has arrived. Length fields are `fits`, `over` (more than the buffer)
or `zero` (the body read is empty and the constructor throws).

A read that starts at a piece, because an earlier call left half a message behind, takes
arbitrary octets for a header and ends anywhere in what has arrived (`Remainders`).

From `cpool`, external, the model takes what `tcp_client.cpp` relies on: a connection handed
out is idle; a connection known to be down is made anew; a connection may be down without
the pool having noticed; a timed-out operation leaves the connection open (this is what
`clear_buffer` and `slow_server_test` presuppose); a destroyed pool answers waiting calls
with `nullptr`. A write that times out has reached the server whole or not at all.
`set_config` while a call holds a connection leaves that call with a dangling pointer: the
model stops there with `process = "undefined"`.

The remote server may be any: it answers in order and as late as it likes, loses requests
(`ServerForgets`), and, where `MaxGarbled` allows it, writes octets that are no answer or the
beginning of one (`ServerGarbles`). The first two are always possible; without the third,
`CleanHistoryOwnAnswer` holds, with it the remaining properties still do.

`users` and `earlier` are history variables: which requests were written on a connection
since it was made, and which of them before this request.

### Client and session together

`EndToEnd` instantiates `TcpClient` with the requests that the repository's session still has
(`Pending`) for the requests at its server, and gives every connection a session of its own:
`session` is where its coroutine stands, `inbox` the requests written to it of which nothing has
been read, `begun` whether the last read ended inside a request whose rest is still to come,
`job` what its handler works on. `SessionReads` is one `async_read_some`: it
takes any part of what is there (`Takes`). Octets that begin with a whole request are that request, whatever
follows them in the buffer is lost; too few octets are skipped or make the constructor throw; the
rest of a request may even be taken for one. `WritesPart` is an `async_write_some` that writes less
than the response. A session that threw, or a connection that nobody accepts, is `deaf`: the
socket stays open and nobody reads. Admission, `stop()` and object lifetime, which `TcpServer`
models, appear as a `deaf` or a closed connection.

`ImplementsClient` says that all of this is behaviour `TcpClient` allows its server, so that what
is checked and proved of the safety of `TcpClient` holds here. The other properties say what this server adds:
on a *healthy* connection (every earlier request on it got its own answer and no read or write
has ended inside a message) a waiting call's request is in exactly one place, its answer is its
own, and it comes. Neither condition can be dropped. After a timeout, the next request can be
read together with the one that was given up and is dropped with it: a caller without a timeout
then waits for ever.

### Messages

The structs under `core/messages` differ in their names but not in their shape: unit id,
function code, 16-bit members, and for most of them a byte count and values of one or two
octets. `Codec` has one `Layout` per struct, under the struct's name, and one `size`, one
`serialize` and one `parse` for all; `exception_response` is the exception. What is special to a
struct is in `Members`: a coil is a bool on the way in, and `read_write_registers_request`
replaces the number of registers it read by the number of values. A parser trusts the byte
count: reading past the end of the buffer is the outcome `undefined` of `pdu`. Exceptions,
empty optionals are `Failure` records. `read_response` returns a unit and an error; the unit that
goes with an error is empty and no message is found in it.

`Exchange` sends such messages both ways. The session's `buf` lives as long as the session
and keeps what earlier requests left; the data unit given to the handler is that whole buffer.
`read_response` has a fresh buffer for each answer. The handler is any function from requests to
the responses of the instance, with the id of its request. How octets are cut into reads is
left to the other modules: here a write arrives whole, as far as the reader's buffer goes.
The messages of an instance are `WellFormed`: members in range of their types, as many as the
struct has, and no more values than the count octet can describe.

### Server helpers

In `DataMap` an octet of coils is the set of its bits, so the code's masks and shifts are set
operations. `numHighBits` can exceed the nine entries of `bitMasks`: what is read there is any
member of `Garbage`. `write_coils` indexes the octets of the request, a vector on the heap, by the
octets of the bit map; when these are more it writes past the end of the vector. The handler is then
in phase `undefined` and its memory is any memory of the instance; what else that breaks is not followed
further. The handler is
the one of `tcp_server_test.cpp`: bit map, `legal_address`, then the copy or the write. It
serves one request on an arbitrary memory; since the helpers have no state of their own that is
all there is. `num = 0` is refused, as its bit map is empty.

Two conditions say for which ranges the helpers are right. `Regular`: the range ends in its
first octet, or `(num % 8) + startBit` is below 8, so that `numHighBits` counts the bits of the
last octet. `Short`: the statuses of a write need one carry at most. Reads are exact for regular
ranges (`ReadExact`). A write has enough octets only if its range is regular and does not end on an
octet; then it is exact if it is also `Short` (`WriteExact`). Outside these conditions the helpers
fail, and section 4 shows how: `DataPathCoilsRequested.cfg` beyond `Regular`, the run `datamap_write`
beyond `Short`, `DataPathWritesInside.cfg` where the octets are too few,
`DataPathRefusedForCause.cfg` at the end of the mask.

### Application data

`DataPath` joins the helpers with the messages and `ModbusResponse`. A read that the handler has
served becomes a message, octets, a message again and a `modbus_response_t`, made as the
repository's README makes it; a `vector<bool>` becomes a write request and reaches `write_coils`.
Octets are sets of bits in `DataMap` and numbers in `Codec`; `Number` and `BitsOf` convert. A
32-bit value is a pair of words, since TLC's integers have 32 bits and a sign. A getter whose
`at()` throws is a `Failure`. An object that was made without arguments can be filled by its
setters, in any order: it stays invalid, because validity also needs a number of values, which
only the other constructor sets (`DataPathValidAsDocumented.cfg`). `ClientReadsRegisters` says what the getters
return where code and documentation agree on the index: every octet, and the first number of
each width. Further numbers are indexed by value in the code and by octet in the documentation
(`DataPathIndexedByOctet.cfg`).

## 3. Runs

| Run | Instance | Shows |
|---|---|---|
| `server_safety` | 3 sessions, limit 1 | `TypeOK`, `RegistryBounded`, `RunningIsRegistered`, `EndedIsReleased`, `LateListenerServesNobody`, `AbortNeedsCause`, and that the server implements `SessionRegistry` |
| `server_liveness` | 2 sessions, limits 0 and 1 | `AcceptLoopEnds`, `StoppedSessionEnds`, `PeerGoneFreesPlace`, `WaitingIsAccepted` |
| `server_stop` | 2 sessions | violation of `NoRequestAfterStop` |
| `server_limit` | 2 sessions, limit 1 | violation of `MaxSessionsRespected` |
| `client_safety` | 3 timed calls, 2 connections, ids modulo 3, one `set_config`, whole answers | `TypeOK`, `ConnectionExclusive`, `OlderAnswersSkipped`, `CleanHistoryOwnAnswer` |
| `client_liveness` | 2 timed calls, 1 connection, all length fields, fragments | `TimedCallsReturn`, all calls having timeouts |
| `client_answer` | 2 calls, 1 connection, ids modulo 2^16 | violation of `AnswerMatches` |
| `client_pool` | 1 timed and 1 untimed call, 1 connection | violation of `TimeoutBoundsWait` |
| `endtoend` | 1 timed and 1 untimed call, 1 connection, one `set_config` | `HealthyInOnePlace`, `ImplementsClient`, `HealthyOwnAnswer`, `HealthyConnectionAnswers` |
| `exchange_safety` | 24 requests, 33 responses of all layouts, 2 ids, buffers of 20 octets | `RequestArrives`, `ResponseArrives`, `PartsAgree` |
| `datapath` | 3 octets of coils, 24 registers, 3 masks, 17 starts, 18 lengths | `ReadExact`, `WriteExact`, `AccessRespected`, `RegistersExact`, `ClientReadsCoils`, `ClientReadsRegisters`, `ClientWritesCoils` |
| `datamap_write` | the same | violation of `CoilsWritten` |

Eight more configurations, small and without a line in `PROJECT.json`, each refute one statement
of the documentation that the code does not keep (section 4). Run them by hand, for instance
`tlc -config DataPathCoilsRequested.cfg MCDataPath`:

| Configuration | Module | Violated |
|---|---|---|
| `ServerLifetime.cfg` | `MCTcpServer` | `StoppedIsNotUsed` |
| `ClientConfig.cfg` | `MCTcpClient` | `ConfigSetWhenNotRunning` |
| `ExchangeEcho.cfg` | `MCExchange` | `EchoIsValid` |
| `DataPathCoilsRequested.cfg` | `MCDataPath` | `CoilsRequested` |
| `DataPathWritesInside.cfg` | `MCDataPath` | `WritesInside` |
| `DataPathRefusedForCause.cfg` | `MCDataPath` | `RefusedForCause` |
| `DataPathIndexedByOctet.cfg` | `MCDataPath` | `IndexedByOctet` |
| `DataPathValidAsDocumented.cfg` | `MCDataPath` | `ValidAsDocumented` |

Bounds. With a limit of one the manager admits two sessions, so three are needed for one to
be refused. Changing limits double the state space and are left to the two-session liveness
run, where the limit zero refuses the second session, and to the theorems, which hold for
every set of limits. Two connections
and three calls let one call time out, a second one inherit its connection and a third use
the other; three ids make the counter wrap within three calls. One
`set_config` meets every place a call can stand in. The liveness instances are smaller
because TLC builds the behaviour graph for them. Receive buffers of 20 octets instead of 256
let messages of every layout fit and every layout with values overflow them by one octet, and any two
requests follow each other through the same buffer. Three octets of coils are the fewest in which
a carry crosses two of them; starts and lengths take every residue modulo 8 and end before, at
and after the end of the memory. In `endtoend` two calls on one connection let one be given up and
the other meet what it left; a request is split in two at most once, which is enough for its two
parts to be read apart or together with another request. `MaxGarbled` bounds what a garbling
server leaves unread; in `endtoend`, where it bounds only the abstract server, it exceeds
anything two requests can leave. Deadlock is not checked: a server that was
stopped and a client whose calls have returned really stop.

Fairness. The executor runs what is ready: weak fairness of the accept loop, of the rest of
`stop()` once called, and of each session, the user's handler included (a handler that never
returns keeps its session for ever). In the client: weak fairness of each call's next step
and of its read deadline, which passes whether or not octets keep arriving. A failure of
`async_accept` with a healthy acceptor, peers, network, remote server and users are never
forced to do anything. The pool is assumed to get hold of some connection or to report
failure, eventually. `endtoend` assumes in addition what its own server does: sessions take
their next step, handlers return or throw, and TCP delivers what was written while the
connection is up; disconnections are never forced.

Mutants. Operators named `X_but_...` are `X` with a plausible mistake (a dropped guard, a
missing reset). Put in the place of `X`, each makes TLC refute the property it is listed
with: the properties depend on the code's behaviour.

## 4. Where code and documentation disagree

In brackets the run, or the configuration, that shows it.

* **A stopped server still serves** (`server_stop`). `tcp_server.cpp:69` says "Stop the server
  and cancel all requests". A connection accepted just before `stop()` has its
  `manager.start()` only spawned; it runs after `stop_all()` and registers a session that
  nobody will stop.
* **One session too many** (`server_limit`). `tcp_session_manager.cpp:17` compares with `>`
  before inserting: a maximum of *n* admits *n* + 1. The true bound is `RegistryBounded`.
* **Somebody else's answer** (`client_answer`). The loop in `send_request` skips only answers
  with *smaller* ids. After a timeout, the late answer to a request with a larger id is
  returned as this request's response with no error. Under the hypothesis that earlier
  requests on the connection have smaller ids, `OlderAnswersSkipped` holds and is proved.
* **A timeout that does not cover the wait** (`client_pool`). `tcp_client.hpp:67` calls the timeout
  "The time to wait for a response before declaring a request" a failure. It is set on the
  connection, after the pool has handed one out: while another call holds the only connection,
  a call with a timeout waits without one.
* **A stopped session runs on** (`ServerLifetime.cfg`). `tcp_session.hpp:31`: "Stop all asynchronous
  operations associated with the session." `stop()` closes the socket, `stop_all()` then drops the
  last owner, and the coroutine, which holds a raw `this`, resumes on a destroyed object; a failed
  write does so to itself. `AbortNeedsCause` says that nothing else leads there.
* **A configuration for running clients** (`ClientConfig.cfg`). `tcp_client.hpp:35` says the
  configuration is set "if the client is not running". `set_config` tests nothing and destroys the
  pool under the calls that hold its connections.
* **Echoes are invalid** (`ExchangeEcho.cfg`). `tcp_client.cpp:180`: "Data should equal the request". The
  request is compared with the whole receive buffer of the response, so that an answer which
  mirrors the request (`tcp_server_test.cpp:189` calls that a proper one) is refused. Nothing calls
  `validate_response` at present.
* **Coils nobody asked for** (`DataPathCoilsRequested.cfg`). `server_helper.hpp:87`: "The coils that were requested."
  When `(num % 8) + startBit` is 8 or more the bit map marks coils after the range, or what lies
  behind `bitMasks`, and `copy_data_bits` returns them behind the others.
* **Coils shifted twice** (`datamap_write`). `server_helper.hpp:156` takes the carry from an octet
  that the loop has shifted already; from the third octet on, coils get the wrong values.
* **A write outside its vector** (`DataPathWritesInside.cfg`). `server_helper.hpp:142`: "Writes several bits in
  memory". The bit map of a range that ends on an octet, or that is not regular, has an octet more
  than the request carries, and `write_coils` writes it.
* **Refused at the end of the mask** (`DataPathRefusedForCause.cfg`). For the same reason `legal_address`, which
  is to tell "whether access to a register or coil is allowed" (`server_helper.hpp:50`), refuses
  allowed coils that end where the mask ends. `AccessRespected` says that no other regular request
  is refused without cause.
* **Index of what** (`DataPathIndexedByOctet.cfg`). `modbus_response.hpp:96` calls the index of `getUINT16` "The
  starting byte index in the data block"; the code, and the tests with it, count values.
* **Invalid for another reason** (`DataPathValidAsDocumented.cfg`). `modbus_response.hpp:131` names two reasons for
  an object to be invalid. The code has a number of values that must not be 0, and no setter for it.

## 5. Proofs

Assumptions, all checked by TLC on the instances: `ManagerAssumption` (finitely many sessions,
integer limits, the default among them), `ClientAssumption` (a positive id modulus, `Null`
distinct), `EndToEndAssumption` (the same, and finitely many requests), `ExchangeAssumption`
(buffers that hold a header and the shortest message, well-formed messages) and
`DataMapAssumption` (octets are octets, addresses and numbers are natural). Every invariant that
a passing run checks is a theorem.

`TcpServerProofs`:

* `TypeCorrect`.
* `RegistryHoldsRunning`, `EndedSessionsReleased`. Neither property is inductive: whether a
  session that is about to return is registered depends on flag and socket at every
  earlier phase. `LedgerInv` is the ledger of a session per phase (before admission: not
  registered and not stopped; running: registered iff not stopped, and the socket open iff
  not stopped; a read or write that ended `aborted` or `error` because of a close; returned or
  refused: unregistered and closed). It needs one case per action, and both properties
  follow from it.
* `ServerImplementsRegistry`: every step of the server is a step of `SessionRegistry` or a
  stutter, under the mapping `active <- sessions_`, `gone <- ` the stopped sessions,
  `limit <- max_sessions_`. It uses `LedgerInv` to know that an admitted session is fresh.
* `RegistryIsBounded`: for non-negative limits the registry never exceeds the largest limit by
  more than one, from the cardinality of a set with one element added.
* `NobodyServedLate`, from `ListenInv`: before the acceptor is opened it is closed and nobody has
  connected, and `stop_` is set exactly when `stop()` has begun.
* `AbortHasCause`, an action property, from `CauseInv`: a session stopped under its running coroutine
  was stopped by `stop_all()`, and a write fails only for a peer that left or a session that was
  stopped. Hence the step into `crashed` is either a resumption after `stop_all()` or the log call
  of the session's own failed write; the property fails if a read error logs after its stop.

`TcpClientProofs`:

* `TypeCorrect`, together with `Holding` (a call is in flight iff it holds a connection),
  without which the types of the streams are not preserved.
* `ConnectionsExclusive`, from `Exclusive`: no two calls hold the same connection, an idle one
  is held by nobody, and none is lost.
* `OlderAnswersAreSkipped`, from `Origin`: every header in a stream or at the server belongs to
  a request written on that connection since it was made, with that request's id; the unit a
  call is reading came from its own connection, hence answers the call or one written
  earlier; and ids do not change once a request is sent.

These hold for a server that loses requests and writes fragments. A fragment is nobody's
answer, so `Origin` says of every header only that it is nobody's or a user's of the connection;
that a fragment may carry any id is why `OlderAnswersSkipped` speaks of complete answers.

`TcpClientHistoryProofs`:

* `CleanHistory`: whoever follows only answered requests is answered. The invariant describes the
  whole stream of a connection: `Book` says who has written on it and that those before a request
  had ended by then; `Aligned` says that as long as everybody who left the connection got its own
  answer, the stream holds exactly what its reader expects next: nothing, its request at the server,
  or its own header and body, in any division between network and receive buffer.

`EndToEndProofs`:

* `SessionIsAServer`: the repository's session implements the arbitrary server of `TcpClient`. A
  read that loses requests is a sequence `ServerForgets` allows, a response an answer, a partial
  write or an answer to nobody's request a fragment. `TcpClient` bounds its fragments by
  `MaxGarbled`, the session does not count; `Loaded` (a request makes two units at most, so no
  stream is longer than twice the number of those who have written) shows that the bound never
  binds. Hence the hypothesis `BoundSuffices`, `MaxGarbled >= 2 * Cardinality(Requests)`, of all
  three theorems; the run's instance meets it (6 and 2 requests).
* `OwnAnswerWhenHealthy`: `CleanHistory` assumes a server that writes no fragments. Here it has to
  be shown per connection: `Whole` says that until something is torn the session is never in the
  middle of a request and the stream is `Aligned`.
* `InOnePlaceWhenHealthy`, from `Served`: on a connection on which nobody was left unanswered and
  nothing is torn, the request of the waiting call is at the server or its whole answer is on the way.

The last two cite the client's invariants through the instance, for the client whose server is
the session: this is what the refinement is for.

`CodecProofs`, for messages of any layout and length and any ids:

* `RoundTrip`: what `tcp_data_unit` makes of a well-formed message, `from_buffer` and `pdu` turn back
  into it. `Shape` gives the octets of a message as prefix, members and counted values, without
  recursion; `Carries` says that a buffer begins with a data unit of the message, whatever
  follows; lemmas show that `tcp_data_unit` makes such a buffer and that every accessor and `pdu`
  reads such a buffer as the message. The two proof modules about messages rest on these lemmas.

`ExchangeProofs`, for the same messages and buffers of up to 256 octets:

* `RequestsArrive`, `ResponsesArrive`, `PartsAlwaysAgree`. `ExchangeInv` says that what was asked, served, replied and answered carries its
  message with the id of the request. The session's buffer may hold anything behind it.

`DataMapProofs`, for memories, masks, addresses and ranges of any size:

* `MaskRespected`, `CoilsReadInOrder`, `CoilsWrittenInPlace`, `RegistersInOrder`. `HandlerInv` records that
  a request was served or refused according to a bit map of its own, and what was computed from the
  memories as they were. `BitMapExact` shows that the bit map of a regular range marks exactly the
  coils of the range, and `BitMapCovers` that none is missing as long as `bitMasks` is read within
  its bounds; what the two conditions of section 2 leave out is where these lemmas end. The
  rest is the arithmetic of a shift by `start % 8` across two octets: `MovedCoil` downwards,
  `ShiftedCoil` upwards. The loop of `write_coils` is a recursive function; where no carry of a carry
  is needed, an explicit solution of its equation replaces induction. `WriteExact` speaks only of
  writes that stay inside the octets of the request: `Filled` (the request carries an octet for every
  eight coils) and `InsideIsRegular` show that the range is then regular and the bit map exact. Where
  a write leaves them nothing is proved of the memory.

`DataPathProofs`, the whole way between a server's memory and an application:

* `PathInv`: an object has its octets from a response and its number of values from the
  constructor or, if made without arguments, not at all; and the octets the handler took of a write
  are those of the request.
* `ApplicationReadsCoils`, `ApplicationReadsRegisters`, `ApplicationWritesCoils` join `HandlerInv` and
  the lemmas of `DataMapProofs` with `RoundTrip`. What they add is the conversion between sets of bits
  and numbers (`NumberBits`: `Number` adds up the bits that `(number \div 2^b) % 2` finds again, for
  each of the eight by an explicit solution of its recursive equation), the typed access
  (`WordAccess`, `LongAccess`, two's complement in `SignedReads`), and `ServedInMemory`: a request that was
  served lies in the memory even if `bitMasks` was read beyond its end. Each has a hypothesis on
  the constants: `CoilsFit` and `RegistersFit` (at most 2040 coils, 127 registers: the count octet
  describes 255 octets at most, and nothing in the code keeps a handler from exceeding it),
  `WritesFit` (besides, start addresses are 16-bit numbers). The instance of `datapath` meets them.

Model-checked only: the liveness properties (TLAPS does not handle fairness).


## 6. Not modelled

* Log texts, error categories, formatting: no property is about them.
* Error messages of the resolver and of the operating system: each is an outcome of the
  action that meets it.
* Time: deadlines may pass at any moment after they are set.
* Aliasing: copies of a `tcp_data_unit` share one buffer, so `set_transaction_id` on one changes
  all; in the models a unit is a value. No code of the library calls `set_transaction_id`.
* `operator<<` of `modbus_response_t`, and its `size()`, which is declared and defined nowhere.
* In one model, several clients or connections to one `tcp_server`: `TcpServer` has many sessions
  with abstract requests, `EndToEnd` the streams of each connection by itself; sessions share
  nothing but the registry and the user's handler.
* Build files and tests. The tests were read as statements of intent.

## 7. Plan

The order was: server (the part with most actors), client, the data both exchange, then their
composition and the application's view of the data; then the proofs in the same order. Every
safety property of a passing run is now a theorem; liveness stays with TLC.
