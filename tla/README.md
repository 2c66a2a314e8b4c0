# finchers in TLA+

Specifications, model-checking configurations and machine-checked proofs for
`finchers`, a combinator library for asynchronous HTTP services in Rust
(futures 0.1). An application is an `Endpoint`: a tree of combinators (`and`,
`or`, `or_strict`, `map`, `and_then`, `map_err`, `recover`) over leaves that
match path segments, parse parameters, take the request body or run a future.
For each request the tree builds a tree of `EndpointAction`s, and `AppFuture`
drives it: one `preflight` that routes, then `poll_action` until the answer is
there.

## 1. Inventory

| Component | State | Operations | What makes it correct |
|---|---|---|---|
| Endpoint actions and combinators (`action.rs`, `endpoint/ext/*.rs`) | per action: `MaybeDone` cells of `And`, the `State` of `Or`/`OrStrict`, the `in_flight` future of `AndThen`/`Recover`, the `Option` of `Oneshot`; the shared `PreflightContext` and its clones | `preflight`, `poll_action` | no action is applied twice, polled before preflight or after its end; routing is a pure longest match; errors and outputs reach the root |
| `AppService`/`AppFuture` (`service.rs:43-196`) | `AppFutureState`, the `Context`, the body | `dispatch`, `poll_apply`, `poll` | every request is answered; NotReady only if a wake-up is due |
| Task-local `Context` (`service.rs:215-246`) | a thread-local pointer | `set`, `with`, `try_with`, `is_set` | scopes nest and restore, also on panic; one `&mut Context` at a time; never another request's context |
| `Context` of a request (`service.rs:160-197, 248-318`) | lazily parsed cookie jar, supplemental headers | `cookies`, `response_headers`, the response made from them | the client is left with exactly what the handlers did, after a success and after an error |
| Path endpoints (`endpoint/syntax.rs`), `Cursor` (`action.rs:185-240`), encoded strings (`endpoint/syntax/encoded.rs`), `path!` (`finchers-macros`) | position and number of popped segments; a parser at compile time | `next`, `remaining_path`, `segment`, `eos`, `param`, `remains`; parse, generate, extract | segments partition the path; a literal means what it says; values are those of the segments |
| Verb sets (`endpoint/syntax/verb.rs`) | a bit set | `contains`, iteration | each member is yielded once |
| Body endpoints (`endpoints/body.rs`) | `Start`/`Receiving` and a buffer | `raw`, `receive_all`, `text`, `json`, `urlencoded` | one owner of the body; the output is that of the whole body, however it arrives; a rejected request keeps its body |
| Query and header endpoints | none | oneshot checks of the request | reject before anything is taken |
| `TestRunner` (`test.rs`) | default headers | `apply`, `apply_raw` | what a test writes wins over defaults, and every default reaches the endpoint |
| File endpoints and output (`endpoints/fs.rs`, `output/fs.rs`) | `OpenNamedFile` states, the buffer and remaining length of `FileStream` | open, metadata, read | the body is the file, as long as `Content-Length` |
| Sessions (`finchers-session`) | storage, cookie, the `Session` value | read, `with`, write; in-memory, Redis and cookie backends | nobody else's session; a failed handler leaves no trace; a success is kept, also through faults |
| GraphQL (`finchers-juniper`) | the join of context and request, a task, its handle | `graphql_request`; `current_thread`, `nonblocking`, `with_spawner` | the answer is that of the request's own queries, or its own first error, and comes; a task that has not begun is given up with its client, one that runs finishes its queries for nobody |
| WebSocket (`finchers-tungstenite`) | the upgrade task | handshake, spawn, upgrade | 101 exactly if somebody holds the connection |
| Outputs, errors, templates, type-level helpers, boxed endpoints | none | conversions, delegation | not stateful |
| `src/server/` | | | not compiled: `lib.rs` does not declare it |

**Interaction.** `AppFuture` calls the root action; a node calls its children
with the same `&mut` context and waits for the call to return, so within one
poll everything is sequential. Concurrency comes from outside: the futures held
by leaves and handlers complete at any time and in any order and notify the
task; the executor polls the task after a notification, and because one task
serves a whole connection it may poll when nothing of this request is ready.
All actions share one request body (`ActionContext::take_body`), one
`PreflightContext` during routing and one `Context` throughout. Requests meet
each other in three places: on a thread, through the thread-local pointer; in
the storage of sessions, and in the cookies of a client; in the executor that
runs the tasks of GraphQL queries.

**What is hard here.** A protocol (preflight once, then poll until ready, then
never again) that every combinator must keep for every child under every nesting,
although errors, completions in preflight and discarded branches end children at
different times; a mutable cursor that is cloned, exchanged and restored by
nested alternatives; state kept across polls; wake-ups that are never asked for
twice; sessions that are read by one request and written by another, by commands
that may fail and responses that may be lost; tasks that outlive the client they
run for. The list with source lines is `hazards` in `PROJECT.json`.

## 2. Modules

| Module | What it is |
|---|---|
| `EndpointAction` | the machine: actions, combinators, `AppFuture`, futures, executor; its safety properties, fairness and inductive invariant |
| `ActionContract` | the abstract specification: what the trait `EndpointAction` promises to each action |
| `EndpointRouting` | the meaning of a tree as pure functions (answer of routing, route, output), the properties that compare the machine with it, and the inductive invariant of these properties |
| `MCEndpointAction` | instances for TLC: positions, families of trees, paths |
| `EndpointActionProofs` | the theorems of both and their proofs |
| `TaskContext`, `MCTaskContext`, `TaskContextProofs` | the thread-local pointer to the `Context` of the request being polled |
| `RequestContext`, `MCRequestContext`, `RequestContextProofs` | the cookie jar and the supplemental headers of a request, its response and the client that keeps the cookies |
| `PathExtraction`, `MCPathExtraction`, `PathExtractionProofs` | `path!` from its literal to the extracted values, the path endpoints and the `Cursor`, character by character |
| `RequestExtraction` | headers, query, body and WebSocket of one request under `and` and `or` |
| `TestRunner` | the requests `TestRunner` makes out of what a test hands it |
| `TestedExtraction`, `MCTestedExtraction` | `RequestExtraction` composed with its drivers: a `TestRunner` or a server |
| `ExtractionProofs` | the theorems of `TestedExtraction` and of `VerbSet` |
| `Session`, `MCSession`, `SessionProofs` | `Session::with`, the three backends, their clients and storage |
| `SessionRegister` | the abstract specification of a session: one register per client |
| `GraphQL`, `MCGraphQL`, `GraphQLProofs` | the GraphQL request, the three executors, the executor that runs their tasks |
| `NamedFile`, `MCNamedFile`, `NamedFileProofs` | `fs::file`, `fs::dir`, `OpenNamedFile` and `FileStream` serving one file |
| `VerbSet`, `MCVerbSet` | the iterator over `Verbs` |

Two modules are shown to implement an abstract one: `EndpointAction` the contract
of its trait (`ContractSpec`), `Session` the register (`RegisterSpec`).
`TestedExtraction` composes two modules. The others describe parts that the tree
of `EndpointAction` sees as a leaf: a `Future` leaf is polled inside
`Context::set`, the file actions are leaves that pop the rest of the path (`dir`)
and wait for a future, a check of a verb, header or query is a `Guard`, and the
executors of GraphQL are futures.

### How `EndpointAction` corresponds to the code

A *node* is one action value. `kind` gives the tree: a position of a binary tree
is an `And`, `Or`, `OrStrict` (two children), a `Map`, `MapErr`, `AndThen`,
`Recover` (one child), or a leaf. Leaves: a `Segment` literal, `Eos`, `Param`,
`Remains` (oneshot, they move the cursor), `Guard` (a oneshot that does not read
the path: a header, query or method check), `Future` (any action whose result is
a future), `Raw` and `ReceiveAll`. `accept` fixes which parsers accept what they
read; the model does not look into values.

`preflight` and `poll_action` are recursive in Rust. The model makes the stack
explicit: `frame[n]` says which method of `n` runs and which child it waits for,
and one step of `n` is the code between two such calls, including every
assignment, clone and early return in it. `ret[n]` is what the last call
returned: `Completed`, `Incomplete`, `Rejected` (the `Err` of preflight),
`Ready`, `NotReady`, `Failed` (the `Err` of `poll_action`).

| Model | Code |
|---|---|
| `state[n]` | `Or`/`OrStrict`: `State`; `Recover`/`AndThen`: `in_flight` (`"None"`, `"InFlight"`); `Oneshot`: `"Some"`, `"None"`; `ReceiveAll`: `"Start"`, `"Receiving"` |
| `maybe[c]` | the `MaybeDone` in which an `And` keeps child `c`; `"Taken"` is `Init(None)`, the action moved out while its preflight runs or after it failed |
| `cursor`, `saved[n]` | `popped` of the `PreflightContext` in use, and of the second one held by an `Or`/`OrStrict` (`orig_cx`, then `cx1`) |
| `out[n]` | the output tuple, as the sequence of nodes that produced its elements |
| `body` | `AppFuture.body` |
| `io`, `waiting`, `notified` | external futures, the task registered with them, the notification of the task |
| `app`, `polling`, `response` | `AppFutureState` (`"Taken"` is `Start(None)`), the executor inside `poll`, the result |

`MaybeDone::preflight` returns `Incomplete` whether or not the child has
completed (`and.rs:132`), so the branch of `And::preflight` that combines two
completed outputs (`and.rs:79-81`) is never taken and an `And` always completes
in its first poll at the earliest. The model follows the code.

`EndpointRouting` has no state. `Match[n][c]` is the answer the preflight of `n` gives to a
context from which `c` segments have been popped, computed (`Decide`) from the answers its
children give to any number of popped segments; `Route` and `Value` are what is kept for
polling and what it produces. They are recursive functions on the nodes of the tree.

A body stream is polled chunk by chunk (`body.rs:136-141`); the model treats the
whole stream as one future, and chunks that wake the task without ending the
stream as `SpuriousNotify`, which polls a pending future again.

### How the other modules correspond to the code

* **`TaskContext`.** `tls[t]` is `TLS_CX` of thread `t`; `stack[t]` is the part
  of its call stack made of `AppFuture::poll`, `set` and `with`. Closures and
  futures belong to the application, so any call may be followed by any other
  that Rust's ownership allows: `poll` needs the only `&mut AppFuture`
  (`~InUse`), `set` a `&mut Context` that the innermost call holds. A panic
  unwinds one call after the other, and the guard `ResetOnDrop` runs in each
  (`Leave`), until a caller catches it (`Catch`). `with` without a pointer panics
  (`WithUnset`); `try_with` then does nothing.
* **`NamedFile`.** `open` is the `State` of `OpenNamedFile`, the `Option` around
  it in `FileAction`, and `Init` of `DirAction` (`"None"` for both). One system
  call is one step and may find no thread (`NotReady`), fail or succeed. `len`,
  `position` and `sent` are sizes: since the file is read from its start without
  gaps, the body is known by its length. `Chunk` assigns `len` as the code does.
* **`VerbSet`.** A `Methods` value is the set of its bit positions; the shift
  with truncation is `Shifted`. One pass of the loop in `next` is one step.
* **`RequestContext`.** `cookies` is `Context.cookies` with the two parts of a
  `CookieJar`, the original cookies and the delta; `sent` the cookie strings of
  the request in the order they are parsed. `FirstCookies` is the call that
  fills the jar and stops at a string that does not parse (`Bad`), `Respond` the
  end of `AppFuture::poll`, which makes a response of an output and of an error
  alike. `asked` records what the handlers have called, for `Effects`.
* **`PathExtraction`.** First `parse_path` runs over the segments of a literal
  (`Compile`), then requests are served: `program` is what the generated
  `extract` does, component by component, followed by endpoints joined with
  `and`. `pos` and `popped` are the fields of `CursorInner`, `Panic` is a slice
  that begins behind the end. Characters are single values, `"%20"` and `"%FF"`
  stand for escapes.
* **`RequestExtraction`, `TestRunner`.** An alternative is
  `header.and(query).and(body)`. Values are classes of values (`"good"` converts,
  `"bad"` does not), a content type is what the endpoints tell apart, a byte is one
  of four classes. `Arrive` and `End` are the body stream, cut into items
  anywhere, also within a character; `PollReceive` is the loop that drains it into
  `buf`. `PollWs` performs the handshake and hands the connection to a task, which
  the executor may refuse. `TestRunner` keeps, per header name, the sequence of
  values of the `HeaderMap`, each named after who gave it.
* **`Session`.** A record per request: `pc`, the cookie it carried (`sent`), the
  fields of the backend's raw session (`id`, `value`), the change of its cookie
  jar (`jar`), and what happened to it (`saw`, `op`, `ok`, `applied`). A session
  value is the request that wrote it. Reading the storage, writing it, each Redis
  command, its reply and the response to the client are steps of their own, so
  requests of one client and of several may be interleaved at each of them.
  `Lose` drops a request, `CommandFails` reports a command that was or was not
  executed, `Expire` and `Restart` take stored values away. The client keeps
  cookies by the path of their scope, which only the cookie backend sets.
* **`SessionRegister`** is a register per client: a request reads it, decides what
  to leave, applies it, and is answered with success only if it has applied it.
  `Session` implements it for clients that wait for their answers (`orderly`):
  `Register` is what the client would find with its next request, `Open` the
  request in progress.
* **`GraphQL`.** `phase` is where the future of an endpoint is; `registered` what
  will wake its task, `woken` the notification. A poll that finds everything it
  waits for not ready registers, and nothing else polls it again but `Spurious`.
  `task` is the `GraphQLTask` in the executor, which runs `Capacity` of them:
  `Canceled` is `oneshot::Execute` finding its receiver gone. `finchers::rt`, which
  `nonblocking.rs` uses, is not in the repository at this commit; it is modelled
  from its use.

## 3. Runs

| Run | Bounds | Checks |
|---|---|---|
| `routing` | trees of three levels, binary combinators and `Recover` over path leaves, paths of 0 to 2 segments over two letters | `TypeOK`, `RoutingIsPure`, `LongestMatchWins` |
| `polling` | trees of three levels, all combinators over guards, futures and body endpoints, empty path, all completions and failures in every order, under `FairSpec` | `NoPanic`, `BodyTakenOnce`, `NoLostWakeup`, `OnlyRouteIsPolled`, `ErrorsSurface`, `ResponseIsComplete`, `Responds`, `ContractSpec` |
| `task_context` | two threads, three requests, calls nested up to eight deep | `TypeOK`, `NoAliasing`, `PointerIsInnermost` |
| `context` | one client, two cookie names, two values, two headers, any number of requests | `TypeOK`, `Effects` |
| `path` | all literals of up to two segments (of eight kinds), every chain of one endpoint and two of two, paths of up to three segments of six kinds and `*` | `CursorSound`, `LiteralIsParsed`, `ExtractsSegments` |
| `extraction` | every single alternative of headers, query and body, 49 pairs of alternatives; 66 requests, bodies of up to three bytes in any items of up to two | `OwnComesFirst`, `DefaultsReachEndpoint`, `AnswerIsOfWholeBody`, `RejectedKeepsBody`, `UpgradeIsKept` |
| `session` | two clients, three requests, two ids to hand out and one that clients bring, two directories, all four backends, every fault | `TypeOK`, `RemovedStays`, `RegisterSpec`, `Isolation`, `OnlyCommitted` |
| `graphql` | two clients, an executor that runs one task, all three executors, batches of up to two queries | `AnswersItsQueries`, `Answers` |
| `named_file` | sizes up to 7, blocks of 1 to 3, both endpoints, appends at any time, under `FairSpec` | `TypeOK`, `NoPanic`, `NothingMissing`, `Completes` |
| `named_file_growing` | the same | violates `BodyMatchesLength` |
| `verb_set` | all 511 sets of the nine verbs, under `FairSpec` | `TypeOK`, `NothingSkipped`, `Fused`, `Ends` |
| `verb_set_whole` | the same | violates `YieldsWholeSet` |

### Bounds

In `routing` and `polling` the positions form a complete binary tree of three
levels, and a run takes every tree its kinds of nodes allow, so all pairs (and,
above unary nodes, triples) of nested combinators occur, with every choice of
rejecting parsers. A hazard of routing needs two alternatives under an
alternative and a leaf that follows: three levels and two segments, where the
first branch may pop fewer, as many or more segments than the second. A hazard of
polling needs an action that ends while its sibling goes on under a parent that is
polled again: two levels; the third puts a handler or another alternative between
them. Only lengths and equality of segments matter, so two letters are enough.

In `task_context` three requests on one thread can be nested inside each other's closures
while a second thread competes for them; eight calls allow poll, set, with and set again of
two requests. In `context` two cookies allow one to be changed while the other must not be,
and a malformed one before, between and behind them. In `path` a segment may be empty,
plain, a number, escaped, escaped without need (`%61` for `a`) or undecodable; three of them
leave one behind a literal of two, for what is joined to it. In `extraction` the items of a
body of three bytes cut a two-byte character in every place, and the pairs of alternatives
are those that differ in what they accept; for one endpoint per kind of body (`Sliced`) an
item may also be several slices of memory. In `session` three requests are two of one
client, concurrent or in sequence, and one of another client, or three of one client: one
that writes, one that removes and one that comes late. Two ids to hand out let both clients
have one; one that clients bring may be sent by neither, one or both of them. In `graphql`
one slot makes every task wait for another client's. In `named_file` a file of seven with
blocks of three has full reads, a short one, and room to grow after it. Where a bound could
hide a case, the theorems of section 4 do without it.

Symmetry is used in `task_context`, `context` and `session`, for sets whose members the
specification only compares. `RegisterSpec` and `Effects` are safety properties, for which
it is sound.

### Deadlock

It is checked in all runs but two. `EndpointAction` and `NamedFile` stop only with an
answered request (`Finished`). In `session` every request is used once, so the system
stops when all have been; in `path` a literal that is rejected ends the behaviour: no
program has been compiled.

### Fairness

* `polling`: the code between two calls runs to its end; a notified task is polled,
  which is the executor's contract; a future that has returned NotReady *and
  registered the task* eventually completes. Nothing is assumed of a future nobody has
  polled, and spurious notifications are not fair. So `Responds` fails if a
  combinator returns NotReady without polling a future: that is its mutant.
* `graphql`: a woken task is polled, the futures of the context and of the body end, a
  running task ends. `Start` is strongly fair: an executor queues the tasks that wait for
  one of its threads and gives each its turn, while the thread is taken and freed by
  others. Nothing is assumed of `Spurious`, of clients, or of tasks that are discarded.
* `named_file`: the executor polls on, and a system call that is tried again and again finds
  a thread at last (strong fairness of `Opened` and `GotMetadata`; failing instead ends the
  request). That is not enough for the body to end: `FileStream` does not reduce the
  remaining length (`output/fs.rs:150`), so an appender that keeps ahead of it makes a body
  without end. `Completes` therefore has a condition, `Quiet`, that the file at last stops
  growing. In the run every behaviour satisfies it, because `Append` stops at `MaxSize`;
  this bound is the run's own and not a promise of the code. `verb_set`: the caller goes on
  until `None`, as a `for` loop does.

### What the properties say

* `RoutingIsPure`: cloning, exchanging and restoring the shared context in nested `Or`
  and `OrStrict` leaves no trace of branches that were not kept: the result and the
  cursor equal the pure function `Match`.
* `LongestMatchWins`: over the flattened alternatives of nested `Or`s, the one that
  pops most segments wins, the first on a tie (`or.rs:74-76`).
* `OnlyRouteIsPolled`: after routing, only nodes on the kept route are polled.
* `ErrorsSurface`: if the response is a success, every error of any action was handled
  by a `Recover` above it or was the rejected branch of an alternative
  (`action.rs:63-66`).
* `ResponseIsComplete`: a success carries the outputs of the kept branches in the order
  of the tree, however many polls produced them.
* `BodyTakenOnce`, `NoLostWakeup`, `NoPanic`, `Responds`: see the module.
* `ContractSpec`: `EndpointAction` implements `ActionContract` under the mapping of
  `frame` to the method that runs and `ret` to its result.
* `NoAliasing`: whenever two calls in progress hold a `&mut` to one `Context`, the outer
  one has lent it to a `set` in between, which is what makes the `unsafe` in
  `get_task_cx` sound.
* `PointerIsInnermost`: no return, panic or catch leaves a thread with a pointer of a
  call that has ended.
* `Effects`: a request leaves its client with the last value its handlers gave to each
  cookie, without those they removed, and with every header they added, whether it ends
  in an output or an error. The exception it states is the divergence of
  `service.rs:300` below, which no property covers.
* `CursorSound`: the cursor stands at the start of a segment or at the end of the path,
  and has counted each segment before it once, which is what `Or` compares.
* `LiteralIsParsed`: `path!` takes exactly the literals that its error messages do not
  describe.
* `ExtractsSegments`: slicing by byte positions, component after component, yields what a
  split of the path into segments says, for literals, parameters, catch-alls and the
  endpoints that follow. A literal of `segment` matches the segment that is its canonical
  percent-encoding, and no other way to escape the same text (`Matches`).
* `OwnComesFirst`, `DefaultsReachEndpoint`: the first value of a header, which is the one an
  endpoint reads, is that of the test, or what its Uri or body imply, or the first default, or
  what the runner itself has for `Host` and `User-Agent`, in this order; and no default is
  lost. The mutant fills those two in before the defaults.
* `AnswerIsOfWholeBody`: the output is parsed from all bytes of the body in their order,
  by the first alternative the request is for, wherever the items are cut, if each item is
  one slice of memory. `For` says which requests an alternative is for; where the docs say
  something else than the code, it follows the code (see the divergences).
* `RejectedKeepsBody`: checks come before the body is taken, so an alternative, or a
  `recover`, still finds it.
* `UpgradeIsKept`: 101 is answered exactly if a task holds the connection.
* `Isolation`: with overlapping requests, ids that expire, restarts and lost answers, no
  request sees a value that a request of another client has written, except through an id
  that both clients brought to the in-memory backend (see the divergences).
* `OnlyCommitted`: a value that is found was set by a handler that succeeded.
* `RegisterSpec`: in *orderly* use all backends are the register of `SessionRegister`; a
  fault leaves it with the value found or the value decided. Use is orderly if clients wait
  for each answer, send all requests in the root directory and share no session id.
* `RemovedStays`: in orderly use a value removed with success is gone.
* `AnswersItsQueries`: queries run only for a decoded request with its context; the answer is
  the first error of the request, with the status this error has (that of the context, which
  may be any, before that of the request, then that of the task), or else the response with
  the results of all its queries.
* `Answers`: a client that stays is answered: no wake-up is lost where the future goes
  from the join to the handle, and no task waits for ever.
* `NothingMissing`: although `FileStream` does not track what remains, a body that ends
  without an error holds all of the file, as it was when its length was announced, and
  exactly that if nobody has appended.

### Findings

* `FileStream::poll_buf` assigns `self.len = n` (`output/fs.rs:150`) where it should
  subtract. The test `n > self.len` then compares with the previous read, not with what
  remains, and the body of a file that grows while it is served exceeds its
  `Content-Length` (`named_file_growing`). For a file nobody writes to, `NothingMissing`
  shows the body is right.
* `VerbsIter::next` returns `None` as soon as the cursor is empty, before it looks at the
  bit it has just masked (`verb.rs:236-239`), so the last verb, `TRACE`, is never returned
  (`verb_set_whole`). Everything below it is (`NothingSkipped`).

Divergences that have no run of their own; the properties above are stated so that they
hold beside them:

* *A removed session returns* (`in_memory.rs:98`, and the same in the other backends). A
  request that overlaps a removal has read the value before it and writes it back after
  it. `RemovedStays` is therefore about clients that wait for their answers; without
  `orderly =>` TLC finds the trace, with `Backends = {"memory"}` alone too.
* *A removal below the root* (`cookie.rs:147`). The cookie backend sets its cookie with
  the path `/` and removes it without one, so the removal is scoped to the directory of the
  request: a logout at `/account/logout` does not remove the cookie. TLC shows it for
  `RemovedStays` when the conjunct `d = Root` is dropped from `Send`.
* *Sessions below the root* (`in_memory.rs:102`, `redis.rs:332`). These backends set their
  cookie without a path, so that the client keeps it for the directory of the request: a
  session set at `/account/login` is not found at `/`. `RegisterSpec` and `RemovedStays` are
  about requests in the root directory only.
* *Session ids from elsewhere* (`in_memory.rs:86-92, 142`). The in-memory backend checks that
  the cookie is a UUID, not that it has handed it out: it adopts an id that a client brings,
  from another deployment for example, and writes under it. Two clients that bring the same
  id then have one session. The Redis backend drops an id without a value
  (`redis.rs:262-268`). `Brought` are such ids; `Isolation` excepts clients that send the same
  one to the in-memory backend (`Shared`) and is violated without the exception.
* *Overlapping writes of a session.* Of two overlapping requests of one client both read
  the value, and the later write wins: what the other has written is lost. No property
  forbids it, since the code promises no transaction; the hazard is listed without one.
* *A malformed cookie leaves a partly filled jar* (`service.rs:300`). The jar is stored
  before the headers are parsed; after the error the next call of `cookies` returns it
  as if it were complete. `JarIsComplete` in `RequestContext` states the doc comment of
  `service.rs:295`; TLC refutes it as an invariant of `MCRequestContext`.
* *Static segments of `path!`* (`finchers-macros/src/lib.rs:104`) are compared with the
  characters of the request path, while `segment` (`syntax.rs:182-200`) compares the
  percent-encoded text: the literal `"/a b"` never matches. `ExtractsSegments` compares
  each as the code does (`Matches`).
* *Escapes that are not canonical* (`syntax.rs:194`). `segment` compares the bytes of the
  path with its own percent-encoding of the text, so a path that escapes a character
  without need, as `/%61`, or writes `%2f` for `%2F`, is not found by `segment("a")` or
  `segment("foo/bar")`, although it denotes the same text. `Canonical` says so.
* *An empty request path*, as in a CONNECT request, makes the first slice of the
  cursor panic (`action.rs:211`). `CursorSound` confines the panic to the empty path.
* The docs of `query::required` (`query.rs:22`) and `header::parse` (`header.rs:76`) say
  that the endpoint *skips* a request without the value; the code answers 400.
  `For` and `QueryRequired` follow the code.
* The docs of `query::optional` (`query.rs:110`) and `header::optional` (`header.rs:156`) say
  that the endpoint *always matches*; a value that does not convert is answered with 400
  (`query.rs:178-193`, `header.rs:214-229`). `For` follows the code.
* The docs of `param` and `remains` (`syntax.rs:248-249`, `syntax.rs:323`) say that a
  conversion that fails makes the endpoint *skip* the request; the code answers 400, which
  `ExtractsSegments` expects.
* *An item of several slices* (`body.rs:140`). Of a chunk of the body only `Buf::bytes`, its
  first contiguous slice, is appended to the buffer, and the rest is dropped without an
  error. The chunks of hyper have one slice; a stream of other buffers loses bytes.
  `Received` appends what the code appends, and `AnswerIsOfWholeBody` promises the whole body
  for items of one slice only.
* The docs of `graphql_request` (`request.rs:24`) say that it validates the method and the
  remaining segments; the code checks neither. `ApplyRequest` follows the code.

## 4. Proofs

Each theorem holds for every value of the constants that the named assumptions of its
module allow. TLC evaluates these assumptions in the runs.

| Theorem | Module | States |
|---|---|---|
| `TypeCorrect` | `EndpointActionProofs`, `TaskContextProofs`, `RequestContextProofs`, `SessionProofs`, `NamedFileProofs`, `ExtractionProofs` (verbs) | `Spec => []TypeOK` |
| `Panics` | `EndpointActionProofs` | `Spec => []NoPanic` |
| `BodyOwnership` | `EndpointActionProofs` | `Spec => []BodyTakenOnce` |
| `Wakeup` | `EndpointActionProofs` | `Spec => []NoLostWakeup` |
| `Refinement` | `EndpointActionProofs` | `Spec => ContractSpec` |
| `Purity` | `EndpointActionProofs` | `Spec => []RoutingIsPure` |
| `LongestMatch` | `EndpointActionProofs` | `Spec => []LongestMatchWins` |
| `Confinement` | `EndpointActionProofs` | `Spec => []OnlyRouteIsPolled` |
| `NothingDropped` | `EndpointActionProofs` | `Spec => []ErrorsSurface` |
| `Completeness` | `EndpointActionProofs` | `Spec => []ResponseIsComplete` |
| `SoundBorrow` | `TaskContextProofs` | `Spec => []NoAliasing` |
| `PointerRestored` | `TaskContextProofs` | `Spec => []PointerIsInnermost` |
| `EffectsReachClient` | `RequestContextProofs` | `Spec => Effects` |
| `CursorBounds` | `PathExtractionProofs` | `Spec => []CursorSound` |
| `LiteralsParsed` | `PathExtractionProofs` | `Spec => []LiteralIsParsed` |
| `SegmentsExtracted` | `PathExtractionProofs` | `Spec => []ExtractsSegments` |
| `NoOtherClient` | `SessionProofs` | `Spec => []Isolation` |
| `Committed` | `SessionProofs` | `Spec => []OnlyCommitted` |
| `RemovalLasts` | `SessionProofs` | `Spec => []RemovedStays` |
| `SessionIsRegister` | `SessionProofs` | `Spec => RegisterSpec` |
| `OwnQueries` | `GraphQLProofs` | `Spec => []AnswersItsQueries` |
| `NeverPanics` | `NamedFileProofs` | `Spec => []NoPanic` |
| `WholeFile` | `NamedFileProofs` | `Spec => []NothingMissing` |
| `WholeBody` | `ExtractionProofs` | `TestedSpec => []AnswerIsOfWholeBody` |
| `BodyIsKept` | `ExtractionProofs` | `TestedSpec => []RejectedKeepsBody` |
| `UpgradeHasTask` | `ExtractionProofs` | `TestedSpec => []UpgradeIsKept` |
| `OwnFirst` | `ExtractionProofs` | `TestedSpec => []OwnComesFirst` |
| `DefaultsArrive` | `ExtractionProofs` | `TestedSpec => DefaultsReachEndpoint` |
| `MembersInOrder` | `ExtractionProofs` (verbs) | `Spec => []NothingSkipped` |
| `StaysEnded` | `ExtractionProofs` (verbs) | `Spec => Fused` |

**`EndpointActionProofs`: assumptions.** Children of different positions differ, none is the
root and every position is reached from the root (what ownership of boxed fields gives in
Rust: an action owns its children); a combinator has the children it needs; segments are
not names of combinators; paths are finite sequences. The theorems hold for finite and
infinite sets of positions, every tree of endpoints over them and every path. The five about
routing also assume `NestingAssumption`: a set that contains
a position whenever it contains its children contains all. A Rust value holds its fields by
value or in a `Box` that was built before it, so an action cannot be nested for ever.

**Argument: the protocol.** None of its properties is inductive: whether `Or` may poll its
child depends on what the child returned, which depends on the child's own state. `Inv`
adds, per node (`NodeInv`), what a node may assume of its children at each point of its
code: not called yet (`Fresh`), called (`InPreflight`, `InPoll`), kept for polling
(`Pollable`) or ended; per `AppFuture` (`AppInv`) the same of the root; and where a call has
just returned NotReady, that a wake-up is due (`Awake`). A step of a node touches that node,
the cells of its children and at most one child it calls. `Local(n)` says this; `OthersKeep`
and `AppKeeps` show once that such a step preserves what everybody else assumes, so that
each action only has to be shown `Local`, type-correct and right for its own node.
`AppFuture` consumes the notification when it polls, which could break `Awake` for others;
`AllIdle` shows, by reachability from the root, that nothing else is running then.
`Refinement` follows from `Inv`, `Local` and the three shapes a step can have (return, call,
move on).

**Argument: routing.** The five properties compare the machine with `Match`, `Route`,
`Value`, `Below` and `Alternatives`, which recurse over the tree. That such functions exist
is proved first: `TreeRecursion` takes the least relation closed under the computation of a
node from its children and shows by `NestingAssumption` that it is a function;
`TreeFixpoint` and `TreeUnique` turn this into the lemmas (`MatchUnfold`, ...) by which each
definition is unfolded. `BottomUp` is the induction over the tree.

`RoutingInv` is the inductive invariant; TLC has checked it on the instances of `routing` and
`polling`, as an additional invariant, before it was proved. It needs two more ideas than
the properties say. One cursor serves all nodes, so it can only be said what it holds *for the
node that has control*: `Single` says that there is one, and that control moves with a call or a
return (`ControlMoves`). And a node knows neither what its parent has popped nor what its
sibling will: `Entry[n]` is where the preflight of `n` begins, computed down from the root,
and `Due(n)` what it owes there, computed up from the leaves. `RouteInv` ties the cursor,
the clones in `saved`, the results and the choices of `Or` and `OrStrict` to these two. Each
preflight is shown to keep it for itself and for the node above (`RouteStep`), each other
node keeps it because it does not have control (`OthersRouted`).

`Purity` is this invariant at the root. `LongestMatch` adds that preferring the longer of
two best answers gives the best of both sequences of alternatives, with the first on a tie
(`BestOfBoth`), and induction over the tree. `Confinement` goes down from the root: a node
that is being polled is awaited by one that goes on with it (`PolledGoesOn`), and the route
is closed under going on (`RouteDown`). `NothingDropped` and `Completeness` have an
invariant each, on top: where an error of a child is, once its parent has seen it (`ErrorInv`),
and that an output, in place or stored in a `MaybeDone`, is the value of its node (`OutputInv`,
`StoreInv`). `Value` depends on results, which change; `ValueKept` shows that the value of a node
that has returned does not, since nothing below it runs any more (`IdleBelow`).

**`TaskContextProofs`** holds for any number of threads and requests and any depth.
`NoAliasing` says nothing of the pointers saved in guards, which a later `Leave` brings back.
`After(t, i)` is the pointer as it will be when only the calls `1 .. i` remain, and `Inv`
states for every `i` at once that this pointer belongs to the innermost scope below
(`Innermost`, `Scoped`) and that its `Context` is lent and not borrowed since (`Lent`). A
push adds one `i`, a pop removes one, and the rest is untouched. The only assumption is
`NoContext \notin Context`.

**`RequestContextProofs`** holds for any finite set of cookie names; that it is finite is
needed because the client enumerates its cookies. `Agree` relates the delta of the jar to
what the handlers have asked for, which may differ only for a removal of a cookie the jar
does not hold; `Known` says that such a cookie was not kept by the client either, unless a
malformed one has hidden it. That an enumeration leaves no cookie out (`SeqsCover`)
follows from the library's theorem that an injection between sets of one size is onto.

**`PathExtractionProofs`** holds for paths, literals and chains of any length
(`PathsAssumption`, `LiteralsAssumption` and `ChainsAssumption` say what they consist of; the
texts and types of components are those of the module). Between two
components the cursor is behind a slash or at the end (`BehindSlash`); advancing adds to
the slashes before the cursor the one that `Offset` has found, and no other, because that
one is the first. For the parser, `LiteralsParsed` keeps the components equal to the
part of the literal that has been read.

`SegmentsExtracted` compares two accounts of the path: the code slices behind a byte
position, the property speaks of the k-th segment. `CursorBehind` joins them: where
the cursor stands between segments, the slash numbered `popped + 1` is the one at `pos`,
because slashes are numbered in the order of their positions (`SlashIs`). Hence what `next`
returns is the segment of that number (`NextIsSegment`) and the rest of the path is what is
behind the counted ones (`RestIsBehind`). `ExtractInv`, checked by TLC on the instance of
`path` before it was proved, says of a component about to run that all before it matched, that
the cursor has counted what they consume (`Consumed`) and that the values are those of their
parameters; while the cursor is drained it keeps the result of the conversion that was made
before. Each component then either goes on with one segment and perhaps one value
more (`ConsumedNext`, `ValuesNext`, `GoneOn`) or is the first that fails (`Failed`).
`EncodedMatches` is the comparison of `segment`: the escaped text equals the segment exactly
when the segment decodes to the text and is canonical.

**`SessionProofs`** holds for any number of clients, requests, ids and directories, with every
fault, orderly or not. `Isolation` depends on where a value can be found, so `Inv` follows ids
and values around: whatever a client *carries*, in a cookie or in one of its requests in
progress (`Carries`), was handed out or brought (`used`), and an id that was handed out went to
this client alone, while in use that is not orderly a brought one may be common to several
(`Common`); a request has a brought id only if it has sent it, and Redis has no value for one
(`BroughtInv`, an invariant on top of `Inv`); a stored value is
that of a request which set it (`Done`) and has the id it is stored under, or, with the
cookie backend, is carried by the client that wrote it. Then a request that presents an id
finds a value whose writer had the same id and is therefore of the same client, or sent the
same brought id to the in-memory backend (`StoredFor`).
A step of one request changes what it carries only to something its client had, a fresh id or a
value written for it (`MayCarry`); `ChangeInv` shows once that this preserves `Inv` for
everybody else. That ids are fresh is what `Uuid::new_v4` promises (`IdFor`).

`RemovalLasts` and `SessionIsRegister` are about orderly use, where a client waits for each
answer, stays in the root directory and shares no id with another. Their invariant
`OrderInv`, on top of `Inv` and checked by TLC on the instance of `session` before it was
proved, says what one request in progress (`OneEach`) may count on between its steps
(`Turn`): the cookie it has sent is still the one its client keeps, what that cookie shows
is what it has found, unless it has expired meanwhile, its id is that of the cookie or it
found nothing, and its jar holds the old cookie, a removal or a cookie that replaces one
which shows nothing (`KeyedTurn`, `CookieTurn`). `Removed` says where a removed value no
longer is, before the answer and after it. Each action is shown to keep this for its own
request (`Step`); that it does for all others follows once, from `Inv`: the ids of two
clients differ, so what one request stores no cookie of another client shows (`OthersTurn`,
`OthersRemoved`).

The refinement then goes client by client. The register of a client is what the cookie shows
that it keeps or that its request has put into the jar, and the open request is that request
once it has read (`Views`, which resolves the `CHOOSE` of the mapping by `OneEach`). A step
of one client changes nothing at another (`OthersSame`); at its own it is one of `Read`,
`Decide`, `Apply`, `Succeed` and `Fail`, or a stutter (`Moves`). Of the steps
of the Redis backend the change of the jar is `Apply` for a removal, and the command that
Redis executes for a value. `Unanswered` is the reason that a lost response is `Fail`: the
client then shows the old cookie again, which has what the request found or what it left.
`IdleAssumption` only says that the value for "no request" is not a record.

**`GraphQLProofs`** holds for any number of clients, batches of any size and executors of any
capacity. `Req` relates the phase of a future to its context, payload, task and results;
each step changes one request and leaves the others (`UntouchedKeeps`).

**`NamedFileProofs`** holds for files and blocks of any size. `Streamed` is the point: a read
shorter than the buffer happens only at the end of the file, so until the announced length
has been read `len` is at least the size of the buffer and never cuts a chunk off.

**`ExtractionProofs`** holds for bodies of any length, cut into any number of items of any
length, for any requests, and for endpoints of one or two alternatives, of any kinds
(`EndpointsAssumption`, `RequestsAssumption`, `TestBodiesAssumption` only give their types).
`NothingLost` is the centre: as long as somebody can still read the stream, the buffer
followed by the items that wait is exactly what has arrived, if items are single slices.
That an item more is appended to what the others are together (`FlattenAppend`) is a fact
about the recursive function in `FlattenSeq`; its existence and uniqueness are shown by
least counterexamples (`FlattensExists`, `FlattensAgree`). `Phases` says who holds the body
in each phase and that an action runs only if the request is for its alternative;
`PreflightFor` relates the status that the preflight of three parts gives to what the parts
document. TLC has checked `NothingLost` and `Phases` on the instance of `extraction` first.

For the runner, `Prepared` gives the values of a header the endpoint sees: what the request
has been given, then the defaults, and the runner's own value exactly where `Host` or
`User-Agent` has neither.

The theorems about `VerbSet`, which shares nothing with the extraction but this module, hold for
any number of verbs. The cursor is one bit until it is shifted out (`VerbInv`), and each pass
adds that bit to the returned ones if it is a member.

**Only model-checked.** `Responds`, `Completes`, `Ends` and `Answers` are liveness under fairness,
out of the prover's reach. Every safety invariant and every other action property that the
passing runs check is stated by a theorem.

## 5. Not modelled

* Outputs, templates and the GraphiQL page are pure conversions; boxed endpoints and the
  traits over the owners of a schema delegate each call; type-level helpers have no code
  at run time; `src/server/` is not compiled. Of errors only the status is modelled.
* Conversions of `serde_qs`, `serde_json`, `mime` and `url` are external: a value converts
  or does not. Percent escapes are decoded in `PathExtraction`.
* Closures of handlers have no effects in `EndpointAction`. That a closure of `map` or a
  handler of `and_then` runs in preflight although an enclosing `or` may discard its branch
  (`and_then.rs:65`), and that its future is polled without `Context::set`
  (`and_then.rs:73`), are noted as hazards without a property: `EndpointAction` and
  `TaskContext` are not composed. Unwinding of a panic through the combinators is left
  out too.
* Sessions: a Redis command is executed before its failure is reported, or never; one
  that is executed after the next request's commands is not modelled. Poisoned locks of the
  in-memory backend and attributes of cookies other than the path are left out.
* WebSocket: which header an error names, and the hash of the key.
* GraphQL: executing a query is one step per request with one result per query; what is in a
  schema, and the second percent-decoding of query parameters that `serde_qs` has decoded
  already, are left out.

What a later extension would add first: the composition of `EndpointAction` with
`TaskContext` over the two hazards of `and_then.rs`.
