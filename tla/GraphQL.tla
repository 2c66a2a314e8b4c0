------------------------------ MODULE GraphQL ------------------------------
(***************************************************************************)
(* finchers-juniper: the endpoint that decodes a GraphQL request and the   *)
(* three executors.  The future of a request joins the future of a context *)
(* with the decoding, then runs the query: in place (CurrentThread), or in *)
(* a task of the executor of the runtime (Nonblocking) or of the user      *)
(* (WithSpawner), whose handle it polls.  A future is polled again only    *)
(* after something it waits for has woken its task.                        *)
(***************************************************************************)
EXTENDS Integers, Sequences, FiniteSets

CONSTANTS
  Clients,    \* the requests that are served side by side
  Inputs,     \* [get, form, size]: method, how well-formed, queries in it
  Capacity    \* tasks that the executor runs at once

QueryForms == {"query", "malformed", "missing", "undecodable"}
BodyForms == {"json", "graphql", "malformed", "undecodable", "unsupported", "untyped"}

ASSUME CapacityAssumption == Capacity \in Nat \ {0}
ASSUME InputsAssumption ==
  Inputs \subseteq [get : {TRUE}, form : QueryForms, size : Nat]
                    \cup [get : {FALSE}, form : BodyForms, size : Nat]

VARIABLES
  executor,     \* "current_thread", "nonblocking" or "with_spawner"
  input,        \* input[r]: the request
  phase,        \* where the future of the endpoint is
  context,      \* the future of the context endpoint, or the error it gave
  payload,      \* the body of the request
  registered,   \* the events that wake the task of r
  woken,        \* whether the task of r is to be polled
  task,         \* the GraphQLTask of r
  results,      \* what its queries have returned
  answer        \* the status of the response

vars == <<executor, input, phase, context, payload, registered, woken, task, results, answer>>

Executors == {"current_thread", "nonblocking", "with_spawner"}
NoInput == [get |-> TRUE, form |-> "none", size |-> 0]
Over == {"answered", "panicked", "dropped"}

Init ==
  /\ executor \in Executors
  /\ input = [r \in Clients |-> NoInput]
  /\ phase = [r \in Clients |-> "idle"]
  /\ context = [r \in Clients |-> "none"] /\ payload = [r \in Clients |-> "none"]
  /\ registered = [r \in Clients |-> {}] /\ woken = [r \in Clients |-> FALSE]
  /\ task = [r \in Clients |-> "none"]
  /\ results = [r \in Clients |-> <<>>] /\ answer = [r \in Clients |-> 0]

Answer(r, status) ==
  /\ phase' = [phase EXCEPT ![r] = "answered"] /\ answer' = [answer EXCEPT ![r] = status]

Panic(r) == phase' = [phase EXCEPT ![r] = "panicked"] /\ UNCHANGED answer

(* graphql_request() waits for a body unless the method is GET.            *)
ApplyRequest(i) == IF i.get THEN "unused" ELSE "pending"

(* The status of what the context endpoint rejects a request with: it is   *)
(* any endpoint of the application, and has errors of its own.             *)
ContextErrors == {"bad_request", "not_found", "internal"}
ContextStatus == [bad_request |-> 400, not_found |-> 404, internal |-> 500]

(* Each executor applies the context first, which may reject the request.  *)
Apply(r) ==
  /\ phase[r] = "idle"
  /\ input' \in {[input EXCEPT ![r] = i] : i \in Inputs}
  /\ \/ \E e \in ContextErrors :
          /\ context' = [context EXCEPT ![r] = e] /\ Answer(r, ContextStatus[e])
          /\ UNCHANGED <<payload, woken>>
     \/ /\ phase' = [phase EXCEPT ![r] = "joining"]
        /\ context' = [context EXCEPT ![r] = "pending"]
        /\ payload' = [payload EXCEPT ![r] = ApplyRequest(input'[r])]
        /\ woken' = [woken EXCEPT ![r] = TRUE]
        /\ UNCHANGED answer
  /\ UNCHANGED <<executor, registered, task, results>>

(* The status of the error that ends the decoding, 0 if there is none: a   *)
(* query string that serde_qs refuses is the one that is not a bad request.*)
ParseQueryStr(form) ==
  IF form = "query" THEN 0 ELSE IF form = "malformed" THEN 500 ELSE 400

DecodeBody(form) == IF form \in {"json", "graphql"} THEN 0 ELSE 400

DecodeStatus(i) == IF i.get THEN ParseQueryStr(i.form) ELSE DecodeBody(i.form)

(* RequestFuture::poll.                                                    *)
RequestState(r) ==
  IF payload[r] = "pending" THEN "pending"
  ELSE IF payload[r] = "failed" \/ DecodeStatus(input[r]) # 0 THEN "failed" ELSE "ready"

RequestError(r) == IF payload[r] = "failed" THEN 500 ELSE DecodeStatus(input[r])

(* GraphQLResponse::respond: one query that fails, or a batch with one.    *)
ResponseStatus(res) == IF \A i \in DOMAIN res : res[i] THEN 200 ELSE 400

(* Unused: the context is not waited for.                                  *)
JoinedRequest(r) == RequestState(r) = "ready"
Joined(r) == context[r] = "ready" /\ RequestState(r) = "ready"

Unready(r) ==
  {e \in {"context", "payload"} :
     \/ e = "context" /\ context[r] = "pending"
     \/ e = "payload" /\ RequestState(r) = "pending"}

(* Join polls the context before the request and ends with the first error.*)
PollJoin(r) ==
  /\ phase[r] = "joining" /\ woken[r] /\ ~Joined(r)
  /\ woken' = [woken EXCEPT ![r] = FALSE]
  /\ IF context[r] \in ContextErrors THEN Answer(r, ContextStatus[context[r]]) /\ UNCHANGED registered
     ELSE IF RequestState(r) = "failed" THEN Answer(r, RequestError(r)) /\ UNCHANGED registered
     ELSE registered' = [registered EXCEPT ![r] = Unready(r)] /\ UNCHANGED <<phase, answer>>
  /\ UNCHANGED <<executor, input, context, payload, task, results>>

Run(r) == results' \in {[results EXCEPT ![r] = f] : f \in [1..input[r].size -> BOOLEAN]}

(* CurrentThread runs the queries in its own poll, where one may panic.    *)
PollInPlace(r) ==
  /\ executor = "current_thread"
  /\ phase[r] = "joining" /\ woken[r] /\ Joined(r)
  /\ woken' = [woken EXCEPT ![r] = FALSE]
  /\ Run(r)
  /\ Answer(r, ResponseStatus(results'[r])) \/ Panic(r)
  /\ UNCHANGED <<executor, input, context, payload, registered, task>>

(* The loop polls the new handle at once, and so registers with it; unused:*)
(* it returns NotReady instead.                                            *)
HandlePolledLater(r) == UNCHANGED registered
HandlePolled(r) == registered' = [registered EXCEPT ![r] = {"task"}]

SpawnTask(r) ==
  /\ phase[r] = "joining" /\ woken[r] /\ Joined(r)
  /\ woken' = [woken EXCEPT ![r] = FALSE]
  /\ phase' = [phase EXCEPT ![r] = "executing"]
  /\ task' = [task EXCEPT ![r] = "queued"]
  /\ HandlePolled(r)
  /\ UNCHANGED <<executor, input, context, payload, results, answer>>

PollNonblocking(r) == executor = "nonblocking" /\ SpawnTask(r)
PollWithSpawner(r) == executor = "with_spawner" /\ SpawnTask(r)

(* An executor that refuses the task makes the spawn panic.                *)
PollRefused(r) ==
  /\ executor # "current_thread"
  /\ phase[r] = "joining" /\ woken[r] /\ Joined(r)
  /\ woken' = [woken EXCEPT ![r] = FALSE]
  /\ Panic(r)
  /\ UNCHANGED <<executor, input, context, payload, registered, task, results>>

(* The error of a blocking_section that could not run.                     *)
TaskError == 500

(* The handle passes on the error of its task, and panics if the task is   *)
(* gone without a result.                                                  *)
PollHandle(r) ==
  /\ phase[r] = "executing" /\ woken[r]
  /\ woken' = [woken EXCEPT ![r] = FALSE]
  /\ CASE task[r] = "done" -> Answer(r, ResponseStatus(results[r])) /\ UNCHANGED registered
       [] task[r] = "failed" -> Answer(r, TaskError) /\ UNCHANGED registered
       [] task[r] = "lost" -> Panic(r) /\ UNCHANGED registered
       [] OTHER -> HandlePolled(r) /\ UNCHANGED <<phase, answer>>
  /\ UNCHANGED <<executor, input, context, payload, task, results>>

(*------------------------ the rest of the server -------------------------*)

Wake(r, event) ==
  IF event \in registered[r]
  THEN woken' = [woken EXCEPT ![r] = TRUE] /\ registered' = [registered EXCEPT ![r] = @ \ {event}]
  ELSE UNCHANGED <<woken, registered>>

(* The task of a connection may be polled without any need.                *)
Spurious(r) ==
  /\ phase[r] \in {"joining", "executing"} /\ ~woken[r]
  /\ woken' = [woken EXCEPT ![r] = TRUE]
  /\ UNCHANGED <<executor, input, phase, context, payload, registered, task, results, answer>>

ContextEnds(r) ==
  /\ phase[r] = "joining" /\ context[r] = "pending"
  /\ context' \in {[context EXCEPT ![r] = s] : s \in {"ready"} \cup ContextErrors}
  /\ Wake(r, "context")
  /\ UNCHANGED <<executor, input, phase, payload, task, results, answer>>

PayloadEnds(r) ==
  /\ phase[r] = "joining" /\ payload[r] = "pending"
  /\ payload' \in {[payload EXCEPT ![r] = s] : s \in {"ready", "failed"}}
  /\ Wake(r, "payload")
  /\ UNCHANGED <<executor, input, phase, context, task, results, answer>>

Running == {r \in Clients : task[r] = "running"}

Canceled(r) == phase[r] = "dropped"

(* A task whose handle is dropped ends before it has begun.                *)
Start(r) ==
  /\ task[r] = "queued" /\ Cardinality(Running) < Capacity
  /\ task' = [task EXCEPT ![r] = IF Canceled(r) THEN "canceled" ELSE "running"]
  /\ UNCHANGED <<executor, input, phase, context, payload, registered, woken, results, answer>>

(* Only the task of Nonblocking, a blocking_section, can end with an error;*)
(* either may panic.                                                       *)
Finish(r) ==
  /\ task[r] = "running"
  /\ \/ task' = [task EXCEPT ![r] = "done"] /\ Run(r)
     \/ task' = [task EXCEPT ![r] = "lost"] /\ UNCHANGED results
     \/ executor = "nonblocking" /\ task' = [task EXCEPT ![r] = "failed"] /\ UNCHANGED results
  /\ Wake(r, "task")
  /\ UNCHANGED <<executor, input, phase, context, payload, answer>>

(* The executor drops a task that it has not started.                      *)
Discard(r) ==
  /\ task[r] = "queued" /\ task' = [task EXCEPT ![r] = "lost"]
  /\ Wake(r, "task")
  /\ UNCHANGED <<executor, input, phase, context, payload, results, answer>>

(* The client goes away and the future is dropped, with its handle.        *)
Disconnect(r) ==
  /\ phase[r] \in {"joining", "executing"}
  /\ phase' = [phase EXCEPT ![r] = "dropped"]
  /\ registered' = [registered EXCEPT ![r] = {}] /\ woken' = [woken EXCEPT ![r] = FALSE]
  /\ UNCHANGED <<executor, input, context, payload, task, results, answer>>

Release(r) ==
  /\ phase[r] \in Over /\ task[r] \notin {"queued", "running"}
  /\ input' = [input EXCEPT ![r] = NoInput] /\ phase' = [phase EXCEPT ![r] = "idle"]
  /\ context' = [context EXCEPT ![r] = "none"] /\ payload' = [payload EXCEPT ![r] = "none"]
  /\ registered' = [registered EXCEPT ![r] = {}] /\ woken' = [woken EXCEPT ![r] = FALSE]
  /\ task' = [task EXCEPT ![r] = "none"]
  /\ results' = [results EXCEPT ![r] = <<>>] /\ answer' = [answer EXCEPT ![r] = 0]
  /\ UNCHANGED executor

Poll(r) ==
  \/ PollJoin(r) \/ PollInPlace(r) \/ PollHandle(r)
  \/ PollNonblocking(r) \/ PollWithSpawner(r) \/ PollRefused(r)

Next ==
  \E r \in Clients :
    \/ Apply(r) \/ Poll(r) \/ Spurious(r)
    \/ ContextEnds(r) \/ PayloadEnds(r)
    \/ Start(r) \/ Finish(r) \/ Discard(r)
    \/ Disconnect(r) \/ Release(r)

(* The runtime polls a woken task, the futures of the context and of the   *)
(* body end, and the executor runs its tasks; one that waits for room in   *)
(* it gets its turn.                                                       *)
Fairness ==
  \A r \in Clients :
    /\ WF_vars(Poll(r)) /\ WF_vars(ContextEnds(r)) /\ WF_vars(PayloadEnds(r))
    /\ SF_vars(Start(r)) /\ WF_vars(Finish(r))

Spec == Init /\ [][Next]_vars /\ Fairness

(*------------------------------ properties -------------------------------*)

(* Every variable keeps to the states that the code distinguishes.         *)
TypeOK ==
  /\ executor \in Executors
  /\ input \in [Clients -> Inputs \cup {NoInput}]
  /\ phase \in [Clients -> {"idle", "joining", "executing"} \cup Over]
  /\ context \in [Clients -> {"none", "pending", "ready"} \cup ContextErrors]
  /\ payload \in [Clients -> {"none", "unused", "pending", "ready", "failed"}]
  /\ registered \in [Clients -> SUBSET {"context", "payload", "task"}]
  /\ woken \in [Clients -> BOOLEAN]
  /\ task \in [Clients -> {"none", "queued", "running", "canceled", "lost", "failed", "done"}]
  /\ results \in [Clients -> Seq(BOOLEAN)]
  /\ answer \in [Clients -> {0, 200, 400, 404, 500}]

(* A query runs only with a request that has been decoded and a context    *)
(* that is there; and the answer is the error of this request that came    *)
(* first, of the context before that of the request, or else the response  *)
(* with the results of all its queries, of which one that fails makes a    *)
(* bad request of a batch (request.rs:78-110, 146-167, 215-232,            *)
(* nonblocking.rs:80-122).                                                 *)
AnswersItsQueries ==
  \A r \in Clients :
    /\ results[r] # <<>> => context[r] = "ready" /\ DecodeStatus(input[r]) = 0 /\ payload[r] \in {"unused", "ready"}
    /\ answer[r] # 0 =>
         IF context[r] \in ContextErrors THEN answer[r] = ContextStatus[context[r]]
         ELSE IF payload[r] = "failed" THEN answer[r] = 500
         ELSE IF DecodeStatus(input[r]) # 0 THEN answer[r] = DecodeStatus(input[r])
         ELSE IF task[r] = "failed" THEN answer[r] = TaskError
         ELSE /\ Len(results[r]) = input[r].size
              /\ answer[r] = IF FALSE \in {results[r][i] : i \in DOMAIN results[r]} THEN 400 ELSE 200

(* A request whose client stays gets its answer, or the panic of its own   *)
(* query, however the other requests fill the executor: no wake-up is lost *)
(* between the join, the spawn and the handle (nonblocking.rs:103-122,     *)
(* with_spawner.rs:114-141).                                               *)
Answers == \A r \in Clients : phase[r] \in {"joining", "executing"} ~> phase[r] \in Over
=============================================================================
