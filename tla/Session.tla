------------------------------ MODULE Session ------------------------------
(***************************************************************************)
(* The sessions of finchers-session: `Session::with` and its three         *)
(* backends.  A backend finds the value of the session when its endpoint   *)
(* is applied; the handler reads, sets or removes it; when the future of   *)
(* the handler succeeds the value is written back, by the in-memory        *)
(* backend to a map of the process, by the Redis backend with a command,   *)
(* by the cookie backend to the cookie itself.  The client learns of it    *)
(* through the Set-Cookie of the response.                                 *)
(*                                                                         *)
(* Every request is used once and the value it sets, if it sets one, is    *)
(* the request itself: a value names who wrote it.                         *)
(***************************************************************************)
EXTENDS Naturals, FiniteSets

CONSTANTS
  Clients,
  Requests,
  Ids,          \* session ids
  Brought,      \* those clients come with, which Uuid::new_v4 has not handed
                \* out here; the others bound the ones it hands out
  Backends,     \* of {"memory", "redis", "signed", "plain"}
  Dirs,         \* directories of request paths, the scopes of cookies
  Root,         \* the directory "/"
  None,         \* a missing cookie or value
  Junk,         \* a cookie that is neither a session id nor a signed value
  Keep,         \* a cookie jar without a change
  Faulty        \* responses, commands, values and the process may be lost

ASSUME SessionAssumption ==
  /\ Root \in Dirs
  /\ Brought \subseteq Ids
  /\ Faulty \in BOOLEAN
  /\ Backends \subseteq {"memory", "redis", "signed", "plain"}
  /\ None \notin Ids \cup Requests
  /\ Junk \notin Ids \cup Requests \cup {None}
  /\ Keep \notin Ids \cup Requests \cup {None, Junk}
  /\ Ids \cap Requests = {}

VARIABLES
  orderly,   \* clients wait for each answer, stay in the root directory and
             \* have no session id in common
  backend,   \* the backend of the application
  cookies,   \* the session cookies each client keeps, one per path
  storage,   \* Storage.inner, or the keys in Redis
  used,      \* the session ids handed out, and those clients came with
  req        \* the state of each request

vars == <<orderly, backend, cookies, storage, used, req>>

Value == Requests \cup {None, Junk}
CookieValue == Ids \cup Value

(* saw is the value the backend found; value the one the Session holds,    *)
(* id its session_id; jar the change to the cookie of the request; ok the  *)
(* kind of answer; applied whether the value is where the next request     *)
(* finds it.                                                               *)
Fresh(c, d) ==
  [pc |-> "idle", client |-> c, dir |-> d, sent |-> None, saw |-> None, id |-> None,
   value |-> None, op |-> "none", jar |-> Keep, ok |-> FALSE, applied |-> FALSE]

Init ==
  /\ orderly \in BOOLEAN
  /\ backend \in Backends
  /\ used = IF backend \in {"memory", "redis"} THEN Brought ELSE {}
  /\ cookies \in [Clients -> {[d \in Dirs |-> v] : v \in {None, Junk} \cup used}]
  /\ orderly => \A c, e \in Clients : cookies[c][Root] = cookies[e][Root] =>
                                        c = e \/ cookies[c][Root] \in {None, Junk}
  /\ storage = [i \in Ids |-> None]
  /\ \E c \in Clients : req = [r \in Requests |-> Fresh(c, Root)]

Active(r) == req[r].pc \notin {"idle", "answered", "lost"}

(* A client sends the cookie of the path and that of "/"; of two cookies   *)
(* of one name the jar keeps the last one, that of the shorter path.       *)
Sees(c, d) == IF cookies[c][Root] # None THEN cookies[c][Root] ELSE cookies[c][d]

Send(r, c, d) ==
  /\ req[r].pc = "idle"
  /\ orderly => d = Root /\ \A s \in Requests : ~(Active(s) /\ req[s].client = c)
  /\ req' = [req EXCEPT ![r] = [Fresh(c, d) EXCEPT !.pc = "arrived", !.sent = Sees(c, d)]]
  /\ UNCHANGED <<orderly, backend, cookies, storage, used>>

(*-------------------------- reading the session --------------------------*)

Answer(r, ok) == req' = [req EXCEPT ![r].pc = "answering", ![r].ok = ok]

(* The endpoint has a Session for the handler.                             *)
Found(r, id, value) ==
  req' = [req EXCEPT ![r].pc = "handler", ![r].id = id, ![r].value = value, ![r].saw = value]

(* A cookie that is not a UUID is a bad request; any UUID is accepted.     *)
BadId(r) ==
  /\ req[r].pc = "arrived" /\ backend \in {"memory", "redis"}
  /\ req[r].sent = Junk
  /\ Answer(r, FALSE)
  /\ UNCHANGED <<orderly, backend, cookies, storage, used>>

MemoryRead(r) ==
  /\ req[r].pc = "arrived" /\ backend = "memory"
  /\ \/ req[r].sent = None /\ Found(r, None, None)
     \/ req[r].sent \in Ids /\ Found(r, req[r].sent, storage[req[r].sent])
  /\ UNCHANGED <<orderly, backend, cookies, storage, used>>

RedisApply(r) ==
  /\ req[r].pc = "arrived" /\ backend = "redis"
  /\ req[r].sent # Junk
  /\ req' = [req EXCEPT ![r].pc = "connecting", ![r].id = req[r].sent]
  /\ UNCHANGED <<orderly, backend, cookies, storage, used>>

ConnectedUnfetched(r) ==
  /\ req[r].pc = "connecting"
  /\ Found(r, None, None)
  /\ UNCHANGED <<orderly, backend, cookies, storage, used>>

Connected(r) ==
  /\ req[r].pc = "connecting"
  /\ IF req[r].id = None THEN Found(r, None, None)
                         ELSE req' = [req EXCEPT ![r].pc = "fetching"]
  /\ UNCHANGED <<orderly, backend, cookies, storage, used>>

(* Of an id without a value nothing is kept.                               *)
FoundId(id) == IF storage[id] = None THEN None ELSE id

Fetched(r) ==
  /\ req[r].pc = "fetching"
  /\ Found(r, FoundId(req[r].id), storage[req[r].id])
  /\ UNCHANGED <<orderly, backend, cookies, storage, used>>

ReadFails(r) ==
  /\ Faulty /\ req[r].pc \in {"connecting", "fetching"}
  /\ Answer(r, FALSE)
  /\ UNCHANGED <<orderly, backend, cookies, storage, used>>

(* What a cookie says: a signed or private jar rejects one that it has not *)
(* issued as if it were missing.                                           *)
Verified(v) == IF v = Junk /\ backend = "signed" THEN None ELSE v

CookieRead(r) ==
  /\ req[r].pc = "arrived" /\ backend \in {"signed", "plain"}
  /\ Found(r, None, Verified(req[r].sent))
  /\ UNCHANGED <<orderly, backend, cookies, storage, used>>

(*------------------------ the handler, Session::with ---------------------*)

(* The closure of `with`: it leaves the value alone, sets or removes it.   *)
Handle(r, op) ==
  /\ req[r].pc = "handler"
  /\ req' = [req EXCEPT
       ![r].pc = "running", ![r].op = op,
       ![r].value = CASE op = "keep" -> @ [] op = "set" -> r [] op = "remove" -> None]
  /\ UNCHANGED <<orderly, backend, cookies, storage, used>>

HandlerFailsWritten(r) ==
  /\ req[r].pc = "running"
  /\ Answer(r, FALSE)
  /\ storage' = [storage EXCEPT ![req[r].id] = req[r].value]
  /\ UNCHANGED <<orderly, backend, cookies, used>>

HandlerFails(r) ==
  /\ req[r].pc = "running"
  /\ Answer(r, FALSE)
  /\ UNCHANGED <<orderly, backend, cookies, storage, used>>

(*-------------------- the handler succeeds: RawSession::write ------------*)

RemovalEmpty(r) == IF req[r].sent = None THEN Keep ELSE ""
RemovalForgotten(r) == Keep

(* CookieJar::remove leaves a removal only of a cookie the client has sent.*)
Removal(r) == IF req[r].sent = None THEN Keep ELSE None

IdForAnother(r) == IF req[r].id = None THEN Ids ELSE {req[r].id}

(* session_id.unwrap_or_else(Uuid::new_v4)                                 *)
IdFor(r) == IF req[r].id = None THEN Ids \ used ELSE {req[r].id}

Written(r, id, jar, pc) ==
  /\ used' = used \cup ({id} \ {None})
  /\ req' = [req EXCEPT ![r].pc = pc, ![r].id = id, ![r].jar = jar, ![r].ok = (pc = "answering"),
                        ![r].applied = (pc = "answering" \/ req[r].value = None)]
  /\ UNCHANGED <<orderly, backend, cookies>>

(* Storage::set and Storage::remove, under the lock for writing.           *)
Store(id, v) == storage' = [storage EXCEPT ![id] = v]

WriteValue(r)  == \E id \in IdFor(r) : Store(id, req[r].value) /\ Written(r, id, id, "answering")
RemoveValue(r) == Store(req[r].id, None) /\ Written(r, req[r].id, Removal(r), "answering")
WriteNothing(r) == Written(r, None, Keep, "answering") /\ UNCHANGED storage

MemoryWrite(r) ==
  /\ req[r].pc = "running" /\ backend = "memory"
  /\ \/ req[r].value # None /\ WriteValue(r)
     \/ req[r].value = None /\ req[r].id # None /\ RemoveValue(r)
     \/ req[r].value = None /\ req[r].id = None /\ WriteNothing(r)

(* The jar is changed before the command is sent.                          *)
RedisWrite(r) ==
  /\ req[r].pc = "running" /\ backend = "redis"
  /\ \/ /\ req[r].value # None
        /\ \E id \in IdFor(r) : Written(r, id, id, "command")
        /\ UNCHANGED storage
     \/ /\ req[r].value = None /\ req[r].id # None
        /\ Written(r, req[r].id, Removal(r), "command")
        /\ UNCHANGED storage
     \/ req[r].value = None /\ req[r].id = None /\ WriteNothing(r)

(* Redis executes the SET, SETEX or DEL of the request.                    *)
Executed(r) ==
  /\ req[r].pc = "command"
  /\ Store(req[r].id, req[r].value)
  /\ req' = [req EXCEPT ![r].pc = "executed", ![r].applied = TRUE]
  /\ UNCHANGED <<orderly, backend, cookies, used>>

Replied(r) ==
  /\ req[r].pc = "executed"
  /\ Answer(r, TRUE)
  /\ UNCHANGED <<orderly, backend, cookies, storage, used>>

CommandFails(r) ==
  /\ Faulty /\ req[r].pc \in {"command", "executed"}
  /\ Answer(r, FALSE)
  /\ UNCHANGED <<orderly, backend, cookies, storage, used>>

CookieWriteValue(r)  == Written(r, None, req[r].value, "answering")
CookieRemoveValue(r) == Written(r, None, Removal(r), "answering")

CookieWrite(r) ==
  /\ req[r].pc = "running" /\ backend \in {"signed", "plain"}
  /\ IF req[r].value # None THEN CookieWriteValue(r) ELSE CookieRemoveValue(r)
  /\ UNCHANGED storage

(*------------------------------ the response -----------------------------*)

(* The path of a Set-Cookie: the cookie backend sets one, but not on a     *)
(* removal; a cookie without a path has the directory of the request.      *)
Scope(r) ==
  IF backend \in {"signed", "plain"} /\ req[r].jar # None THEN Root ELSE req[r].dir

(* The response, a success or an error, carries the change of the jar.     *)
Deliver(r) ==
  /\ req[r].pc = "answering"
  /\ cookies' = IF req[r].jar = Keep THEN cookies
                ELSE [cookies EXCEPT ![req[r].client][Scope(r)] = req[r].jar]
  /\ req' = [req EXCEPT ![r].pc = "answered"]
  /\ UNCHANGED <<orderly, backend, storage, used>>

(* The connection breaks: the future of the request is dropped.            *)
Lose(r) ==
  /\ Faulty /\ Active(r)
  /\ req' = [req EXCEPT ![r].pc = "lost"]
  /\ UNCHANGED <<orderly, backend, cookies, storage, used>>

(* The timeout of a SETEX is over.                                         *)
Expire(i) ==
  /\ Faulty /\ backend = "redis" /\ storage[i] # None
  /\ storage' = [storage EXCEPT ![i] = None]
  /\ UNCHANGED <<orderly, backend, cookies, used, req>>

Restart ==
  /\ Faulty /\ \E r \in Requests : Active(r)
  /\ req' = [r \in Requests |-> IF Active(r) THEN [req[r] EXCEPT !.pc = "lost"] ELSE req[r]]
  /\ storage' = IF backend = "memory" THEN [i \in Ids |-> None] ELSE storage
  /\ UNCHANGED <<orderly, backend, cookies, used>>

Reading(r) ==
  BadId(r) \/ MemoryRead(r) \/ RedisApply(r) \/ Connected(r) \/ Fetched(r) \/ ReadFails(r)
    \/ CookieRead(r)

Writing(r) ==
  \/ HandlerFails(r) \/ MemoryWrite(r) \/ CookieWrite(r)
  \/ RedisWrite(r) \/ Executed(r) \/ Replied(r) \/ CommandFails(r)

Next ==
  \/ \E r \in Requests :
       \/ \E c \in Clients, d \in Dirs : Send(r, c, d)
       \/ Reading(r) \/ Writing(r) \/ Deliver(r) \/ Lose(r)
       \/ \E op \in {"keep", "set", "remove"} : Handle(r, op)
  \/ \E i \in Ids : Expire(i)
  \/ Restart

Spec == Init /\ [][Next]_vars

(*------------------------------ properties -------------------------------*)

RequestState ==
  [pc : {"idle", "arrived", "connecting", "fetching", "handler", "running", "command",
         "executed", "answering", "answered", "lost"},
   client : Clients, dir : Dirs, sent : CookieValue, saw : Value, id : Ids \cup {None},
   value : Value, op : {"none", "keep", "set", "remove"}, jar : CookieValue \cup {Keep},
   ok : BOOLEAN, applied : BOOLEAN]

TypeOK ==
  /\ orderly \in BOOLEAN
  /\ backend \in Backends
  /\ cookies \in [Clients -> [Dirs -> CookieValue]]
  /\ storage \in [Ids -> Value]
  /\ used \in SUBSET Ids
  /\ req \in [Requests -> RequestState]

(* No client is served with the value of another one: session ids are      *)
(* handed out once, travel in one client's cookie only, and key what is    *)
(* stored (in_memory.rs:84-97 and 139-150, redis.rs:312-343).  The one     *)
(* exception are clients that come with the same id: the in-memory backend *)
(* adopts an id it has not handed out (in_memory.rs:86-92 and 142), Redis  *)
(* drops it, having no value for it (redis.rs:262-268).                    *)
Shared(r, w) == backend = "memory" /\ req[r].sent \in Brought /\ req[w].sent = req[r].sent

Isolation ==
  \A r \in Requests :
    LET w == req[r].saw
    IN  w \in Requests => req[w].client = req[r].client \/ Shared(r, w)

(* Nothing of a handler that failed is found by a later request: the value *)
(* is written only after the future of the handler has succeeded           *)
(* (session.rs:58-60), whatever else runs, fails or is lost meanwhile.     *)
OnlyCommitted ==
  \A r \in Requests :
    LET w == req[r].saw
    IN  w \in Requests =>
          req[w].op = "set" /\ req[w].applied

(* The place a value is kept in.                                           *)
KeptValue(v) ==
  IF backend \in {"memory", "redis"} THEN \E i \in Ids : storage[i] = v
                                     ELSE \E c \in Clients, d \in Dirs : cookies[c][d] = v

(* In orderly use, of clients that send one request at a time, all of    *)
(* them in the root directory, and have no session id in common, a value *)
(* that a handler has removed stays removed once its request is answered *)
(* with success: "Annotates to remove session value to the backend."     *)
(* (session.rs:44)  Below the root the removal names no path and does    *)
(* not reach a cookie kept for "/" (cookie.rs:147), and what was removed *)
(* is found again.                                                       *)
RemovedStays ==
  orderly => \A r \in Requests :
    req[r].op = "remove" /\ req[r].pc = "answered" /\ req[r].ok /\ req[r].saw \in Requests
      => ~KeptValue(req[r].saw)

(* What the next request of client c would find.                           *)
InProgress(c) == {r \in Requests : Active(r) /\ req[r].client = c}

Cookie(c) ==
  LET changed == {r \in InProgress(c) : req[r].jar # Keep}
  IN  IF changed = {} THEN cookies[c][Root] ELSE req[CHOOSE r \in changed : TRUE].jar

Register ==
  [c \in Clients |->
     IF Cookie(c) \in Ids THEN storage[Cookie(c)]
     ELSE IF backend \in {"memory", "redis"} THEN None ELSE Verified(Cookie(c))]

Open ==
  [c \in Clients |->
     LET reading == {r \in InProgress(c) : req[r].op # "none" \/ req[r].pc = "handler"}
     IN  IF reading = {} THEN None
         ELSE LET q == req[CHOOSE r \in reading : TRUE]
              IN  [saw |-> q.saw, want |-> IF q.op = "none" THEN Keep ELSE q.value,
                   applied |-> q.applied]]

(* None stands for a client without one.                                   *)
ASSUME IdleAssumption ==
  None \notin [saw : Value, want : Value \cup {Keep}, applied : BOOLEAN]

Successes ==
  [c \in Clients |->
     Cardinality({r \in Requests : req[r].client = c /\ req[r].pc = "answered" /\ req[r].ok})]

(* To a client that waits for each answer, sends all its requests in the *)
(* root directory and has no session id in common with another, every    *)
(* backend is the register of SessionRegister, through lost responses,   *)
(* failed commands, expired values and restarts. The map is what the     *)
(* client would find next.  Below the root it is none: the in-memory and *)
(* Redis backends set a cookie without a path (in_memory.rs:102,         *)
(* redis.rs:332), which the client keeps for the directory of the        *)
(* request, and the session is not found at "/".                         *)
SR == INSTANCE SessionRegister WITH
        register <- Register, open <- Open, successes <- Successes,
        volatile <- (backend = "redis"), Values <- Requests \cup {Junk},
        Idle <- None, Undecided <- Keep

RegisterSpec == SR!Init /\ [][orderly => SR!Next]_(SR!vars)
=============================================================================
