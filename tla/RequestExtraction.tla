-------------------------- MODULE RequestExtraction --------------------------
(***************************************************************************)
(* What the endpoints under endpoints/ and the WebSocket endpoint take out *)
(* of one request: an alternative is `header.and(query).and(body)`, an     *)
(* endpoint is one alternative or two joined by `or`.  Headers and query   *)
(* are looked at in preflight, the body arrives in items while the action  *)
(* is polled.  A byte of the body is "a" (fits every format), "bad" (ASCII *)
(* that no format but text takes), or half of a two-byte character.        *)
(***************************************************************************)
EXTENDS Naturals, Sequences, SequencesExt

CONSTANTS
  Endpoints,   \* set of sequences of alternatives
  Requests,    \* set of requests
  Sliced,      \* those of Endpoints whose stream may yield items of several slices
  MaxItem,     \* bound on the bytes of an item of the stream
  MaxQueue     \* bound on the items that wait to be polled

ASSUME ExtractionBounds == MaxItem \in Nat \ {0} /\ MaxQueue \in Nat \ {0}

Alternatives ==
  [header : {"parse", "optional", "matches", "raw"}, query : {"required", "optional", "raw"},
   body : {"raw", "receive_all", "text", "json", "urlencoded", "ws"}]

ASSUME EndpointsAssumption == \A e \in Endpoints : e \in Seq(Alternatives) /\ Len(e) \in 1..2

VARIABLES
  endpoint,    \* the endpoint that is served
  request,     \* the request in progress
  phase,       \* where its AppFuture is
  chosen,      \* the branch the OrAction keeps
  body,        \* who holds the stream of the body
  sent,        \* bytes of the body that have arrived
  queue,       \* items that have arrived and are not polled yet
  stream,      \* the stream of the body: "open", or its "end" or "error" has arrived
  buf,         \* State::Receiving(_, buf)
  answer,      \* the output of the action or the status of its error
  task         \* the upgrade task of the WebSocket endpoint

requestVars == <<endpoint, request, phase, chosen, body, sent, queue, stream, buf, answer, task>>

WsNames == {"connection", "upgrade", "version", "key"}
NoWs == [n \in WsNames |-> "missing"]

(* A header or a query is missing, converts or does not; a content type    *)
(* may be no media type at all.                                            *)
Values == {"none", "good", "bad"}
Bytes == {"a", "bad", "lead", "cont"}

ASSUME RequestsAssumption ==
  \A r \in Requests :
    /\ r.header \in Values /\ r.query \in Values /\ r.bytes \in Seq(Bytes)
    /\ \A n \in WsNames : r.ws[n] \in {"missing", "invalid", "valid"}

NoRequest == [content |-> "none", header |-> "none", query |-> "none", ws |-> NoWs, bytes |-> <<>>]
NoAnswer == [status |-> 0, bytes |-> <<>>]

RequestInit ==
  /\ endpoint \in Endpoints
  /\ request = NoRequest /\ phase = "idle" /\ chosen = 0
  /\ body = "none" /\ sent = 0 /\ queue = <<>> /\ stream = "open"
  /\ buf = <<>> /\ answer = NoAnswer /\ task = "none"

(* `items` is what has arrived with the head of the request, if anything.  *)
Dispatch(r, items, end) ==
  /\ phase = "idle"
  /\ request' = r /\ phase' = "dispatched" /\ body' = "request"
  /\ queue' = items /\ stream' = end /\ sent' = Len(FlattenSeq(items))
  /\ UNCHANGED <<endpoint, chosen, buf, answer, task>>

(*------------------------------- preflight -------------------------------*)

Accepted == 0
BadRequest == 400
NotFound == 404

(* FromHeaderValue: only a "good" value converts; it is also the one that  *)
(* header::matches asks for.                                               *)
Converts == request.header = "good"
HeaderParse == IF request.header # "none" /\ Converts THEN Accepted ELSE BadRequest
HeaderOptional == IF request.header = "none" \/ Converts THEN Accepted ELSE BadRequest
HeaderMatches == IF request.header = "good" THEN Accepted ELSE NotFound
HeaderRaw == Accepted
HeaderStatus == [parse |-> HeaderParse, optional |-> HeaderOptional, matches |-> HeaderMatches, raw |-> HeaderRaw]

QueryRequired == IF request.query = "good" THEN Accepted ELSE BadRequest
QueryOptional == IF request.query = "bad" THEN BadRequest ELSE Accepted
QueryRaw == Accepted
QueryStatus == [required |-> QueryRequired, optional |-> QueryOptional, raw |-> QueryRaw]

(* content_type fails for a value that is no media type.                   *)
ContentType == IF request.content = "unreadable" THEN {} ELSE {request.content}

(* Text looks at the charset, Json and Urlencoded compare the whole value; *)
(* raw, receive_all and ws take any.                                       *)
TextPreflight == IF ContentType \ {"text_latin1"} # {} THEN Accepted ELSE BadRequest
JsonPreflight == IF ContentType = {"json"} THEN Accepted ELSE BadRequest
UrlencodedPreflight == IF ContentType = {"form"} THEN Accepted ELSE BadRequest
ContentChecks == [text |-> TextPreflight, json |-> JsonPreflight, urlencoded |-> UrlencodedPreflight]

(* Unused: a body endpoint that checks the type only when it parses.       *)
BodyPreflightLazy(kind) == Accepted
BodyPreflight(kind) == IF kind \in DOMAIN ContentChecks THEN ContentChecks[kind] ELSE Accepted

First(S) == CHOOSE i \in S : \A j \in S : i <= j

(* And::preflight returns the first error.                                 *)
PreflightStatus(alt) ==
  LET all == <<HeaderStatus[alt.header], QueryStatus[alt.query], BodyPreflight(alt.body)>>
      errors == {i \in 1..3 : all[i] # Accepted}
  IN  IF errors = {} THEN Accepted ELSE all[First(errors)]

(* Both alternatives have popped no segment, so Or keeps the left one if   *)
(* both match.                                                             *)
Kept(matched) == First(matched)

Respond(status, bytes) ==
  phase' = "answered" /\ answer' = [status |-> status, bytes |-> bytes]

Preflight ==
  LET matched == {i \in DOMAIN endpoint : PreflightStatus(endpoint[i]) = Accepted}
  IN  /\ phase = "dispatched"
      /\ IF matched # {}
         THEN phase' = "inflight" /\ chosen' = Kept(matched) /\ UNCHANGED answer
         ELSE /\ Respond(IF Len(endpoint) = 1 THEN PreflightStatus(endpoint[1]) ELSE NotFound, <<>>)
              /\ UNCHANGED chosen
      /\ UNCHANGED <<endpoint, request, body, sent, queue, stream, buf, task>>

(*--------------------------------- poll ----------------------------------*)

Kind == endpoint[chosen].body

PollRaw ==
  /\ phase = "inflight" /\ Kind = "raw"
  /\ body' = "output" /\ Respond(200, <<>>)
  /\ UNCHANGED <<endpoint, request, chosen, sent, queue, stream, buf, task>>

(* Halves of a character are in order and none is left alone.              *)
Utf8(bytes) ==
  \A i \in DOMAIN bytes :
    /\ bytes[i] = "lead" => i < Len(bytes) /\ bytes[i + 1] = "cont"
    /\ bytes[i] = "cont" => i > 1 /\ bytes[i - 1] = "lead"

Clean(bytes) == \A i \in DOMAIN bytes : bytes[i] # "bad"

ParsesText(bytes) == Utf8(bytes)
ParsesJson(bytes) == Utf8(bytes) /\ Clean(bytes) /\ bytes # <<>>
ParsesUrlencoded(bytes) == Utf8(bytes) /\ Clean(bytes)

Parses(kind, bytes) ==
  CASE kind = "receive_all" -> TRUE
    [] kind = "text" -> ParsesText(bytes)
    [] kind = "json" -> ParsesJson(bytes)
    [] kind = "urlencoded" -> ParsesUrlencoded(bytes)

(* An item is one slice of memory.                                         *)
Contiguous == endpoint \notin Sliced

(* `bytes` of the Buf an item is: its first slice, in which there is a     *)
(* byte if there is one in the item.                                       *)
FirstSlices(item) ==
  IF Contiguous THEN {item}
  ELSE {SubSeq(item, 1, n) : n \in IF item = <<>> THEN {0} ELSE 1 .. Len(item)}

AllSlices(items) == UNION {FirstSlices(items[i]) : i \in DOMAIN items}

SlicesOf(items) ==
  {s \in [DOMAIN items -> AllSlices(items)] : \A i \in DOMAIN items : s[i] \in FirstSlices(items[i])}

(* Unused: every poll begins with an empty buffer.                         *)
ReceivedAnew(items) == {FlattenSeq(slices) : slices \in SlicesOf(items)}

(* Only the first slice of an item is appended; the rest is lost with it.  *)
Received(items) == {buf \o FlattenSeq(slices) : slices \in SlicesOf(items)}

(* The stream is taken from the request by the first poll and drained by   *)
(* each one.                                                               *)
PollReceive ==
  /\ phase = "inflight" /\ Kind \in {"receive_all", "text", "json", "urlencoded"}
  /\ body' = "action"
  /\ queue' = <<>> /\ buf' \in Received(queue)
  /\ CASE stream = "open" -> UNCHANGED <<phase, answer>>
       [] stream = "error" -> Respond(500, <<>>)
       [] stream = "end" -> IF Parses(Kind, buf') THEN Respond(200, buf') ELSE Respond(BadRequest, <<>>)
  /\ UNCHANGED <<endpoint, request, chosen, sent, stream, task>>

Handshake == \A n \in WsNames : request.ws[n] = "valid"

(* The executor may refuse a task: with it the stream is dropped.  Unused: *)
(* the answer does not depend on it.                                       *)
SpawnedStatusAlways(spawned) == 101
SpawnedStatus(spawned) == IF spawned THEN 101 ELSE 500

PollWs ==
  /\ phase = "inflight" /\ Kind = "ws"
  /\ IF Handshake
     THEN \E spawned \in BOOLEAN :
            /\ Respond(SpawnedStatus(spawned), <<>>)
            /\ task' = IF spawned THEN "spawned" ELSE task
            /\ body' = IF spawned THEN "task" ELSE "dropped"
     ELSE Respond(BadRequest, <<>>) /\ UNCHANGED <<task, body>>
  /\ UNCHANGED <<endpoint, request, chosen, sent, queue, stream, buf>>

(* The server resolves the future of the upgrade once it has written the   *)
(* response, or fails it with the connection, which is only logged.        *)
Upgrade ==
  /\ task = "spawned" /\ task' \in {"handler", "failed"}
  /\ UNCHANGED <<endpoint, request, phase, chosen, body, sent, queue, stream, buf, answer>>

(*-------------------------------- the body -------------------------------*)

Arrive(n) ==
  /\ phase \in {"dispatched", "inflight"} /\ stream = "open" /\ Len(queue) < MaxQueue
  /\ sent + n <= Len(request.bytes)
  /\ queue' = Append(queue, SubSeq(request.bytes, sent + 1, sent + n)) /\ sent' = sent + n
  /\ UNCHANGED <<endpoint, request, phase, chosen, body, stream, buf, answer, task>>

End(how) ==
  /\ phase \in {"dispatched", "inflight"} /\ stream = "open"
  /\ how = "end" => sent = Len(request.bytes)
  /\ stream' = how
  /\ UNCHANGED <<endpoint, request, phase, chosen, body, sent, queue, buf, answer, task>>

(* The AppFuture is dropped with its request; an upgraded connection takes *)
(* no other request before its task has stream.                             *)
Release ==
  /\ phase = "answered" /\ task # "spawned"
  /\ request' = NoRequest /\ phase' = "idle" /\ chosen' = 0
  /\ body' = "none" /\ sent' = 0 /\ queue' = <<>> /\ stream' = "open"
  /\ buf' = <<>> /\ answer' = NoAnswer /\ task' = "none"
  /\ UNCHANGED endpoint

InProgress ==
  \/ Preflight \/ PollRaw \/ PollReceive \/ PollWs \/ Upgrade \/ Release
  \/ \E n \in 0..MaxItem : Arrive(n)
  \/ \E how \in {"end", "error"} : End(how)

(*------------------------------ properties -------------------------------*)

(* The requests an alternative is for: those its parts accept before they  *)
(* see the body.  A value that does not convert is refused by `optional`   *)
(* too (header.rs:214-229, query.rs:178-193), although its documentation   *)
(* has it that it always matches (header.rs:156, query.rs:110).            *)
For(alt, r) ==
  /\ alt.header \in {"parse", "matches"} => r.header = "good"
  /\ alt.header = "optional" => r.header \in {"none", "good"}
  /\ alt.query = "required" => r.query = "good"
  /\ alt.query = "optional" => r.query \in {"none", "good"}
  /\ alt.body = "json" => r.content = "json"
  /\ alt.body = "urlencoded" => r.content = "form"
  /\ alt.body = "text" => r.content \notin {"unreadable", "text_latin1"}

(* However the bytes arrive and wherever the items cut them, an answer     *)
(* holds the output of the first alternative the request is for, parsed    *)
(* from the whole body, if the items of its stream are one slice each: of  *)
(* others only the first is received (body.rs:140).  A failure after the   *)
(* choice is not retried with the other alternative (or.rs:60-137,         *)
(* body.rs:120-146).                                                       *)
AnswerIsOfWholeBody ==
  phase = "answered" =>
    LET able == {i \in DOMAIN endpoint : For(endpoint[i], request)}
        kind == IF 1 \in able THEN endpoint[1].body ELSE endpoint[2].body
    IN  IF able = {} THEN answer.status \in {BadRequest, NotFound}
        ELSE IF kind = "raw" THEN answer.status = 200
        ELSE IF kind = "ws" THEN answer.status \in {BadRequest, 101, 500}
        ELSE IF stream = "error" THEN answer.status = 500
        ELSE IF ~Contiguous THEN answer.status \in {200, BadRequest}
        ELSE IF Parses(kind, request.bytes)
             THEN answer = [status |-> 200, bytes |-> request.bytes]
             ELSE answer.status = BadRequest

(* Nobody reads the body of a request that no alternative is for, nor that *)
(* of a failed handshake: whoever is asked next still finds all of it      *)
(* (body.rs:202-216, 288-301, 377-390; tungstenite lib.rs:104-113).        *)
RejectedKeepsBody ==
  /\ body \notin {"none", "request"} =>
       /\ \E i \in DOMAIN endpoint : For(endpoint[i], request)
       /\ body \in {"task", "dropped"} => \A n \in WsNames : request.ws[n] = "valid"
  /\ body = "request" => FlattenSeq(queue) = SubSeq(request.bytes, 1, sent)

(* "101 Switching Protocols" is answered exactly if a task holds the       *)
(* connection and calls the handler once the upgrade is done, and only     *)
(* after a valid handshake (tungstenite lib.rs:104-136).                   *)
UpgradeIsKept ==
  /\ answer.status = 101 <=> task # "none"
  /\ task # "none" => body = "task" /\ \A n \in WsNames : request.ws[n] = "valid"
=============================================================================
