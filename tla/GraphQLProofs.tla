--------------------------- MODULE GraphQLProofs ---------------------------
(***************************************************************************)
(* Theorems about GraphQL, for any number of clients, requests of any size *)
(* and an executor of any capacity.                                        *)
(***************************************************************************)
EXTENDS GraphQL, TLAPS

BatchStatus(res) == IF FALSE \in {res[k] : k \in DOMAIN res} THEN 400 ELSE 200

(* What an answer has to be, as in AnswersItsQueries.                      *)
Explained(i, cx, pl, t, res, a) ==
  IF cx \in ContextErrors THEN a = ContextStatus[cx]
  ELSE IF pl = "failed" THEN a = 500
  ELSE IF DecodeStatus(i) # 0 THEN a = DecodeStatus(i)
  ELSE IF t = "failed" THEN a = TaskError
  ELSE Len(res) = i.size /\ a = BatchStatus(res)

(* What holds of one request, in terms of its own values: queries run only *)
(* when it is decoded and the context is there, the results are those of   *)
(* the task once that is done, and nothing runs when there is an answer.   *)
Req(i, ph, cx, pl, t, res, a) ==
  /\ ph \in {"idle", "joining"} => res = <<>> /\ t = "none"
  /\ ph = "joining" => pl # "none"
  /\ ph = "executing" => t # "none"
  /\ ph # "idle" => i \in Inputs
  /\ t # "none" \/ res # <<>> => cx = "ready" /\ pl \in {"unused", "ready"} /\ DecodeStatus(i) = 0
  /\ t \in {"queued", "running", "lost", "failed", "canceled"} => res = <<>>
  /\ t = "done" => Len(res) = i.size
  /\ a # 0 => ph = "answered" /\ t \in {"none", "done", "failed"} /\ Explained(i, cx, pl, t, res, a)

ReqInv(r) ==
  Req(input[r], phase[r], context[r], payload[r], task[r], results[r], answer[r])

Inv == TypeOK /\ \A r \in Clients : ReqInv(r)

LEMMA DecodeType ==
  ASSUME NEW i \in Inputs
  PROVE  DecodeStatus(i) \in {0, 400, 500} /\ i.size \in Nat
<1>1. CASE i \in [get : {TRUE}, form : QueryForms, size : Nat]
  <2>1. i.get /\ i.form \in QueryForms /\ i.size \in Nat
    BY <1>1
  <2>2. ParseQueryStr(i.form) \in {0, 400, 500}
    BY DEF ParseQueryStr
  <2> QED BY <2>1, <2>2 DEF DecodeStatus
<1>2. CASE i \in [get : {FALSE}, form : BodyForms, size : Nat]
  <2>1. ~i.get /\ i.size \in Nat
    BY <1>2
  <2> QED BY <2>1 DEF DecodeStatus, DecodeBody
<1> QED BY <1>1, <1>2, InputsAssumption

(* What the queries return is one Boolean for each.                        *)
LEMMA RunType ==
  ASSUME TypeOK, NEW r \in Clients, input[r].size \in Nat, Run(r)
  PROVE  \E f \in Seq(BOOLEAN) :
           Len(f) = input[r].size /\ results' = [results EXCEPT ![r] = f]
<1>1. PICK f \in [1 .. input[r].size -> BOOLEAN] : results' = [results EXCEPT ![r] = f]
  BY DEF Run
<1>2. f \in Seq(BOOLEAN) /\ Len(f) = input[r].size
  BY <1>1
<1> QED BY <1>1, <1>2

(* The status of a response with results.                                  *)
LEMMA StatusType ==
  ASSUME NEW f \in Seq(BOOLEAN)
  PROVE  ResponseStatus(f) = BatchStatus(f)
<1>1. CASE \A k \in DOMAIN f : f[k]
  <2>1. ResponseStatus(f) = 200
    BY <1>1 DEF ResponseStatus
  <2>2. FALSE \notin {f[k] : k \in DOMAIN f}
    BY <1>1, Zenon
  <2> QED BY <2>1, <2>2 DEF BatchStatus
<1>2. CASE ~ \A k \in DOMAIN f : f[k]
  <2>1. ResponseStatus(f) = 400
    BY <1>2 DEF ResponseStatus
  <2>2. \E k \in DOMAIN f : f[k] = FALSE
    <3>1. PICK k \in DOMAIN f : ~f[k]
      BY <1>2
    <3>2. f[k] \in BOOLEAN
      OBVIOUS
    <3>3. f[k] = FALSE
      BY <3>1, <3>2, Zenon
    <3> QED BY <3>3
  <2>3. FALSE \in {f[k] : k \in DOMAIN f}
    BY <2>2, Zenon
  <2> QED BY <2>1, <2>3 DEF BatchStatus
<1> QED BY <1>1, <1>2

LEMMA ResultsStatus ==
  ASSUME TypeOK, NEW r \in Clients
  PROVE  ResponseStatus(results[r]) = BatchStatus(results[r])
<1> DEFINE f == results[r]
<1>1. f \in Seq(BOOLEAN)
  BY DEF TypeOK
<1> HIDE DEF f
<1>2. ResponseStatus(f) = BatchStatus(f)
  BY <1>1, StatusType
<1> QED BY <1>2 DEF f

(* A step of one request leaves the others as they are.                    *)
Untouched(q) ==
  /\ input'[q] = input[q] /\ phase'[q] = phase[q] /\ context'[q] = context[q]
  /\ payload'[q] = payload[q] /\ task'[q] = task[q]
  /\ results'[q] = results[q] /\ answer'[q] = answer[q]

LEMMA UntouchedKeeps ==
  ASSUME NEW q \in Clients, ReqInv(q), Untouched(q)
  PROVE  ReqInv(q)'
BY DEF ReqInv, Untouched

LEMMA WakeType ==
  ASSUME TypeOK, NEW r \in Clients, NEW e, Wake(r, e)
  PROVE  /\ registered' \in [Clients -> SUBSET {"context", "payload", "task"}]
         /\ woken' \in [Clients -> BOOLEAN]
<1> USE DEF TypeOK
<1>1. CASE e \in registered[r]
  <2>1. registered[r] \ {e} \in SUBSET {"context", "payload", "task"}
    OBVIOUS
  <2>2. registered' = [registered EXCEPT ![r] = registered[r] \ {e}]
    BY <1>1 DEF Wake
  <2>3. woken' = [woken EXCEPT ![r] = TRUE]
    BY <1>1 DEF Wake
  <2>4. registered' \in [Clients -> SUBSET {"context", "payload", "task"}]
    BY <2>1, <2>2
  <2> QED BY <2>3, <2>4
<1>2. CASE e \notin registered[r]
  BY <1>2 DEF Wake
<1> QED BY <1>1, <1>2

LEMMA InitInv == Init => Inv
<1> SUFFICES ASSUME Init PROVE Inv
  OBVIOUS
<1>1. TypeOK
  BY DEF Init, TypeOK, Over
<1>2. ASSUME NEW r \in Clients PROVE ReqInv(r)
  BY DEF Init, ReqInv, Req
<1> QED BY <1>1, <1>2 DEF Inv

LEMMA ErrorType ==
  ASSUME NEW e \in ContextErrors
  PROVE  ContextStatus[e] \in {400, 404, 500}
BY DEF ContextErrors, ContextStatus

Rejected(r) ==
  \E e \in ContextErrors :
    /\ context' = [context EXCEPT ![r] = e] /\ Answer(r, ContextStatus[e])
    /\ UNCHANGED <<payload, woken>>

LEMMA ApplyInv ==
  ASSUME Inv, NEW r \in Clients, Apply(r)
  PROVE  Inv'
<1> USE DEF Inv
<1>1. PICK i \in Inputs : input' = [input EXCEPT ![r] = i]
  BY DEF Apply
<1>2. TypeOK'
  <2>1. CASE Rejected(r)
    <3>1. PICK e \in ContextErrors :
            /\ context' = [context EXCEPT ![r] = e] /\ Answer(r, ContextStatus[e])
            /\ UNCHANGED <<payload, woken>>
      BY <2>1 DEF Rejected
    <3>2. ContextStatus[e] \in {400, 404, 500}
      BY ErrorType
    <3> QED BY <1>1, <3>1, <3>2 DEF Apply, TypeOK, Answer, Over
  <2>2. CASE ~Rejected(r)
    <3> USE DEF Rejected
    <3>1. PICK b \in {"unused", "pending"} : payload' = [payload EXCEPT ![r] = b]
      BY <2>2, Zenon DEF Apply, ApplyRequest
    <3>2. /\ phase' = [phase EXCEPT ![r] = "joining"]
          /\ context' = [context EXCEPT ![r] = "pending"]
          /\ woken' = [woken EXCEPT ![r] = TRUE] /\ UNCHANGED answer
      BY <2>2, Zenon DEF Apply
    <3> QED BY <1>1, <3>1, <3>2 DEF Apply, TypeOK, Over
  <2> QED BY <2>1, <2>2
<1>3. ReqInv(r)'
  <2>1. CASE Rejected(r)
    <3>1. PICK e \in ContextErrors :
            /\ context' = [context EXCEPT ![r] = e] /\ Answer(r, ContextStatus[e])
            /\ UNCHANGED <<payload, woken>>
      BY <2>1 DEF Rejected
    <3>2. /\ phase'[r] = "answered" /\ answer'[r] = ContextStatus[e] /\ context'[r] = e
          /\ UNCHANGED <<task, results>> /\ input'[r] = i
      BY <1>1, <3>1 DEF Apply, TypeOK, Answer
    <3>3. task[r] = "none" /\ results[r] = <<>>
      BY DEF Apply, ReqInv, Req
    <3>4. Explained(i, e, payload'[r], task[r], results[r], ContextStatus[e])
      BY DEF Explained
    <3> QED BY <3>2, <3>3, <3>4 DEF ReqInv, Req
  <2>2. CASE ~Rejected(r)
    <3>1. /\ phase' = [phase EXCEPT ![r] = "joining"]
          /\ context' = [context EXCEPT ![r] = "pending"]
          /\ payload' = [payload EXCEPT ![r] = ApplyRequest(input'[r])] /\ UNCHANGED answer
      BY <2>2, Zenon DEF Apply, Rejected
    <3> QED BY <1>1, <3>1 DEF Apply, TypeOK, ApplyRequest, ReqInv, Req
  <2> QED BY <2>1, <2>2
<1>4. ASSUME NEW q \in Clients, q # r PROVE Untouched(q)
  BY <1>1, <1>4 DEF Apply, TypeOK, Answer, Untouched
<1> QED BY <1>2, <1>3, <1>4, UntouchedKeeps

LEMMA PollJoinInv ==
  ASSUME Inv, NEW r \in Clients, PollJoin(r)
  PROVE  Inv'
<1> USE DEF Inv
<1>1. DecodeStatus(input[r]) \in {0, 400, 500}
  BY DecodeType DEF PollJoin, ReqInv, Req
<1>2. CASE \E s \in {400, 404, 500} :
             Answer(r, s) /\ Explained(input[r], context[r], payload[r], task[r], results[r], s) /\ UNCHANGED registered
  <2>1. PICK s \in {400, 404, 500} :
             Answer(r, s) /\ Explained(input[r], context[r], payload[r], task[r], results[r], s) /\ UNCHANGED registered
    BY <1>2
  <2>2. TypeOK'
    BY <2>1 DEF PollJoin, TypeOK, Answer, Over
  <2>3. ReqInv(r)'
    <3>1. answer'[r] = s /\ phase'[r] = "answered"
      BY <2>1 DEF TypeOK, Answer
    <3>2. UNCHANGED <<input, context, payload, task, results>>
      BY DEF PollJoin
    <3>3. task[r] = "none" /\ results[r] = <<>>
      BY DEF PollJoin, ReqInv, Req
    <3> QED BY <2>1, <3>1, <3>2, <3>3 DEF PollJoin, ReqInv, Req
  <2>4. ASSUME NEW q \in Clients, q # r PROVE Untouched(q)
    BY <2>1, <2>4 DEF PollJoin, TypeOK, Answer, Untouched
  <2> QED BY <2>2, <2>3, <2>4, UntouchedKeeps
<1>3. CASE registered' = [registered EXCEPT ![r] = Unready(r)] /\ UNCHANGED <<phase, answer>>
  <2>1. Unready(r) \in SUBSET {"context", "payload", "task"}
    BY DEF Unready
  <2>2. registered' \in [Clients -> SUBSET {"context", "payload", "task"}]
    BY <1>3, <2>1 DEF TypeOK
  <2>3. TypeOK'
    BY <1>3, <2>2 DEF PollJoin, TypeOK
  <2>4. ASSUME NEW q \in Clients PROVE Untouched(q)
    BY <1>3 DEF PollJoin, Untouched
  <2> QED BY <2>3, <2>4, UntouchedKeeps
<1>4. CASE context[r] \in ContextErrors
  <2>1. ContextStatus[context[r]] \in {400, 404, 500}
    BY <1>4, ErrorType
  <2>2. Explained(input[r], context[r], payload[r], task[r], results[r], ContextStatus[context[r]])
    BY <1>4 DEF Explained
  <2> QED BY <1>2, <1>4, <2>1, <2>2 DEF PollJoin
<1>5. CASE context[r] \notin ContextErrors /\ RequestState(r) = "failed"
  <2>1. RequestError(r) \in {400, 500}
    BY <1>1, <1>5 DEF RequestState, RequestError
  <2>2. Explained(input[r], context[r], payload[r], task[r], results[r], RequestError(r))
    BY <1>5 DEF Explained, RequestState, RequestError
  <2> QED BY <1>2, <1>5, <2>1, <2>2 DEF PollJoin
<1> QED BY <1>3, <1>4, <1>5 DEF PollJoin

(* When both futures are there the request is decoded.                     *)
LEMMA JoinedDecoded ==
  ASSUME Inv, NEW r \in Clients, phase[r] = "joining", Joined(r)
  PROVE  /\ context[r] = "ready" /\ payload[r] \in {"unused", "ready"}
         /\ DecodeStatus(input[r]) = 0 /\ input[r].size \in Nat
         /\ input[r] \in Inputs
BY DecodeType DEF Inv, TypeOK, ReqInv, Req, Joined, RequestState

LEMMA PollInPlaceInv ==
  ASSUME Inv, NEW r \in Clients, PollInPlace(r)
  PROVE  Inv'
<1> USE DEF Inv
<1>0. /\ context[r] = "ready" /\ payload[r] \in {"unused", "ready"}
      /\ DecodeStatus(input[r]) = 0 /\ input[r].size \in Nat
  BY JoinedDecoded DEF PollInPlace
<1>1. PICK f \in Seq(BOOLEAN) : Len(f) = input[r].size /\ results' = [results EXCEPT ![r] = f]
  BY <1>0, RunType DEF PollInPlace
<1>2. results'[r] = f /\ results' \in [Clients -> Seq(BOOLEAN)]
  BY <1>1 DEF TypeOK
<1>3. ASSUME NEW q \in Clients, q # r PROVE Untouched(q)
  BY <1>1, <1>3 DEF PollInPlace, TypeOK, Answer, Panic, Untouched
<1>4. CASE Answer(r, ResponseStatus(f))
  <2>1. ResponseStatus(f) \in {200, 400}
    BY StatusType DEF BatchStatus
  <2>2. TypeOK'
    BY <1>2, <1>4, <2>1 DEF PollInPlace, TypeOK, Answer, Over
  <2>3. ReqInv(r)'
    <3>1. Explained(input[r], context[r], payload[r], task[r], f, ResponseStatus(f))
      BY <1>0, <1>1, StatusType DEF PollInPlace, ReqInv, Req, Explained, ContextErrors
    <3>2. /\ answer'[r] = ResponseStatus(f) /\ phase'[r] = "answered"
          /\ UNCHANGED <<input, context, payload, task>>
      BY <1>4 DEF PollInPlace, TypeOK, Answer
    <3> HIDE DEF ResponseStatus, Explained
    <3> QED BY <1>0, <1>1, <1>2, <2>1, <3>1, <3>2 DEF PollInPlace, ReqInv, Req
  <2> QED BY <1>3, <2>2, <2>3, UntouchedKeeps
<1>5. CASE Panic(r)
  <2>1. TypeOK'
    BY <1>2, <1>5 DEF PollInPlace, TypeOK, Panic, Over
  <2>2. ReqInv(r)'
    BY <1>0, <1>1, <1>2, <1>5 DEF PollInPlace, TypeOK, Panic, ReqInv, Req
  <2> QED BY <1>3, <2>1, <2>2, UntouchedKeeps
<1> QED BY <1>2, <1>4, <1>5 DEF PollInPlace

LEMMA SpawnTaskInv ==
  ASSUME Inv, NEW r \in Clients, SpawnTask(r)
  PROVE  Inv'
<1> USE DEF Inv
<1>1. /\ context[r] = "ready" /\ payload[r] \in {"unused", "ready"}
      /\ DecodeStatus(input[r]) = 0 /\ input[r] \in Inputs
  BY JoinedDecoded DEF SpawnTask
<1>2. TypeOK'
  BY DEF SpawnTask, HandlePolled, TypeOK
<1>3. ReqInv(r)'
  BY <1>1 DEF SpawnTask, TypeOK, ReqInv, Req
<1>4. ASSUME NEW q \in Clients, q # r PROVE Untouched(q)
  BY <1>4 DEF SpawnTask, TypeOK, Untouched
<1> QED BY <1>2, <1>3, <1>4, UntouchedKeeps

LEMMA PollRefusedInv ==
  ASSUME Inv, NEW r \in Clients, PollRefused(r)
  PROVE  Inv'
<1> USE DEF Inv
<1>1. TypeOK'
  BY DEF PollRefused, Panic, TypeOK, Over
<1>2. ReqInv(r)'
  BY DEF PollRefused, Panic, TypeOK, ReqInv, Req
<1>3. ASSUME NEW q \in Clients, q # r PROVE Untouched(q)
  BY <1>3 DEF PollRefused, Panic, TypeOK, Untouched
<1> QED BY <1>1, <1>2, <1>3, UntouchedKeeps

LEMMA PollHandleInv ==
  ASSUME Inv, NEW r \in Clients, PollHandle(r)
  PROVE  Inv'
<1> USE DEF Inv
<1>1. CASE task[r] = "done" /\ Answer(r, ResponseStatus(results[r])) /\ UNCHANGED registered
  <2>1. ResponseStatus(results[r]) \in {200, 400}
    <3>1. ResponseStatus(results[r]) = BatchStatus(results[r])
      BY ResultsStatus
    <3> HIDE DEF Inv
    <3> QED BY <3>1 DEF BatchStatus
  <2>2. TypeOK'
    BY <1>1, <2>1 DEF PollHandle, Answer, TypeOK, Over
  <2>3. ReqInv(r)'
    <3>1. Explained(input[r], context[r], payload[r], task[r], results[r], ResponseStatus(results[r]))
      <4>1. ResponseStatus(results[r]) = BatchStatus(results[r])
        BY ResultsStatus
      <4>2. /\ context[r] = "ready" /\ payload[r] \in {"unused", "ready"} /\ DecodeStatus(input[r]) = 0
            /\ Len(results[r]) = input[r].size
        BY <1>1 DEF ReqInv, Req
      <4> HIDE DEF Inv
      <4> QED BY <1>1, <4>1, <4>2 DEF Explained, ContextErrors
    <3>2. /\ answer'[r] = ResponseStatus(results[r]) /\ phase'[r] = "answered"
          /\ UNCHANGED <<input, context, payload, task, results>>
      BY <1>1 DEF PollHandle, TypeOK, Answer
    <3> QED BY <1>1, <2>1, <3>1, <3>2 DEF PollHandle, ReqInv, Req
  <2>4. ASSUME NEW q \in Clients, q # r PROVE Untouched(q)
    BY <1>1, <2>4 DEF PollHandle, Answer, TypeOK, Untouched
  <2> QED BY <2>2, <2>3, <2>4, UntouchedKeeps
<1>2. CASE Panic(r) /\ UNCHANGED registered
  <2>1. TypeOK'
    BY <1>2 DEF PollHandle, Panic, TypeOK, Over
  <2>2. ReqInv(r)'
    BY <1>2 DEF PollHandle, Panic, TypeOK, ReqInv, Req
  <2>3. ASSUME NEW q \in Clients, q # r PROVE Untouched(q)
    BY <1>2, <2>3 DEF PollHandle, Panic, TypeOK, Untouched
  <2> QED BY <2>1, <2>2, <2>3, UntouchedKeeps
<1>4. CASE task[r] = "failed" /\ Answer(r, TaskError) /\ UNCHANGED registered
  <2>1. TypeOK'
    BY <1>4 DEF PollHandle, Answer, TypeOK, Over, TaskError
  <2>2. ReqInv(r)'
    <3>1. Explained(input[r], context[r], payload[r], task[r], results[r], TaskError)
      BY <1>4 DEF TypeOK, ReqInv, Req, Explained, ContextErrors
    <3>2. /\ answer'[r] = TaskError /\ phase'[r] = "answered"
          /\ UNCHANGED <<input, context, payload, task, results>>
      BY <1>4 DEF PollHandle, TypeOK, Answer
    <3> QED BY <1>4, <3>1, <3>2 DEF PollHandle, ReqInv, Req
  <2>3. ASSUME NEW q \in Clients, q # r PROVE Untouched(q)
    BY <1>4, <2>3 DEF PollHandle, Answer, TypeOK, Untouched
  <2> QED BY <2>1, <2>2, <2>3, UntouchedKeeps
<1>3. CASE HandlePolled(r) /\ UNCHANGED <<phase, answer>>
  <2>1. TypeOK'
    BY <1>3 DEF PollHandle, HandlePolled, TypeOK
  <2>2. ASSUME NEW q \in Clients PROVE Untouched(q)
    BY <1>3 DEF PollHandle, Untouched
  <2> QED BY <2>1, <2>2, UntouchedKeeps
<1> QED BY <1>1, <1>2, <1>3, <1>4, Zenon DEF PollHandle

(* The events: nothing a request keeps for its answer changes but what     *)
(* they bring.                                                             *)
LEMMA EventInv ==
  ASSUME Inv, NEW r \in Clients,
         \/ Spurious(r) \/ ContextEnds(r) \/ PayloadEnds(r)
         \/ Discard(r) \/ Disconnect(r)
  PROVE  Inv'
<1> USE DEF Inv
<1>1. CASE Spurious(r)
  <2>1. TypeOK'
    BY <1>1 DEF Spurious, TypeOK
  <2>2. ASSUME NEW q \in Clients PROVE Untouched(q)
    BY <1>1 DEF Spurious, Untouched
  <2> QED BY <2>1, <2>2, UntouchedKeeps
<1>2. CASE ContextEnds(r)
  <2>1. PICK s \in {"ready"} \cup ContextErrors : context' = [context EXCEPT ![r] = s]
    BY <1>2 DEF ContextEnds
  <2>2. TypeOK'
    BY <1>2, <2>1, WakeType DEF ContextEnds, TypeOK
  <2>3. ReqInv(r)'
    BY <1>2, <2>1 DEF ContextEnds, TypeOK, ReqInv, Req
  <2>4. ASSUME NEW q \in Clients, q # r PROVE Untouched(q)
    BY <1>2, <2>1, <2>4 DEF ContextEnds, TypeOK, Untouched
  <2> QED BY <2>2, <2>3, <2>4, UntouchedKeeps
<1>3. CASE PayloadEnds(r)
  <2>1. PICK s \in {"ready", "failed"} : payload' = [payload EXCEPT ![r] = s]
    BY <1>3 DEF PayloadEnds
  <2>2. TypeOK'
    BY <1>3, <2>1, WakeType DEF PayloadEnds, TypeOK
  <2>3. ReqInv(r)'
    BY <1>3, <2>1 DEF PayloadEnds, TypeOK, ReqInv, Req
  <2>4. ASSUME NEW q \in Clients, q # r PROVE Untouched(q)
    BY <1>3, <2>1, <2>4 DEF PayloadEnds, TypeOK, Untouched
  <2> QED BY <2>2, <2>3, <2>4, UntouchedKeeps
<1>4. CASE Discard(r)
  <2>1. TypeOK'
    BY <1>4, WakeType DEF Discard, TypeOK
  <2>2. ReqInv(r)'
    <3>1. task'[r] = "lost" /\ UNCHANGED <<input, phase, context, payload, results, answer>>
      BY <1>4 DEF Discard, TypeOK
    <3>2. ReqInv(r) /\ task[r] \in {"queued", "running"}
      BY <1>4 DEF Discard
    <3> HIDE DEF Inv
    <3> QED BY <1>4, <3>1, <3>2 DEF ReqInv, Req
  <2>3. ASSUME NEW q \in Clients, q # r PROVE Untouched(q)
    BY <1>4, <2>3 DEF Discard, TypeOK, Untouched
  <2> QED BY <2>1, <2>2, <2>3, UntouchedKeeps
<1>5. CASE Disconnect(r)
  <2>1. TypeOK'
    BY <1>5 DEF Disconnect, TypeOK, Over
  <2>2. ReqInv(r)'
    BY <1>5 DEF Disconnect, TypeOK, ReqInv, Req
  <2>3. ASSUME NEW q \in Clients, q # r PROVE Untouched(q)
    BY <1>5, <2>3 DEF Disconnect, TypeOK, Untouched
  <2> QED BY <2>1, <2>2, <2>3, UntouchedKeeps
<1> QED BY <1>1, <1>2, <1>3, <1>4, <1>5

LEMMA StartInv ==
  ASSUME Inv, NEW r \in Clients, Start(r)
  PROVE  Inv'
<1> USE DEF Inv
<1>1. PICK t \in {"canceled", "running"} : task' = [task EXCEPT ![r] = t]
  BY DEF Start
<1>2. TypeOK'
  BY <1>1 DEF Start, TypeOK
<1>3. ReqInv(r)'
  <2>1. task'[r] = t /\ UNCHANGED <<input, phase, context, payload, results, answer>>
    BY <1>1 DEF Start, TypeOK
  <2>2. ReqInv(r) /\ task[r] \in {"queued", "running"}
    BY <1>1 DEF Start
  <2> HIDE DEF Inv
  <2> QED BY <1>1, <2>1, <2>2 DEF ReqInv, Req
<1>4. ASSUME NEW q \in Clients, q # r PROVE Untouched(q)
  BY <1>1, <1>4 DEF Start, TypeOK, Untouched
<1> QED BY <1>2, <1>3, <1>4, UntouchedKeeps

LEMMA FinishInv ==
  ASSUME Inv, NEW r \in Clients, Finish(r)
  PROVE  Inv'
<1> USE DEF Inv
<1>0. input[r] \in Inputs /\ input[r].size \in Nat
  <2>1. phase[r] # "idle"
    BY DEF Finish, ReqInv, Req
  <2> QED BY <2>1, DecodeType DEF ReqInv, Req
<1>1. CASE task' = [task EXCEPT ![r] = "done"] /\ Run(r)
  <2>1. PICK f \in Seq(BOOLEAN) : Len(f) = input[r].size /\ results' = [results EXCEPT ![r] = f]
    BY <1>0, <1>1, RunType
  <2>2. results'[r] = f /\ results' \in [Clients -> Seq(BOOLEAN)]
    BY <2>1 DEF TypeOK
  <2>3. TypeOK'
    BY <1>1, <2>2, WakeType DEF Finish, TypeOK
  <2>4. ReqInv(r)'
    BY <1>1, <2>1, <2>2 DEF Finish, TypeOK, ReqInv, Req
  <2>5. ASSUME NEW q \in Clients, q # r PROVE Untouched(q)
    BY <1>1, <2>1, <2>5 DEF Finish, TypeOK, Untouched
  <2> QED BY <2>3, <2>4, <2>5, UntouchedKeeps
<1>2. CASE \E t \in {"lost", "failed"} : task' = [task EXCEPT ![r] = t] /\ UNCHANGED results
  <2>0. PICK t \in {"lost", "failed"} : task' = [task EXCEPT ![r] = t] /\ UNCHANGED results
    BY <1>2
  <2>1. TypeOK'
    BY <2>0, WakeType DEF Finish, TypeOK
  <2>2. ReqInv(r)'
    <3>1. task'[r] = t /\ UNCHANGED <<input, phase, context, payload, results, answer>>
      BY <2>0 DEF Finish, TypeOK
    <3>2. ReqInv(r) /\ task[r] \in {"queued", "running"}
      BY <2>0 DEF Finish
    <3> HIDE DEF Inv
    <3> QED BY <2>0, <3>1, <3>2 DEF ReqInv, Req
  <2>3. ASSUME NEW q \in Clients, q # r PROVE Untouched(q)
    BY <2>0, <2>3 DEF Finish, TypeOK, Untouched
  <2> QED BY <2>1, <2>2, <2>3, UntouchedKeeps
<1> QED BY <1>1, <1>2 DEF Finish

LEMMA ReleaseInv ==
  ASSUME Inv, NEW r \in Clients, Release(r)
  PROVE  Inv'
<1> USE DEF Inv
<1>1. TypeOK'
  BY DEF Release, TypeOK
<1>2. ReqInv(r)'
  BY DEF Release, TypeOK, ReqInv, Req
<1>3. ASSUME NEW q \in Clients, q # r PROVE Untouched(q)
  BY <1>3 DEF Release, TypeOK, Untouched
<1> QED BY <1>1, <1>2, <1>3, UntouchedKeeps

LEMMA StepInv == Inv /\ [Next]_vars => Inv'
<1> SUFFICES ASSUME Inv, [Next]_vars PROVE Inv'
  OBVIOUS
<1>1. CASE UNCHANGED vars
  BY <1>1 DEF vars, Inv, TypeOK, ReqInv
<1>2. ASSUME NEW r \in Clients, Poll(r) PROVE Inv'
  BY <1>2, PollJoinInv, PollInPlaceInv, PollHandleInv, SpawnTaskInv, PollRefusedInv
     DEF Poll, PollNonblocking, PollWithSpawner
<1>3. ASSUME NEW r \in Clients,
             \/ Apply(r) \/ Spurious(r) \/ ContextEnds(r) \/ PayloadEnds(r)
             \/ Start(r) \/ Finish(r) \/ Discard(r) \/ Disconnect(r) \/ Release(r)
      PROVE  Inv'
  BY <1>3, ApplyInv, EventInv, StartInv, FinishInv, ReleaseInv
<1> QED BY <1>1, <1>2, <1>3 DEF Next

(* What holds of each request at every step of its future and of its task. *)
THEOREM Invariance == Spec => []Inv
BY InitInv, StepInv, PTL DEF Spec

(* Whatever the executors, sizes and interleavings, queries run only for a *)
(* decoded request with its context, and an answer is the first error of   *)
(* its own request, with its own status, or the one of all its queries     *)
(* (GraphQLRequest::execute, request.rs:146-167).                          *)
THEOREM OwnQueries == Spec => []AnswersItsQueries
<1>1. Inv => AnswersItsQueries
  BY ZenonT(30) DEF Inv, ReqInv, Req, AnswersItsQueries, Explained, BatchStatus
<1> QED BY <1>1, Invariance, PTL
=============================================================================
