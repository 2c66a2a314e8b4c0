--------------------------- MODULE SessionProofs ---------------------------
(***************************************************************************)
(* Theorems about Session, for any number of clients, requests, session    *)
(* ids and directories, orderly or not, with every fault of the model.     *)
(***************************************************************************)
EXTENDS Session, FiniteSetTheorems, TLAPS

Before == {"arrived", "connecting", "fetching", "handler"}
Past == {"command", "executed", "answering", "answered", "lost"}
Keyed == backend \in {"memory", "redis"}

(* Several clients may have come with this id.                             *)
Common(i) == Keyed /\ i \in Brought /\ ~orderly

(* A client has v: in a cookie it keeps, or in one of its requests.        *)
Holds(s, c, v) ==
  req[s].pc # "idle" /\ req[s].client = c /\ v \in {req[s].sent, req[s].id, req[s].jar}

Carries(c, v) == \/ \E d \in Dirs : cookies[c][d] = v
                 \/ \E s \in Requests : Holds(s, c, v)

(* The value of w is where other requests may find it.                     *)
Done(w) == req[w].pc # "idle" /\ req[w].op = "set" /\ req[w].applied

Local(r) ==
  /\ req[r].pc \in {"idle", "arrived", "connecting", "fetching"} => req[r].saw = None
  /\ req[r].pc \in Before => req[r].op = "none"
  /\ req[r].applied => req[r].pc \in Past
  /\ req[r].value \in {req[r].saw, r, None}
  /\ req[r].value = r => req[r].op = "set"
  /\ req[r].pc = "fetching" => req[r].id \in Ids
  /\ req[r].pc \in {"command", "executed"} => Keyed /\ req[r].id \in Ids
  /\ \A w \in Requests :
       req[r].saw = w =>
         /\ Done(w) /\ (req[w].client = req[r].client \/ Common(req[r].id))
         /\ Keyed => req[r].id \in Ids /\ req[w].id = req[r].id

(* Ids are handed out once and stay with one client, but for those that    *)
(* several clients came with; a value is stored under the id of the        *)
(* request that wrote it, or kept by its client.                           *)
Inv ==
  /\ TypeOK
  /\ Keyed \/ used = {}
  /\ \A c \in Clients, i \in Ids : Carries(c, i) => i \in used
  /\ \A c, e \in Clients, i \in Ids : Carries(c, i) /\ Carries(e, i) => c = e \/ Common(i)
  /\ \A c \in Clients, w \in Requests : Carries(c, w) => Done(w) /\ req[w].client = c /\ ~Keyed
  /\ \A i \in Ids, w \in Requests : storage[i] = w => Done(w) /\ req[w].id = i
  /\ \A r \in Requests : Local(r)

LEMMA InitInv == Init => Inv
<1> SUFFICES ASSUME Init PROVE Inv
  OBVIOUS
<1>1. PICK c \in Clients : req = [r \in Requests |-> Fresh(c, Root)]
  BY DEF Init
<1>2. Fresh(c, Root) \in RequestState
  BY SessionAssumption DEF Fresh, RequestState, CookieValue, Value
<1>3. TypeOK
  <2>1. used \subseteq Ids
    BY SessionAssumption DEF Init
  <2>2. cookies \in [Clients -> [Dirs -> CookieValue]]
    BY <2>1 DEF Init, CookieValue, Value
  <2> QED BY <1>1, <1>2, <2>1, <2>2 DEF Init, TypeOK, CookieValue, Value
<1>4. ASSUME NEW e \in Clients, NEW v \in Ids \cup Requests, Carries(e, v)
      PROVE  v \in used /\ v = cookies[e][Root]
  <2>1. v \notin {None, Junk, Keep}
    BY SessionAssumption
  <2>2. \E d \in Dirs : cookies[e][d] = v
    BY <1>1, <1>4, <2>1 DEF Carries, Holds, Fresh
  <2>3. \E x \in {None, Junk} \cup used : cookies[e] = [d \in Dirs |-> x]
    <3> DEFINE Kept == {[d \in Dirs |-> x] : x \in {None, Junk} \cup used}
    <3>1. cookies \in [Clients -> Kept]
      BY DEF Init
    <3>2. cookies[e] \in Kept
      BY <3>1
    <3> QED BY <3>2
  <2>4. PICK x \in {None, Junk} \cup used : cookies[e] = [d \in Dirs |-> x]
    BY <2>3
  <2> QED BY <2>1, <2>2, <2>4, SessionAssumption
<1>6. used \in {{}, Brought} /\ (Keyed \/ used = {}) /\ (\A i \in used : Keyed /\ i \in Brought)
  BY DEF Init, Keyed
<1>7. used \subseteq Ids /\ Ids \cap Requests = {} /\ \A i \in Ids : i \notin {None, Junk}
  BY <1>6, SessionAssumption
<1>8. \A c1, e \in Clients, i \in Ids : Carries(c1, i) /\ Carries(e, i) => c1 = e \/ Common(i)
  <2> SUFFICES ASSUME NEW c1 \in Clients, NEW e \in Clients, NEW i \in Ids,
                      Carries(c1, i), Carries(e, i), orderly
               PROVE  c1 = e
    BY <1>4, <1>6 DEF Common
  <2>1. i = cookies[c1][Root] /\ i = cookies[e][Root]
    BY <1>4
  <2> QED BY <1>7, <2>1 DEF Init
<1>5. \A r \in Requests : Local(r)
  BY <1>1, SessionAssumption DEF Local, Fresh, Before, Past
<1>9. \A i \in Ids, w \in Requests : storage[i] # w
  BY SessionAssumption DEF Init
<1> QED BY <1>3, <1>4, <1>5, <1>6, <1>7, <1>8, <1>9 DEF Inv

(* What request r may come to carry: what its client has, an id that       *)
(* nobody was given, or, kept in cookies, a value written for its client.  *)
MayCarry(r, v) ==
  v \in Ids \cup Requests =>
    \/ Carries(req'[r].client, v)
    \/ v \in Ids /\ v \notin used /\ v \in used'
    \/ /\ v \in Requests /\ ~Keyed /\ req'[v].client = req'[r].client
       /\ req'[v].pc # "idle" /\ req'[v].op = "set" /\ req'[v].applied

(* A step of one request.                                                  *)
Changes(r) ==
  /\ \A s \in Requests : s # r => req'[s] = req[s]
  /\ backend' = backend /\ orderly' = orderly /\ used \subseteq used' /\ (Keyed \/ used' = used)
  /\ req'[r].pc # "idle"
  /\ req[r].pc # "idle" => req'[r].client = req[r].client
  /\ Done(r) => Done(r)' /\ req'[r].id = req[r].id
  /\ MayCarry(r, req'[r].sent) /\ MayCarry(r, req'[r].id) /\ MayCarry(r, req'[r].jar)
  /\ \A c \in Clients, d \in Dirs :
       \/ cookies'[c][d] = cookies[c][d]
       \/ c = req'[r].client /\ (cookies'[c][d] = None \/ Carries(c, cookies'[c][d]))
  /\ \A i \in Ids, w \in Requests :
       storage'[i] = w => storage[i] = w \/ (Done(w)' /\ req'[w].id = i)

LEMMA ChangeInv ==
  ASSUME Inv, TypeOK', NEW r \in Requests, Changes(r), Local(r)'
  PROVE  Inv'
<1>0. Keyed' = Keyed /\ \A i : Common(i)' = Common(i)
  BY DEF Changes, Keyed, Common
<1>1. \A w \in Requests : Done(w) => Done(w)' /\ req'[w].id = req[w].id /\ req'[w].client = req[w].client
  BY DEF Changes, Done
<1>2. ASSUME NEW c \in Clients, NEW v \in Ids \cup Requests, Carries(c, v)'
      PROVE  \/ Carries(c, v)
             \/ c = req'[r].client /\ v \in Ids /\ v \notin used /\ v \in used'
             \/ v \in Requests /\ Done(v)' /\ req'[v].client = c /\ ~Keyed
  <2>1. CASE \E d \in Dirs : cookies'[c][d] = v
    BY <2>1, SessionAssumption DEF Changes, Carries
  <2>2. CASE \E s \in Requests : Holds(s, c, v)'
    <3>1. PICK s \in Requests : Holds(s, c, v)'
      BY <2>2
    <3>2. CASE s = r
      <4>1. c = req'[r].client /\ v \in {req'[r].sent, req'[r].id, req'[r].jar}
        BY <3>1, <3>2 DEF Holds
      <4>2. MayCarry(r, v)
        BY <4>1 DEF Changes
      <4> QED BY <4>1, <4>2 DEF MayCarry, Done
    <3>3. CASE s # r
      BY <3>1, <3>3 DEF Holds, Changes, Carries
    <3> QED BY <3>2, <3>3
  <2> QED BY <1>2, <2>1, <2>2 DEF Carries
<1>3. \A i \in Ids : i \notin Requests
  BY SessionAssumption
<1>4. \A c \in Clients, i \in Ids : Carries(c, i)' => i \in used'
  BY <1>2, <1>3 DEF Inv, Changes
<1>5. \A c, e \in Clients, i \in Ids : Carries(c, i)' /\ Carries(e, i)' => c = e \/ Common(i)'
  BY <1>0, <1>2, <1>3 DEF Inv
<1>6. \A c \in Clients, w \in Requests : Carries(c, w)' => Done(w)' /\ req'[w].client = c /\ ~Keyed'
  BY <1>0, <1>1, <1>2, <1>3 DEF Inv
<1>7. \A i \in Ids, w \in Requests : storage'[i] = w => Done(w)' /\ req'[w].id = i
  BY <1>1 DEF Inv, Changes
<1>8. ASSUME NEW s \in Requests, s # r PROVE Local(s)'
  <2>1. req'[s] = req[s] /\ backend' = backend /\ Local(s)
    BY <1>8 DEF Changes, Inv
  <2> QED BY <1>0, <1>1, <2>1 DEF Local
<1>9. Keyed' \/ used' = {}
  BY <1>0 DEF Inv, Changes
<1> QED BY <1>4, <1>5, <1>6, <1>7, <1>8, <1>9 DEF Inv

(* What the steps of one request mostly leave alone.                       *)
Others == <<orderly, backend, cookies, storage, used>>

LEMMA AnswerType ==
  ASSUME NEW s \in RequestState, NEW ok \in BOOLEAN
  PROVE  [s EXCEPT !.pc = "answering", !.ok = ok] \in RequestState
BY DEF RequestState

LEMMA AnswerInv ==
  ASSUME Inv, NEW r \in Requests, NEW ok \in BOOLEAN,
         req[r].pc # "idle", Answer(r, ok), UNCHANGED Others
  PROVE  Inv'
<1> DEFINE q == [req[r] EXCEPT !.pc = "answering", !.ok = ok]
<1>1. req' = [req EXCEPT ![r] = q] /\ req \in [Requests -> RequestState]
  BY DEF Answer, Inv, TypeOK
<1>2. q \in RequestState
  BY <1>1, AnswerType
<1>3. TypeOK'
  BY <1>1, <1>2 DEF Inv, TypeOK, Others
<1>4. req'[r] = q /\ \A s \in Requests : s # r => req'[s] = req[s]
  BY <1>1
<1>5. /\ q.client = req[r].client /\ q.id = req[r].id /\ q.sent = req[r].sent /\ q.jar = req[r].jar
      /\ q.saw = req[r].saw /\ q.value = req[r].value /\ q.op = req[r].op
      /\ q.applied = req[r].applied /\ q.pc = "answering"
  BY <1>1 DEF RequestState
<1> HIDE DEF q
<1>6. Local(r)'
  <2>1. Keyed' = Keyed /\ \A i : Common(i)' = Common(i)
    BY DEF Keyed, Others, Common
  <2>2. \A w \in Requests : Done(w) => Done(w)' /\ req'[w].client = req[w].client /\ req'[w].id = req[w].id
    BY <1>4, <1>5 DEF Done
  <2>3. Local(r)
    BY DEF Inv
  <2> QED BY <1>4, <1>5, <2>1, <2>2, <2>3 DEF Local, Before, Past
<1>7. Changes(r)
  <2>1. req[r].client \in Clients
    BY <1>1 DEF RequestState
  <2>2. \A v \in {req[r].sent, req[r].id, req[r].jar} : Carries(req[r].client, v)
    BY <2>1 DEF Carries, Holds
  <2> QED BY <1>4, <1>5, <2>2 DEF Changes, MayCarry, Done, Others
<1> QED BY <1>3, <1>6, <1>7, ChangeInv

LEMMA FoundType ==
  ASSUME NEW s \in RequestState, NEW i \in Ids \cup {None}, NEW v \in Value
  PROVE  [s EXCEPT !.pc = "handler", !.id = i, !.value = v, !.saw = v] \in RequestState
BY DEF RequestState

(* The backend has found the value, where it belongs to the client.        *)
LEMMA FoundInv ==
  ASSUME Inv, NEW r \in Requests, req[r].pc \in Before,
         NEW id \in Ids \cup {None}, NEW value \in Value,
         Found(r, id, value), UNCHANGED Others,
         id \in {None, req[r].sent, req[r].id},
         \A w \in Requests :
           value = w => /\ Done(w) /\ (req[w].client = req[r].client \/ Common(id))
                        /\ Keyed => id \in Ids /\ req[w].id = id
  PROVE  Inv'
<1> DEFINE q == [req[r] EXCEPT !.pc = "handler", !.id = id, !.value = value, !.saw = value]
<1>1. req' = [req EXCEPT ![r] = q] /\ req \in [Requests -> RequestState]
  BY DEF Found, Inv, TypeOK
<1>2. q \in RequestState
  BY <1>1, FoundType
<1>3. TypeOK'
  BY <1>1, <1>2 DEF Inv, TypeOK, Others
<1>4. req'[r] = q /\ \A s \in Requests : s # r => req'[s] = req[s]
  BY <1>1
<1>5. /\ q.client = req[r].client /\ q.id = id /\ q.sent = req[r].sent /\ q.jar = req[r].jar
      /\ q.saw = value /\ q.value = value /\ q.op = req[r].op
      /\ q.applied = req[r].applied /\ q.pc = "handler"
  BY <1>1 DEF RequestState
<1> HIDE DEF q
<1>6. req[r].op = "none" /\ ~req[r].applied /\ ~Done(r) /\ value # r
  BY DEF Inv, Local, Before, Past, Done
<1>7. \A w \in Requests : w # r => (Done(w) => Done(w)') /\ req'[w].client = req[w].client /\ req'[w].id = req[w].id
  BY <1>4 DEF Done
<1>8. Keyed' = Keyed /\ \A i : Common(i)' = Common(i)
  BY DEF Keyed, Others, Common
<1>9. Local(r)'
  BY <1>4, <1>5, <1>6, <1>7, <1>8 DEF Local, Before, Past
<1>10. Changes(r)
  <2>1. req[r].client \in Clients
    BY <1>1 DEF RequestState
  <2>2. \A v \in {req[r].sent, req[r].id, req[r].jar} : Carries(req[r].client, v)
    BY <2>1 DEF Carries, Holds, Before
  <2>3. None \notin Ids \cup Requests
    BY SessionAssumption
  <2> QED BY <1>4, <1>5, <1>6, <2>2, <2>3 DEF Changes, MayCarry, Others
<1> QED BY <1>3, <1>9, <1>10, ChangeInv

LEMMA WrittenType ==
  ASSUME NEW s \in RequestState, NEW pc \in {"command", "answering"}, NEW i \in Ids \cup {None},
         NEW j \in CookieValue \cup {Keep}, NEW ok \in BOOLEAN, NEW a \in BOOLEAN
  PROVE  [s EXCEPT !.pc = pc, !.id = i, !.jar = j, !.ok = ok, !.applied = a] \in RequestState
<1> DEFINE x == [s EXCEPT !.pc = pc, !.id = i, !.jar = j]
<1>1. x \in RequestState
  BY DEF RequestState
<1> HIDE DEF x
<1>2. [x EXCEPT !.ok = ok, !.applied = a] \in RequestState
  BY <1>1 DEF RequestState
<1> USE DEF x
<1> QED BY <1>2

(* The session is written, to storage or to the cookie.                    *)
LEMMA WrittenInv ==
  ASSUME Inv, NEW r \in Requests, req[r].pc = "running",
         NEW id \in Ids \cup {None}, NEW jar \in CookieValue \cup {Keep},
         NEW pc \in {"command", "answering"}, Written(r, id, jar, pc),
         storage' \in [Ids -> Value],
         id = None \/ id = req[r].id \/ id \notin used, Keyed \/ id = None,
         \/ jar \in {Keep, None, Junk, id}
         \/ jar = req[r].value /\ pc = "answering" /\ ~Keyed,
         Keyed /\ req[r].id \in Ids => id = req[r].id,
         pc = "command" => Keyed /\ id \in Ids,
         \A i \in Ids, w \in Requests :
           storage'[i] = w => \/ storage[i] = w
                              \/ i = id /\ req[r].value = w /\ pc = "answering" /\ Keyed
  PROVE  Inv'
<1> DEFINE a == (pc = "answering" \/ req[r].value = None)
<1> DEFINE q == [req[r] EXCEPT !.pc = pc, !.id = id, !.jar = jar, !.ok = (pc = "answering"), !.applied = a]
<1>1. req' = [req EXCEPT ![r] = q] /\ req \in [Requests -> RequestState] /\ UNCHANGED <<orderly, backend, cookies>>
      /\ used' = used \cup ({id} \ {None})
  BY DEF Written, Inv, TypeOK
<1>2. q \in RequestState
  <2>1. (pc = "answering") \in BOOLEAN /\ a \in BOOLEAN
    OBVIOUS
  <2> QED BY <1>1, <2>1, WrittenType
<1>3. TypeOK'
  BY <1>1, <1>2 DEF Inv, TypeOK
<1>4. req'[r] = q /\ \A s \in Requests : s # r => req'[s] = req[s]
  BY <1>1
<1>5. /\ q.client = req[r].client /\ q.id = id /\ q.sent = req[r].sent /\ q.jar = jar
      /\ q.saw = req[r].saw /\ q.value = req[r].value /\ q.op = req[r].op /\ q.pc = pc
  BY <1>1 DEF RequestState
<1>6. q.applied = a
  BY <1>1 DEF RequestState
<1>6a. pc = "answering" => q.applied
  BY <1>6
<1> HIDE DEF q, a
<1>7. ~req[r].applied /\ ~Done(r)
  BY DEF Inv, Local, Past, Done
<1>8. \A w \in Requests : w # r => (Done(w) => Done(w)') /\ req'[w].client = req[w].client /\ req'[w].id = req[w].id
  BY <1>4 DEF Done
<1>9. Keyed' = Keyed /\ \A i : Common(i)' = Common(i)
  BY <1>1 DEF Keyed, Common
<1>10. Local(r) /\ req[r].saw # r
  BY <1>7 DEF Inv, Local
<1>11. Local(r)'
  <2>1. ASSUME NEW w \in Requests, req'[r].saw = w
        PROVE  /\ Done(w)' /\ (req'[w].client = req'[r].client \/ Common(req[r].id)')
               /\ Keyed' => req'[r].id \in Ids /\ req'[w].id = req'[r].id
    <3>1. req[r].saw = w /\ w # r
      BY <1>4, <1>5, <1>10, <2>1
    <3>2. /\ Done(w) /\ (req[w].client = req[r].client \/ Common(req[r].id))
          /\ Keyed => req[r].id \in Ids /\ req[w].id = req[r].id
      BY <1>10, <3>1 DEF Local
    <3>3. Keyed => id = req[r].id
      BY <3>2
    <3>4. Common(req[r].id) => Common(req[r].id)'
      BY <1>4, <1>5, <1>9, <3>3 DEF Common
    <3> QED BY <1>4, <1>5, <1>8, <1>9, <3>1, <3>2, <3>3, <3>4
  <2> QED BY <1>4, <1>5, <1>9, <1>10, <2>1 DEF Local, Before, Past
<1>12. ASSUME NEW w \in Requests, req[r].value = w, pc = "answering"
       PROVE  Done(w)' /\ (req'[w].client = req[r].client \/ Keyed) /\ (Keyed => req'[w].id = id)
  <2>1. CASE w = r
    BY <1>4, <1>5, <1>6a, <1>10, <1>12, <2>1 DEF Local, Done
  <2>2. CASE w # r
    <3>1. req[r].saw = w
      BY <1>10, <1>12, <2>2, SessionAssumption DEF Local
    <3> QED BY <1>8, <1>10, <2>2, <3>1 DEF Local, Common
  <2> QED BY <2>1, <2>2
<1>13. Changes(r)
  <2>1. req[r].client \in Clients
    BY <1>1 DEF RequestState
  <2>2. \A v \in {req[r].sent, req[r].id, req[r].jar} : Carries(req[r].client, v)
    BY <2>1 DEF Carries, Holds
  <2>3. /\ \A v \in Ids \cup Requests : v \notin {None, Junk, Keep}
        /\ Ids \cap Requests = {}
    BY SessionAssumption
  <2>4. MayCarry(r, req'[r].sent)
    BY <1>4, <1>5, <2>2 DEF MayCarry
  <2>5. MayCarry(r, req'[r].id)
    BY <1>1, <1>4, <1>5, <2>2, <2>3 DEF MayCarry
  <2>6. MayCarry(r, req'[r].jar)
    <3>1. CASE jar \in {Keep, None, Junk, id}
      <4>1. CASE jar = id
        BY <1>4, <1>5, <2>5, <4>1
      <4>2. CASE jar \in {Keep, None, Junk}
        BY <1>4, <1>5, <2>3, <4>2 DEF MayCarry
      <4> QED BY <3>1, <4>1, <4>2
    <3>2. CASE jar = req[r].value /\ pc = "answering" /\ ~Keyed
      <4>1. CASE jar \in Requests
        <5>1. Done(jar)' /\ req'[jar].client = req[r].client
          BY <1>12, <3>2, <4>1
        <5> QED BY <1>4, <1>5, <3>2, <4>1, <5>1 DEF MayCarry, Done
      <4>2. CASE jar \notin Requests
        <5>1. jar \in Value
          BY <1>1, <3>2 DEF RequestState
        <5> QED BY <1>4, <1>5, <2>3, <4>2, <5>1 DEF MayCarry, Value
      <4> QED BY <4>1, <4>2
    <3> QED BY <3>1, <3>2
  <2>7. \A i \in Ids, w \in Requests : storage'[i] = w => storage[i] = w \/ (Done(w)' /\ req'[w].id = i)
    BY <1>12
  <2> QED BY <1>1, <1>4, <1>5, <1>7, <2>4, <2>5, <2>6, <2>7 DEF Changes
<1> QED BY <1>3, <1>11, <1>13, ChangeInv

(* A step of r that leaves what the request carries alone.                 *)
LEMMA SameInv ==
  ASSUME Inv, TypeOK', NEW r \in Requests,
         req[r].pc # "idle", req'[r].pc # "idle",
         \A s \in Requests : s # r => req'[s] = req[s],
         req'[r].client = req[r].client, req'[r].sent = req[r].sent,
         req'[r].id = req[r].id, req'[r].jar = req[r].jar,
         Done(r) => Done(r)', UNCHANGED <<orderly, backend, used>>,
         \A c \in Clients, d \in Dirs :
           \/ cookies'[c][d] = cookies[c][d]
           \/ c = req[r].client /\ Carries(c, cookies'[c][d]),
         \A i \in Ids, w \in Requests :
           storage'[i] = w => storage[i] = w \/ (Done(w)' /\ req'[w].id = i),
         Local(r)'
  PROVE  Inv'
<1>1. req[r].client \in Clients
  BY DEF Inv, TypeOK, RequestState
<1>2. \A v \in {req[r].sent, req[r].id, req[r].jar} : Carries(req[r].client, v)
  BY <1>1 DEF Carries, Holds
<1>3. MayCarry(r, req'[r].sent) /\ MayCarry(r, req'[r].id) /\ MayCarry(r, req'[r].jar)
  BY <1>2 DEF MayCarry
<1>4. Changes(r)
  BY <1>3 DEF Changes
<1> QED BY <1>4, ChangeInv

LEMMA HandleType ==
  ASSUME NEW s \in RequestState, NEW op \in {"keep", "set", "remove"}, NEW v \in Value
  PROVE  [s EXCEPT !.pc = "running", !.op = op, !.value = v] \in RequestState
BY DEF RequestState

LEMMA HandleInv ==
  ASSUME Inv, NEW r \in Requests, NEW op \in {"keep", "set", "remove"}, Handle(r, op)
  PROVE  Inv'
<1> DEFINE v == CASE op = "keep" -> req[r].value [] op = "set" -> r [] op = "remove" -> None
<1> DEFINE q == [req[r] EXCEPT !.pc = "running", !.op = op, !.value = v]
<1>1. req' = [req EXCEPT ![r] = q] /\ req \in [Requests -> RequestState]
  BY DEF Handle, Inv, TypeOK
<1>2. v \in Value /\ (v = req[r].value \/ (v = r /\ op = "set") \/ v = None)
  <2>1. req[r].value \in Value
    BY <1>1 DEF RequestState
  <2>2. CASE op = "keep"
    BY <2>1, <2>2
  <2>3. CASE op = "set"
    BY <2>3 DEF Value
  <2>4. CASE op = "remove"
    BY <2>4 DEF Value
  <2> QED BY <2>2, <2>3, <2>4
<1> HIDE DEF v
<1>3. q \in RequestState
  BY <1>1, <1>2, HandleType
<1>4. req'[r] = q /\ \A s \in Requests : s # r => req'[s] = req[s]
  BY <1>1
<1>5. /\ q.client = req[r].client /\ q.id = req[r].id /\ q.sent = req[r].sent /\ q.jar = req[r].jar
      /\ q.saw = req[r].saw /\ q.value = v /\ q.op = op /\ q.applied = req[r].applied
      /\ q.pc = "running"
  BY <1>1 DEF RequestState
<1> HIDE DEF q
<1>7. req[r].pc = "handler" /\ UNCHANGED Others
  BY DEF Handle, Others
<1>6. TypeOK'
  BY <1>1, <1>3, <1>7 DEF Inv, TypeOK, Others
<1>8. Local(r) /\ ~req[r].applied /\ req[r].op = "none"
  BY <1>7 DEF Inv, Local, Past, Before
<1>9. Local(r)'
  <2>1. req[r].value # r
    BY <1>8 DEF Local
  <2>6. req[r].value \in {req[r].saw, r, None} /\ r # None
    BY <1>8, SessionAssumption DEF Local
  <2>2. q.value \in {q.saw, r, None} /\ (q.value = r => q.op = "set")
    BY <1>2, <1>5, <2>1, <2>6
  <2>3. \A w \in Requests : w # r => (Done(w) => Done(w)') /\ req'[w].client = req[w].client /\ req'[w].id = req[w].id
    BY <1>4 DEF Done
  <2>4. req[r].saw # r
    BY <1>8 DEF Local, Done
  <2>5. Keyed' = Keyed /\ \A i : Common(i)' = Common(i)
    BY <1>7 DEF Keyed, Others, Common
  <2> QED BY <1>4, <1>5, <1>8, <2>2, <2>3, <2>4, <2>5 DEF Local, Before, Past
<1>10. ~Done(r)
  BY <1>8 DEF Done
<1> QED BY <1>4, <1>5, <1>6, <1>7, <1>9, <1>10, SameInv DEF Others

LEMMA SendInv ==
  ASSUME Inv, NEW r \in Requests, NEW c \in Clients, NEW d \in Dirs, Send(r, c, d)
  PROVE  Inv'
<1> DEFINE q == [Fresh(c, d) EXCEPT !.pc = "arrived", !.sent = Sees(c, d)]
<1>1. req' = [req EXCEPT ![r] = q] /\ req \in [Requests -> RequestState]
      /\ req[r].pc = "idle" /\ UNCHANGED Others
  BY DEF Send, Inv, TypeOK, Others
<1>2. Sees(c, d) \in CookieValue /\ Carries(c, Sees(c, d))
  BY SessionAssumption DEF Sees, Carries, Inv, TypeOK
<1>3. q \in RequestState
  BY <1>2 DEF RequestState, Fresh, Value
<1>4. req'[r] = q /\ \A s \in Requests : s # r => req'[s] = req[s]
  BY <1>1
<1>5. /\ q.client = c /\ q.id = None /\ q.sent = Sees(c, d) /\ q.jar = Keep /\ q.saw = None
      /\ q.value = None /\ q.op = "none" /\ q.applied = FALSE /\ q.pc = "arrived"
  BY DEF Fresh
<1> HIDE DEF q
<1>6. TypeOK'
  BY <1>1, <1>3 DEF Inv, TypeOK, Others
<1>7. {None, Keep} \cap (Ids \cup Requests) = {}
  BY SessionAssumption
<1>8. Local(r)'
  BY <1>4, <1>5, <1>7 DEF Local, Before, Past
<1>9. Changes(r)
  BY <1>1, <1>2, <1>4, <1>5, <1>7 DEF Changes, MayCarry, Done, Others
<1> QED BY <1>6, <1>8, <1>9, ChangeInv

LEMMA RedisApplyInv ==
  ASSUME Inv, NEW r \in Requests, RedisApply(r)
  PROVE  Inv'
<1> DEFINE q == [req[r] EXCEPT !.pc = "connecting", !.id = req[r].sent]
<1>1. req' = [req EXCEPT ![r] = q] /\ req \in [Requests -> RequestState] /\ Keyed
      /\ req[r].pc = "arrived" /\ req[r].sent # Junk /\ UNCHANGED Others
  BY DEF RedisApply, Inv, TypeOK, Others, Keyed
<1>2. req[r].client \in Clients /\ req[r].sent \in CookieValue
  BY <1>1 DEF RequestState
<1>3. Carries(req[r].client, req[r].sent)
  BY <1>1, <1>2 DEF Carries, Holds
<1>4. req[r].sent \in Ids \cup {None}
  BY <1>1, <1>2, <1>3 DEF Inv, CookieValue, Value
<1>5. q \in RequestState
  BY <1>1, <1>4 DEF RequestState
<1>6. req'[r] = q /\ \A s \in Requests : s # r => req'[s] = req[s]
  BY <1>1
<1>7. /\ q.client = req[r].client /\ q.id = req[r].sent /\ q.sent = req[r].sent
      /\ q.jar = req[r].jar /\ q.saw = req[r].saw /\ q.value = req[r].value
      /\ q.op = req[r].op /\ q.applied = req[r].applied /\ q.pc = "connecting"
  BY <1>1 DEF RequestState
<1> HIDE DEF q
<1>8. TypeOK'
  BY <1>1, <1>5 DEF Inv, TypeOK, Others
<1>9. Local(r) /\ req[r].saw = None /\ ~Done(r) /\ None \notin Requests
  BY <1>1, SessionAssumption DEF Inv, Local, Before, Done
<1>10. Local(r)'
  BY <1>1, <1>6, <1>7, <1>9 DEF Local, Before, Past
<1>11. Carries(req[r].client, req[r].jar)
  BY <1>1, <1>2 DEF Carries, Holds
<1>12. Changes(r)
  BY <1>1, <1>3, <1>6, <1>7, <1>9, <1>11 DEF Changes, MayCarry, Others
<1> QED BY <1>8, <1>10, <1>12, ChangeInv

LEMMA ConnectedInv ==
  ASSUME Inv, NEW r \in Requests, Connected(r)
  PROVE  Inv'
<1>1. req[r].pc = "connecting" /\ UNCHANGED Others
  BY DEF Connected, Others
<1>2. CASE req[r].id = None
  <2>1. Found(r, None, None)
    BY <1>2 DEF Connected
  <2>2. None \in Value /\ None \notin Requests
    BY SessionAssumption DEF Value
  <2> QED BY <1>1, <2>1, <2>2, FoundInv DEF Before
<1>3. CASE req[r].id # None
  <2> DEFINE q == [req[r] EXCEPT !.pc = "fetching"]
  <2>1. req' = [req EXCEPT ![r] = q] /\ req \in [Requests -> RequestState]
    BY <1>3 DEF Connected, Inv, TypeOK
  <2>2. q \in RequestState
    BY <2>1 DEF RequestState
  <2>3. req'[r] = q /\ \A s \in Requests : s # r => req'[s] = req[s]
    BY <2>1
  <2>4. /\ q.client = req[r].client /\ q.id = req[r].id /\ q.sent = req[r].sent
        /\ q.jar = req[r].jar /\ q.saw = req[r].saw /\ q.value = req[r].value
        /\ q.op = req[r].op /\ q.applied = req[r].applied /\ q.pc = "fetching"
        /\ req[r].id \in Ids
    BY <1>3, <2>1 DEF RequestState
  <2> HIDE DEF q
  <2>5. TypeOK'
    BY <1>1, <2>1, <2>2 DEF Inv, TypeOK, Others
  <2>6. Local(r) /\ req[r].saw = None /\ ~Done(r) /\ None \notin Requests
    BY <1>1, SessionAssumption DEF Inv, Local, Before, Done
  <2>7. Local(r)'
    BY <1>1, <2>3, <2>4, <2>6 DEF Local, Before, Past
  <2> QED BY <1>1, <2>3, <2>4, <2>5, <2>6, <2>7, SameInv DEF Others
<1> QED BY <1>2, <1>3

(* A value found under an id is the client's: who stored it and who        *)
(* presents the id carry the same id.                                      *)
LEMMA StoredFor ==
  ASSUME Inv, NEW r \in Requests, req[r].pc # "idle", NEW i \in Ids, i \in {req[r].sent, req[r].id},
         NEW w \in Requests, storage[i] = w
  PROVE  Done(w) /\ (req[w].client = req[r].client \/ Common(i)) /\ req[w].id = i
<1>1. Done(w) /\ req[w].id = i
  BY DEF Inv
<1>2. req[w].client \in Clients /\ req[r].client \in Clients
  BY DEF Inv, TypeOK, RequestState
<1>3. Carries(req[w].client, i) /\ Carries(req[r].client, i)
  BY <1>1, <1>2 DEF Carries, Holds, Done
<1> QED BY <1>1, <1>2, <1>3 DEF Inv

LEMMA MemoryReadInv ==
  ASSUME Inv, NEW r \in Requests, MemoryRead(r)
  PROVE  Inv'
<1>1. req[r].pc = "arrived" /\ UNCHANGED Others /\ req[r].pc \in Before
  BY DEF MemoryRead, Others, Before
<1>2. CASE Found(r, None, None)
  <2>2. None \in Value /\ None \notin Requests
    BY SessionAssumption DEF Value
  <2> QED BY <1>1, <1>2, <2>2, FoundInv
<1>3. CASE req[r].sent \in Ids /\ Found(r, req[r].sent, storage[req[r].sent])
  <2>1. storage[req[r].sent] \in Value
    BY <1>3 DEF Inv, TypeOK
  <2>2. \A w \in Requests : storage[req[r].sent] = w =>
          /\ Done(w) /\ req[w].id = req[r].sent
          /\ req[w].client = req[r].client \/ Common(req[r].sent)
    BY <1>1, <1>3, StoredFor
  <2> QED BY <1>1, <1>3, <2>1, <2>2, FoundInv
<1> QED BY <1>2, <1>3 DEF MemoryRead

LEMMA FetchedInv ==
  ASSUME Inv, NEW r \in Requests, Fetched(r)
  PROVE  Inv'
<1>1. req[r].pc = "fetching" /\ UNCHANGED Others /\ req[r].pc \in Before
  BY DEF Fetched, Others, Before
<1>2. req[r].id \in Ids
  BY <1>1 DEF Inv, Local
<1>3. storage[req[r].id] \in Value
  BY <1>2 DEF Inv, TypeOK
<1>4. Found(r, FoundId(req[r].id), storage[req[r].id])
  BY DEF Fetched
<1>5. FoundId(req[r].id) \in Ids \cup {None} /\ FoundId(req[r].id) \in {None, req[r].id}
  BY <1>2 DEF FoundId
<1>6. \A w \in Requests : storage[req[r].id] = w =>
        /\ Done(w) /\ req[w].id = req[r].id
        /\ req[w].client = req[r].client \/ Common(req[r].id)
  BY <1>1, <1>2, StoredFor
<1>7. \A w \in Requests : storage[req[r].id] = w => FoundId(req[r].id) = req[r].id
  BY SessionAssumption DEF FoundId
<1> QED BY <1>1, <1>2, <1>3, <1>4, <1>5, <1>6, <1>7, FoundInv

LEMMA CookieReadInv ==
  ASSUME Inv, NEW r \in Requests, CookieRead(r)
  PROVE  Inv'
<1>1. req[r].pc = "arrived" /\ UNCHANGED Others /\ req[r].pc \in Before /\ ~Keyed
  BY DEF CookieRead, Others, Before, Keyed
<1>2. req[r].client \in Clients /\ req[r].sent \in CookieValue
  BY DEF Inv, TypeOK, RequestState
<1>3. Carries(req[r].client, req[r].sent)
  BY <1>1, <1>2 DEF Carries, Holds
<1> DEFINE v == Verified(req[r].sent)
<1>4. Found(r, None, v)
  BY DEF CookieRead
<1>5. v \in {None, req[r].sent}
  BY DEF Verified
<1> HIDE DEF v
<1>6. \A w \in Requests : v = w => Done(w) /\ req[w].client = req[r].client
  BY <1>2, <1>3, <1>5, SessionAssumption DEF Inv
<1>7. req[r].sent \notin Ids
  BY <1>1, <1>2, <1>3 DEF Inv
<1>8. v \in Value
  BY <1>2, <1>5, <1>7 DEF CookieValue, Value
<1> QED BY <1>1, <1>4, <1>6, <1>8, FoundInv

LEMMA WritesInv ==
  ASSUME Inv, NEW r \in Requests, MemoryWrite(r) \/ RedisWrite(r) \/ CookieWrite(r)
  PROVE  Inv'
<1>1. req[r].pc = "running" /\ req[r].value \in Value /\ req[r].id \in Ids \cup {None}
      /\ storage \in [Ids -> Value]
  BY DEF MemoryWrite, RedisWrite, CookieWrite, Inv, TypeOK, RequestState
<1>2. None \notin Ids \cup Requests /\ None \in Value
  BY SessionAssumption DEF Value
<1>3. Removal(r) \in {Keep, None}
  BY DEF Removal
<1>4. \A id \in IdFor(r) : id \in Ids /\ (id = req[r].id \/ id \notin used)
      /\ (req[r].id \in Ids => id = req[r].id)
  BY <1>1, <1>2 DEF IdFor
<1>5. CASE Keyed /\ req[r].value # None /\ WriteValue(r)
  <2>1. PICK id \in IdFor(r) : Store(id, req[r].value) /\ Written(r, id, id, "answering")
    BY <1>5 DEF WriteValue
  <2>2. storage' \in [Ids -> Value] /\ id \in CookieValue
    BY <1>1, <1>4, <2>1 DEF Store, CookieValue
  <2>3. \A i \in Ids, w \in Requests :
          storage'[i] = w => storage[i] = w \/ (i = id /\ req[r].value = w)
    BY <1>1, <1>4, <2>1 DEF Store
  <2> QED BY <1>1, <1>4, <1>5, <2>1, <2>2, <2>3, WrittenInv
<1>6. CASE Keyed /\ req[r].id # None /\ RemoveValue(r)
  <2>1. storage' \in [Ids -> Value] /\ Written(r, req[r].id, Removal(r), "answering")
    BY <1>1, <1>2, <1>6 DEF RemoveValue, Store
  <2>2. \A i \in Ids, w \in Requests : storage'[i] = w => storage[i] = w
    BY <1>1, <1>2, <1>6 DEF RemoveValue, Store
  <2>3. Removal(r) \in CookieValue \cup {Keep}
    BY <1>3 DEF CookieValue, Value
  <2> QED BY <1>1, <1>3, <1>6, <2>1, <2>2, <2>3, WrittenInv
<1>7. CASE Keyed /\ req[r].id = None /\ WriteNothing(r)
  <2>1. UNCHANGED storage /\ Written(r, None, Keep, "answering")
    BY <1>7 DEF WriteNothing
  <2> QED BY <1>1, <1>2, <1>7, <2>1, WrittenInv
<1>8. ASSUME NEW id \in IdFor(r), Keyed, Written(r, id, id, "command"), UNCHANGED storage
      PROVE  Inv'
  <2>1. id \in CookieValue
    BY <1>4 DEF CookieValue
  <2> QED BY <1>1, <1>4, <1>8, <2>1, WrittenInv
<1>9. CASE Keyed /\ req[r].id # None /\ Written(r, req[r].id, Removal(r), "command") /\ UNCHANGED storage
  <2>1. Removal(r) \in CookieValue \cup {Keep}
    BY <1>3 DEF CookieValue, Value
  <2> QED BY <1>1, <1>3, <1>9, <2>1, WrittenInv
<1>10. CASE ~Keyed /\ req[r].value # None /\ CookieWriteValue(r) /\ UNCHANGED storage
  <2>1. Written(r, None, req[r].value, "answering") /\ req[r].value \in CookieValue
    BY <1>1, <1>10 DEF CookieWriteValue, CookieValue
  <2> QED BY <1>1, <1>10, <2>1, WrittenInv
<1>11. CASE ~Keyed /\ CookieRemoveValue(r) /\ UNCHANGED storage
  <2>1. Written(r, None, Removal(r), "answering") /\ Removal(r) \in CookieValue \cup {Keep}
    BY <1>3, <1>11 DEF CookieRemoveValue, CookieValue, Value
  <2> QED BY <1>1, <1>3, <1>11, <2>1, WrittenInv
<1>12. CASE MemoryWrite(r)
  BY <1>5, <1>6, <1>7, <1>12 DEF MemoryWrite, Keyed
<1>13. CASE RedisWrite(r)
  BY <1>7, <1>8, <1>9, <1>13 DEF RedisWrite, Keyed
<1>14. CASE CookieWrite(r)
  BY <1>10, <1>11, <1>14 DEF CookieWrite, Keyed
<1> QED BY <1>12, <1>13, <1>14

LEMMA ClosingType ==
  ASSUME NEW s \in RequestState, NEW pc \in {"executed", "answered", "lost"}, NEW a \in BOOLEAN
  PROVE  [s EXCEPT !.pc = pc, !.applied = a] \in RequestState
BY DEF RequestState

(* A step that changes no more of a request than its pc and applied.       *)
LEMMA ClosingInv ==
  ASSUME Inv, NEW r \in Requests, req[r].pc # "idle",
         NEW pc \in {"executed", "answered", "lost"}, NEW a \in BOOLEAN,
         req' = [req EXCEPT ![r].pc = pc, ![r].applied = a],
         req[r].applied => a, UNCHANGED <<orderly, backend, used>>,
         pc = "executed" => Keyed /\ req[r].id \in Ids,
         storage' \in [Ids -> Value], cookies' \in [Clients -> [Dirs -> CookieValue]],
         \A c \in Clients, d \in Dirs :
           \/ cookies'[c][d] = cookies[c][d]
           \/ c = req[r].client /\ Carries(c, cookies'[c][d]),
         \A i \in Ids, w \in Requests :
           storage'[i] = w => storage[i] = w \/ (i = req[r].id /\ req[r].value = w /\ a /\ Keyed)
  PROVE  Inv'
<1> DEFINE q == [req[r] EXCEPT !.pc = pc, !.applied = a]
<1>1. req' = [req EXCEPT ![r] = q] /\ req \in [Requests -> RequestState]
  BY DEF Inv, TypeOK
<1>2. q \in RequestState
  BY <1>1, ClosingType
<1>3. req'[r] = q /\ \A s \in Requests : s # r => req'[s] = req[s]
  BY <1>1
<1>4. /\ q.client = req[r].client /\ q.id = req[r].id /\ q.sent = req[r].sent
      /\ q.jar = req[r].jar /\ q.saw = req[r].saw /\ q.value = req[r].value
      /\ q.op = req[r].op /\ q.applied = a /\ q.pc = pc
  BY <1>1 DEF RequestState
<1> HIDE DEF q
<1>5. TypeOK'
  <2>1. req' \in [Requests -> RequestState]
    BY <1>1, <1>2
  <2>2. TypeOK
    BY DEF Inv
  <2> QED BY <2>1, <2>2 DEF TypeOK
<1>6. ASSUME NEW w \in Requests, Done(w)
      PROVE  Done(w)' /\ req'[w].client = req[w].client /\ req'[w].id = req[w].id
  <2>1. CASE w = r
    BY <1>3, <1>4, <1>6, <2>1 DEF Done
  <2>2. CASE w # r
    BY <1>3, <1>6, <2>2 DEF Done
  <2> QED BY <2>1, <2>2
<1>7. Local(r) /\ Keyed' = Keyed /\ \A i : Common(i)' = Common(i)
  BY DEF Inv, Keyed, Common
<1>8. Local(r)'
  <2>1. /\ req'[r].pc \in {"executed", "answered", "lost"} /\ req'[r].id = req[r].id
        /\ req'[r].saw = req[r].saw /\ req'[r].value = req[r].value /\ req'[r].op = req[r].op
        /\ req'[r].client = req[r].client
        /\ req'[r].pc = "executed" => Keyed /\ req[r].id \in Ids
    BY <1>3, <1>4
  <2>2. req'[r].pc \in Past /\ req'[r].pc \notin Before \cup {"idle", "fetching", "command"}
    BY <2>1 DEF Before, Past
  <2>3. \A w \in Requests :
          req'[r].saw = w =>
            /\ Done(w)' /\ (req'[w].client = req'[r].client \/ Common(req[r].id)')
            /\ Keyed' => req'[r].id \in Ids /\ req'[w].id = req'[r].id
    <3> SUFFICES ASSUME NEW w \in Requests, req'[r].saw = w
                 PROVE  /\ Done(w)' /\ (req'[w].client = req'[r].client \/ Common(req[r].id)')
                        /\ Keyed' => req'[r].id \in Ids /\ req'[w].id = req'[r].id
      OBVIOUS
    <3>1. /\ Done(w) /\ (req[w].client = req[r].client \/ Common(req[r].id))
          /\ Keyed => req[r].id \in Ids /\ req[w].id = req[r].id
      BY <1>7, <2>1 DEF Local
    <3> QED BY <1>6, <1>7, <2>1, <3>1
  <2>4. req'[r].value \in {req'[r].saw, r, None} /\ (req'[r].value = r => req'[r].op = "set")
    BY <1>7, <2>1 DEF Local
  <2> QED BY <1>7, <2>1, <2>2, <2>3, <2>4 DEF Local, Before
<1>9. ASSUME NEW w \in Requests, req[r].value = w, a, Keyed PROVE Done(w)' /\ req'[w].id = req[r].id
  <2>1. CASE w = r
    BY <1>3, <1>4, <1>7, <1>9, <2>1 DEF Local, Done
  <2>2. CASE w # r
    <3>1. req[r].saw = w
      BY <1>7, <1>9, <2>2, SessionAssumption DEF Local
    <3> QED BY <1>6, <1>7, <1>9, <3>1 DEF Local
  <2> QED BY <2>1, <2>2
<1>10. ASSUME NEW i \in Ids, NEW w \in Requests, storage'[i] = w, storage[i] # w
       PROVE  Done(w)' /\ req'[w].id = i
  <2>1. i = req[r].id /\ req[r].value = w /\ a /\ Keyed
    BY <1>10
  <2> QED BY <1>9, <2>1
<1>11. \A i \in Ids, w \in Requests : storage'[i] = w => storage[i] = w \/ (Done(w)' /\ req'[w].id = i)
  BY <1>10
<1> QED BY <1>3, <1>4, <1>5, <1>6, <1>8, <1>11, SameInv

LEMMA ExecutedInv ==
  ASSUME Inv, NEW r \in Requests, Executed(r)
  PROVE  Inv'
<1> DEFINE pc == "executed"
<1> DEFINE a == TRUE
<1>1. Keyed /\ req[r].id \in Ids /\ req[r].value \in Value /\ storage \in [Ids -> Value]
      /\ cookies \in [Clients -> [Dirs -> CookieValue]]
  BY DEF Executed, Inv, Local, TypeOK, RequestState
<1>2. /\ req[r].pc # "idle" /\ UNCHANGED <<orderly, backend, used>> /\ cookies' = cookies
      /\ req' = [req EXCEPT ![r].pc = pc, ![r].applied = a]
  BY DEF Executed
<1>3. storage' \in [Ids -> Value] /\ cookies' \in [Clients -> [Dirs -> CookieValue]]
  BY <1>1, <1>2 DEF Executed, Store
<1>4. \A i \in Ids, w \in Requests :
        storage'[i] = w => storage[i] = w \/ (i = req[r].id /\ req[r].value = w /\ a /\ Keyed)
  BY <1>1 DEF Executed, Store
<1>5. \A c \in Clients, d \in Dirs : cookies'[c][d] = cookies[c][d]
  BY <1>2
<1>6. /\ pc \in {"executed", "answered", "lost"} /\ a \in BOOLEAN /\ (req[r].applied => a)
      /\ (pc = "executed" => Keyed /\ req[r].id \in Ids)
  BY <1>1
<1> HIDE DEF pc, a
<1> QED BY <1>2, <1>3, <1>4, <1>5, <1>6, ClosingInv

LEMMA DeliverInv ==
  ASSUME Inv, NEW r \in Requests, Deliver(r)
  PROVE  Inv'
<1> DEFINE pc == "answered"
<1> DEFINE a == req[r].applied
<1>1. req[r].client \in Clients /\ req[r].dir \in Dirs /\ req[r].jar \in CookieValue \cup {Keep}
      /\ cookies \in [Clients -> [Dirs -> CookieValue]] /\ req \in [Requests -> RequestState]
      /\ req[r].applied \in BOOLEAN /\ storage \in [Ids -> Value]
  BY DEF Inv, TypeOK, RequestState
<1>2. Scope(r) \in Dirs
  BY <1>1, SessionAssumption DEF Scope
<1>3. req[r].pc # "idle" /\ UNCHANGED <<orderly, backend, storage, used>>
  BY DEF Deliver
<1>4. Carries(req[r].client, req[r].jar)
  BY <1>1, <1>3 DEF Carries, Holds
<1>5. cookies' \in [Clients -> [Dirs -> CookieValue]]
  BY <1>1, <1>2 DEF Deliver
<1>6. ASSUME NEW c \in Clients, NEW d \in Dirs
      PROVE  cookies'[c][d] = cookies[c][d] \/ (c = req[r].client /\ cookies'[c][d] = req[r].jar)
  BY <1>1, <1>2 DEF Deliver
<1>7. req' = [req EXCEPT ![r].pc = pc, ![r].applied = a]
  BY <1>1 DEF Deliver, RequestState
<1>8. \A c \in Clients, d \in Dirs :
        cookies'[c][d] = cookies[c][d] \/ (c = req[r].client /\ Carries(c, cookies'[c][d]))
  BY <1>4, <1>6
<1>9. pc \in {"executed", "answered", "lost"} /\ pc # "executed" /\ a \in BOOLEAN
      /\ (req[r].applied => a) /\ storage' \in [Ids -> Value]
  BY <1>1, <1>3
<1> HIDE DEF pc, a
<1> QED BY <1>3, <1>5, <1>7, <1>8, <1>9, ClosingInv

LEMMA LoseInv ==
  ASSUME Inv, NEW r \in Requests, Lose(r)
  PROVE  Inv'
<1>1. req \in [Requests -> RequestState] /\ storage' \in [Ids -> Value]
      /\ cookies' \in [Clients -> [Dirs -> CookieValue]] /\ req[r].applied \in BOOLEAN
  BY DEF Lose, Inv, TypeOK, RequestState
<1>2. req[r].pc # "idle" /\ UNCHANGED <<orderly, backend, cookies, storage, used>>
  BY DEF Lose, Active
<1>3. req' = [req EXCEPT ![r].pc = "lost", ![r].applied = req[r].applied]
  BY <1>1 DEF Lose, RequestState
<1> QED BY <1>1, <1>2, <1>3, ClosingInv

LEMMA ExpireInv ==
  ASSUME Inv, NEW i \in Ids, Expire(i)
  PROVE  Inv'
<1>1. UNCHANGED <<orderly, backend, cookies, used, req>>
      /\ storage' = [storage EXCEPT ![i] = None] /\ storage \in [Ids -> Value]
  BY DEF Expire, Inv, TypeOK
<1>2. None \in Value /\ None \notin Requests
  BY SessionAssumption DEF Value
<1>3. storage' \in [Ids -> Value]
  BY <1>1, <1>2
<1>4. \A j \in Ids, w \in Requests : storage'[j] = w => storage[j] = w
  BY <1>1, <1>2
<1>5. TypeOK'
  BY <1>1, <1>3 DEF Inv, TypeOK
<1>6. \A s \in Requests : Local(s)'
  BY <1>1 DEF Inv, Local, Done, Keyed, Common
<1> QED BY <1>1, <1>4, <1>5, <1>6 DEF Inv, Carries, Holds, Done, Keyed, Common

LEMMA RestartInv ==
  ASSUME Inv, Restart
  PROVE  Inv'
<1>1. /\ UNCHANGED <<orderly, backend, cookies, used>> /\ req \in [Requests -> RequestState]
      /\ req' = [r \in Requests |-> IF Active(r) THEN [req[r] EXCEPT !.pc = "lost"] ELSE req[r]]
      /\ storage' = [i \in Ids |-> None] \/ storage' = storage
  BY DEF Restart, Inv, TypeOK
<1>2. None \in Value /\ None \notin Requests
  BY SessionAssumption DEF Value
<1>3. \A r \in Requests :
        /\ req'[r] \in RequestState
        /\ req'[r].client = req[r].client /\ req'[r].id = req[r].id /\ req'[r].sent = req[r].sent
        /\ req'[r].jar = req[r].jar /\ req'[r].saw = req[r].saw /\ req'[r].value = req[r].value
        /\ req'[r].op = req[r].op /\ req'[r].applied = req[r].applied
        /\ req'[r].pc = req[r].pc \/ (req[r].pc # "idle" /\ req'[r].pc = "lost")
  <2> SUFFICES ASSUME NEW r \in Requests
               PROVE  /\ req'[r] \in RequestState
                      /\ req'[r].client = req[r].client /\ req'[r].id = req[r].id /\ req'[r].sent = req[r].sent
                      /\ req'[r].jar = req[r].jar /\ req'[r].saw = req[r].saw /\ req'[r].value = req[r].value
                      /\ req'[r].op = req[r].op /\ req'[r].applied = req[r].applied
                      /\ req'[r].pc = req[r].pc \/ (req[r].pc # "idle" /\ req'[r].pc = "lost")
    OBVIOUS
  <2>1. req[r] \in RequestState
    BY <1>1
  <2>2. CASE Active(r)
    <3>1. req'[r] = [req[r] EXCEPT !.pc = "lost"] /\ req[r].pc # "idle"
      BY <1>1, <2>2 DEF Active
    <3> QED BY <2>1, <3>1 DEF RequestState
  <2>3. CASE ~Active(r)
    BY <1>1, <2>1, <2>3
  <2> QED BY <2>2, <2>3
<1>4. TypeOK'
  <2>1. req' \in [Requests -> RequestState]
    BY <1>1, <1>3
  <2>2. storage' \in [Ids -> Value]
    BY <1>1, <1>2 DEF Inv, TypeOK
  <2> QED BY <1>1, <2>1, <2>2 DEF Inv, TypeOK
<1>5. \A i \in Ids, w \in Requests : storage'[i] = w => storage[i] = w
  BY <1>1, <1>2
<1>6. \A w \in Requests : Done(w) => Done(w)'
  BY <1>3 DEF Done
<1>7. \A c \in Clients : \A v : Carries(c, v)' => Carries(c, v)
  BY <1>1, <1>3 DEF Carries, Holds
<1>8. \A s \in Requests : Local(s)'
  <2> TAKE s \in Requests
  <2>1. Local(s) /\ Keyed' = Keyed /\ \A i : Common(i)' = Common(i)
    BY <1>1 DEF Inv, Keyed, Common
  <2> QED BY <1>3, <1>6, <2>1 DEF Local, Before, Past
<1> QED BY <1>1, <1>3, <1>4, <1>5, <1>6, <1>7, <1>8 DEF Inv, Keyed, Common

LEMMA StepInv == Inv /\ [Next]_vars => Inv'
<1> SUFFICES ASSUME Inv, [Next]_vars PROVE Inv'
  OBVIOUS
<1>1. ASSUME NEW r \in Requests, NEW c \in Clients, NEW d \in Dirs, Send(r, c, d)
      PROVE  Inv'
  BY <1>1, SendInv
<1>2. ASSUME NEW r \in Requests, Reading(r) PROVE Inv'
  <2>1. CASE BadId(r) \/ ReadFails(r)
    <3>1. Answer(r, FALSE) /\ req[r].pc # "idle" /\ UNCHANGED Others
      BY <2>1 DEF BadId, ReadFails, Others
    <3> QED BY <3>1, AnswerInv
  <2> QED BY <1>2, <2>1, MemoryReadInv, RedisApplyInv, ConnectedInv, FetchedInv, CookieReadInv
          DEF Reading
<1>3. ASSUME NEW r \in Requests, Writing(r) PROVE Inv'
  <2>1. CASE HandlerFails(r) \/ CommandFails(r)
    <3>1. Answer(r, FALSE) /\ req[r].pc # "idle" /\ UNCHANGED Others
      BY <2>1 DEF HandlerFails, CommandFails, Others
    <3> QED BY <3>1, AnswerInv
  <2>2. CASE Replied(r)
    <3>1. Answer(r, TRUE) /\ req[r].pc # "idle" /\ UNCHANGED Others
      BY <2>2 DEF Replied, Others
    <3> QED BY <3>1, AnswerInv
  <2> QED BY <1>3, <2>1, <2>2, WritesInv, ExecutedInv DEF Writing
<1>4. ASSUME NEW r \in Requests, NEW op \in {"keep", "set", "remove"}, Handle(r, op) PROVE Inv'
  BY <1>4, HandleInv
<1>5. ASSUME NEW r \in Requests, Deliver(r) \/ Lose(r) PROVE Inv'
  BY <1>5, DeliverInv, LoseInv
<1>6. ASSUME NEW i \in Ids, Expire(i) PROVE Inv'
  BY <1>6, ExpireInv
<1>7. CASE Restart
  BY <1>7, RestartInv
<1>8. CASE UNCHANGED vars
  BY <1>8 DEF vars, Inv, TypeOK, Local, Carries, Holds, Done, Keyed, Common
<1> QED BY <1>1, <1>2, <1>3, <1>4, <1>5, <1>6, <1>7, <1>8 DEF Next

(* Whatever the order of the requests, and with every fault of the model:  *)
(* ids are handed out once and stay with one client, but for those several *)
(* clients came with, and a value is stored under the id of the request    *)
(* that wrote it (in_memory.rs:84-97, 139-150, redis.rs:312-343).          *)
THEOREM Invariance == Spec => []Inv
<1> QED BY InitInv, StepInv, PTL DEF Spec

(* The variables of Session, the fields of its RawSessions and the cookies *)
(* it sets keep their types.                                               *)
THEOREM TypeCorrect == Spec => []TypeOK
<1>1. Inv => TypeOK
  BY DEF Inv
<1> QED BY <1>1, Invariance, PTL

(* Of the ids clients came with, Redis keeps no value and no request has   *)
(* one beyond the reading of the session; and a request has such an id for *)
(* no other reason than that it has sent it.                               *)
Own(r) ==
  req[r].id \in Brought =>
    /\ req[r].sent = req[r].id
    /\ backend = "redis" => /\ req[r].op = "none"
                            /\ req[r].pc \notin {"handler", "running", "command", "executed"}

BroughtInv ==
  /\ Keyed => Brought \subseteq used
  /\ backend = "redis" => \A i \in Brought : storage[i] = None
  /\ \A r \in Requests : Own(r)

LEMMA BroughtStep ==
  ASSUME BroughtInv, UNCHANGED <<orderly, backend>>, used \subseteq used', NEW r \in Requests,
         \A s \in Requests : s # r => req'[s] = req[s],
         backend = "redis" => \A i \in Brought : storage'[i] \in {storage[i], None},
         Own(r)'
  PROVE  BroughtInv'
<1>1. \A s \in Requests : s # r => Own(s)'
  BY DEF BroughtInv, Own
<1>2. (Keyed => Brought \subseteq used)'
  BY DEF BroughtInv, Keyed
<1> QED BY <1>1, <1>2 DEF BroughtInv

LEMMA ReadingBrought ==
  ASSUME Inv, BroughtInv, NEW r \in Requests, Reading(r)
  PROVE  BroughtInv'
<1>1. /\ req \in [Requests -> RequestState] /\ UNCHANGED <<orderly, backend, used, storage>>
      /\ None \notin Brought /\ Brought \subseteq Ids
  BY SessionAssumption
     DEF Inv, TypeOK, Reading, BadId, MemoryRead, RedisApply, Connected, Fetched, ReadFails, CookieRead
<1>2. req[r] \in RequestState /\ Own(r)
  BY <1>1 DEF BroughtInv
<1>3. ASSUME NEW i \in Ids \cup {None}, NEW v, Found(r, i, v), i \in Brought => req[r].sent = i /\ backend # "redis"
      PROVE  BroughtInv'
  <2>1. /\ req'[r].id = i /\ req'[r].sent = req[r].sent
        /\ \A s \in Requests : s # r => req'[s] = req[s]
    BY <1>1, <1>2, <1>3 DEF Found, RequestState
  <2>2. Own(r)'
    BY <1>1, <1>3, <2>1 DEF Own
  <2> QED BY <1>1, <2>1, <2>2, BroughtStep
<1>4. CASE BadId(r) \/ ReadFails(r)
  <2>1. Answer(r, FALSE)
    BY <1>4 DEF BadId, ReadFails
  <2>2. /\ req'[r].id = req[r].id /\ req'[r].sent = req[r].sent /\ req'[r].op = req[r].op
        /\ req'[r].pc = "answering" /\ \A s \in Requests : s # r => req'[s] = req[s]
    BY <1>1, <1>2, <2>1 DEF Answer, RequestState
  <2>3. Own(r)'
    BY <1>1, <1>2, <2>2 DEF Own
  <2> QED BY <1>1, <2>2, <2>3, BroughtStep
<1>5. CASE MemoryRead(r)
  BY <1>1, <1>3, <1>5 DEF MemoryRead
<1>6. CASE RedisApply(r)
  <2>1. /\ req'[r].id = req[r].sent /\ req'[r].sent = req[r].sent /\ req'[r].op = req[r].op
        /\ req'[r].pc = "connecting" /\ \A s \in Requests : s # r => req'[s] = req[s]
    BY <1>1, <1>2, <1>6 DEF RedisApply, RequestState
  <2>2. req[r].op = "none"
    BY <1>6 DEF RedisApply, Inv, Local, Before
  <2>3. Own(r)'
    BY <1>1, <2>1, <2>2 DEF Own
  <2> QED BY <1>1, <2>1, <2>3, BroughtStep
<1>7. CASE Connected(r)
  <2>1. CASE req[r].id = None
    BY <1>1, <1>3, <1>7, <2>1 DEF Connected
  <2>2. CASE req[r].id # None
    <3>1. /\ req'[r].id = req[r].id /\ req'[r].sent = req[r].sent /\ req'[r].op = req[r].op
          /\ req'[r].pc = "fetching" /\ \A s \in Requests : s # r => req'[s] = req[s]
      BY <1>1, <1>2, <1>7, <2>2 DEF Connected, RequestState
    <3>2. Own(r)'
      BY <1>1, <1>2, <3>1 DEF Own
    <3> QED BY <1>1, <3>1, <3>2, BroughtStep
  <2> QED BY <2>1, <2>2
<1>8. CASE Fetched(r)
  <2>1. req[r].id \in Ids
    BY <1>8 DEF Fetched, Inv, Local
  <2>2. FoundId(req[r].id) \in Ids \cup {None} /\ FoundId(req[r].id) \in {None, req[r].id}
    BY <2>1 DEF FoundId
  <2>3. FoundId(req[r].id) \in Brought => req[r].sent = FoundId(req[r].id) /\ backend # "redis"
    BY <1>1, <1>2, <2>1, <2>2 DEF FoundId, BroughtInv, Own
  <2> QED BY <1>3, <1>8, <2>2, <2>3 DEF Fetched
<1>9. CASE CookieRead(r)
  BY <1>1, <1>3, <1>9 DEF CookieRead
<1> QED BY <1>4, <1>5, <1>6, <1>7, <1>8, <1>9 DEF Reading

LEMMA WritingBrought ==
  ASSUME Inv, BroughtInv, NEW r \in Requests, Writing(r)
  PROVE  BroughtInv'
<1>1. /\ req \in [Requests -> RequestState] /\ UNCHANGED <<orderly, backend>>
      /\ None \notin Brought /\ Brought \subseteq Ids
  BY SessionAssumption
     DEF Inv, TypeOK, Writing, HandlerFails, MemoryWrite, CookieWrite, RedisWrite, Executed, Replied,
         CommandFails, WriteValue, RemoveValue, WriteNothing, CookieWriteValue, CookieRemoveValue, Written
<1>2. req[r] \in RequestState /\ Own(r) /\ Local(r)
  BY <1>1 DEF BroughtInv, Inv
<1>3. ASSUME NEW id \in Ids \cup {None}, NEW jar, NEW pc, Written(r, id, jar, pc), req[r].pc = "running",
             id \in Brought => id = req[r].id, UNCHANGED storage \/ backend # "redis"
      PROVE  BroughtInv'
  <2>1. /\ req'[r].id = id /\ req'[r].sent = req[r].sent /\ used \subseteq used'
        /\ \A s \in Requests : s # r => req'[s] = req[s]
    BY <1>1, <1>2, <1>3 DEF Written, RequestState
  <2>2. Own(r)'
    BY <1>1, <1>2, <1>3, <2>1 DEF Own
  <2> QED BY <1>1, <1>3, <2>1, <2>2, BroughtStep
<1>4. ASSUME NEW ok, Answer(r, ok), UNCHANGED <<storage, used>> PROVE BroughtInv'
  <2>1. /\ req'[r].id = req[r].id /\ req'[r].sent = req[r].sent /\ req'[r].op = req[r].op
        /\ req'[r].pc = "answering" /\ \A s \in Requests : s # r => req'[s] = req[s]
    BY <1>1, <1>2, <1>4 DEF Answer, RequestState
  <2>2. Own(r)'
    BY <1>1, <1>2, <2>1 DEF Own
  <2> QED BY <1>1, <1>4, <2>1, <2>2, BroughtStep
<1>5. CASE HandlerFails(r) \/ Replied(r) \/ CommandFails(r)
  BY <1>4, <1>5 DEF HandlerFails, Replied, CommandFails
<1>6. ASSUME Keyed PROVE \A id \in IdFor(r) : id \in Ids /\ (id \in Brought => id = req[r].id)
  BY <1>2, <1>6 DEF IdFor, BroughtInv, RequestState
<1>7. req[r].id \in Ids \cup {None} /\ None \in Ids \cup {None}
  BY <1>2 DEF RequestState
<1>8. CASE MemoryWrite(r)
  <2>1. Keyed /\ req[r].pc = "running" /\ backend # "redis"
    BY <1>8 DEF MemoryWrite, Keyed
  <2> QED BY <1>1, <1>3, <1>6, <1>7, <1>8, <2>1 DEF MemoryWrite, WriteValue, RemoveValue, WriteNothing
<1>9. CASE RedisWrite(r)
  <2>1. Keyed /\ req[r].pc = "running"
    BY <1>9 DEF RedisWrite, Keyed
  <2> QED BY <1>1, <1>3, <1>6, <1>7, <1>9, <2>1 DEF RedisWrite, WriteNothing
<1>10. CASE CookieWrite(r)
  BY <1>1, <1>3, <1>7, <1>10 DEF CookieWrite, CookieWriteValue, CookieRemoveValue
<1>11. CASE Executed(r)
  <2>1. /\ req'[r].id = req[r].id /\ req'[r].sent = req[r].sent /\ req'[r].op = req[r].op
        /\ req'[r].pc = "executed" /\ \A s \in Requests : s # r => req'[s] = req[s]
        /\ used' = used /\ req[r].pc = "command"
    BY <1>1, <1>2, <1>11 DEF Executed, RequestState
  <2>2. Own(r)'
    BY <1>1, <1>2, <2>1 DEF Own
  <2>3. backend = "redis" => \A i \in Brought : storage'[i] = storage[i]
    BY <1>1, <1>2, <1>11, <2>1 DEF Executed, Store, Own, Inv, TypeOK
  <2> QED BY <1>1, <2>1, <2>2, <2>3, BroughtStep
<1> QED BY <1>5, <1>8, <1>9, <1>10, <1>11 DEF Writing

LEMMA BroughtKept == Inv /\ BroughtInv /\ [Next]_vars => BroughtInv'
<1> SUFFICES ASSUME Inv, BroughtInv, [Next]_vars PROVE BroughtInv'
  OBVIOUS
<1>0. /\ req \in [Requests -> RequestState] /\ storage \in [Ids -> Value]
      /\ None \notin Brought /\ Brought \subseteq Ids
  BY SessionAssumption DEF Inv, TypeOK
<1>1. ASSUME NEW r \in Requests, NEW c \in Clients, NEW d \in Dirs, Send(r, c, d) PROVE BroughtInv'
  <2>1. /\ req'[r].id = None /\ \A s \in Requests : s # r => req'[s] = req[s]
        /\ UNCHANGED <<orderly, backend, used, storage>>
    BY <1>0, <1>1 DEF Send, Fresh
  <2>2. Own(r)'
    BY <1>0, <2>1 DEF Own
  <2> QED BY <2>1, <2>2, BroughtStep
<1>2. ASSUME NEW r \in Requests, NEW op \in {"keep", "set", "remove"}, Handle(r, op) PROVE BroughtInv'
  <2>1. /\ req'[r].id = req[r].id /\ req'[r].sent = req[r].sent /\ req[r].pc = "handler"
        /\ \A s \in Requests : s # r => req'[s] = req[s]
        /\ UNCHANGED <<orderly, backend, used, storage>>
    BY <1>0, <1>2 DEF Handle, RequestState
  <2>2. Own(r)'
    BY <2>1 DEF BroughtInv, Own
  <2> QED BY <2>1, <2>2, BroughtStep
<1>3. ASSUME NEW r \in Requests, Deliver(r) \/ Lose(r) PROVE BroughtInv'
  <2>1. /\ req'[r].id = req[r].id /\ req'[r].sent = req[r].sent /\ req'[r].op = req[r].op
        /\ req'[r].pc \in {"answered", "lost"} /\ \A s \in Requests : s # r => req'[s] = req[s]
        /\ UNCHANGED <<orderly, backend, used, storage>>
    BY <1>0, <1>3 DEF Deliver, Lose, RequestState
  <2>2. Own(r)'
    BY <2>1 DEF BroughtInv, Own
  <2> QED BY <2>1, <2>2, BroughtStep
<1>4. ASSUME NEW i \in Ids, Expire(i) PROVE BroughtInv'
  <2>1. UNCHANGED <<orderly, backend, used, req>> /\ \A j \in Ids : storage'[j] \in {storage[j], None}
    BY <1>0, <1>4 DEF Expire
  <2> QED BY <1>0, <2>1 DEF BroughtInv, Own, Keyed
<1>5. CASE Restart
  <2>1. UNCHANGED <<orderly, backend, used>> /\ \A j \in Ids : storage'[j] \in {storage[j], None}
    BY <1>0, <1>5 DEF Restart
  <2>2. ASSUME NEW r \in Requests PROVE Own(r)'
    <3>1. req'[r] = IF Active(r) THEN [req[r] EXCEPT !.pc = "lost"] ELSE req[r]
      BY <1>5 DEF Restart
    <3>2. /\ req'[r].id = req[r].id /\ req'[r].sent = req[r].sent /\ req'[r].op = req[r].op
          /\ req'[r].pc \in {req[r].pc, "lost"}
      BY <1>0, <3>1 DEF RequestState
    <3> QED BY <2>1, <3>2 DEF BroughtInv, Own
  <2> QED BY <1>0, <2>1, <2>2 DEF BroughtInv, Keyed
<1>6. CASE UNCHANGED vars
  BY <1>6 DEF vars, BroughtInv, Own, Keyed
<1> QED BY <1>1, <1>2, <1>3, <1>4, <1>5, <1>6, ReadingBrought, WritingBrought DEF Next

(* No client is served with the value of another one, unless both have     *)
(* sent the in-memory backend the same id, and one it has not handed out   *)
(* (RawSession::write and the `apply` of each endpoint).                   *)
THEOREM NoOtherClient == Spec => []Isolation
<1>1. Init => BroughtInv
  <2> SUFFICES ASSUME Init PROVE BroughtInv
    OBVIOUS
  <2>1. PICK c \in Clients : req = [r \in Requests |-> Fresh(c, Root)]
    BY DEF Init
  <2>2. \A r \in Requests : Own(r)
    BY <2>1, SessionAssumption DEF Own, Fresh
  <2> QED BY <2>2, SessionAssumption DEF Init, BroughtInv, Keyed
<1>2. Inv /\ BroughtInv => Isolation
  <2> SUFFICES ASSUME Inv, BroughtInv, NEW r \in Requests, NEW w \in Requests, req[r].saw = w,
                      req[w].client # req[r].client
               PROVE  Shared(r, w)
    BY DEF Isolation
  <2>1. Local(r) /\ Own(r) /\ Own(w)
    BY DEF Inv, BroughtInv
  <2>2. Done(w) /\ Common(req[r].id) /\ req[w].id = req[r].id
    BY <2>1 DEF Local, Common
  <2> QED BY <2>1, <2>2 DEF Own, Common, Done, Keyed, Shared
<1> QED BY <1>1, <1>2, BroughtKept, Invariance, PTL DEF Spec

(* A session found was written by a handler that succeeded, and its write  *)
(* was applied: `Session::with` writes the value only after the future of  *)
(* the handler (session.rs:57-60).                                         *)
THEOREM Committed == Spec => []OnlyCommitted
<1>1. Inv => OnlyCommitted
  BY DEF Inv, Local, OnlyCommitted, Done
<1> QED BY <1>1, Invariance, PTL

(*------------------------------ orderly use ------------------------------*)

(* A request is open once it has read the session.                         *)
Reads(r) == req[r].op # "none" \/ req[r].pc = "handler"

(* What a request finds with the cookie v.                                 *)
Shown(v) ==
  IF v \in Ids THEN storage[v]
  ELSE IF backend \in {"memory", "redis"} THEN None ELSE Verified(v)

(* A client has one request in progress.                                   *)
OneEach ==
  \A r, s \in Requests : Active(r) /\ Active(s) /\ req[r].client = req[s].client => r = s

(* Of a request that has read its session from memory or Redis: the cookie *)
(* shows what it found, unless that has expired; its id is that of the     *)
(* cookie, or it has none and found nothing; a removal leaves nothing.     *)
KeyedTurn(r) ==
  LET q == req[r]
  IN /\ q.sent \in Ids \cup {None}
     /\ q.pc \in {"handler", "running"} =>
          /\ Shown(q.sent) \in {q.saw, None}
          /\ \/ q.id = q.sent /\ q.id # None
             \/ q.id = None /\ Shown(q.sent) = None /\ q.saw = None
     /\ q.jar # Keep => \/ q.jar = q.sent
                        \/ q.jar = None /\ Shown(q.sent) \in {q.saw, None}
                        \/ Shown(q.sent) = None /\ q.saw = None
     /\ q.pc \in {"command", "executed"} => q.jar = IF q.value = None THEN None ELSE q.id
     /\ q.pc = "command" /\ q.value = None => q.applied

(* The same of the cookie backend.                                         *)
CookieTurn(r) ==
  LET q == req[r]
  IN /\ q.saw = Verified(q.sent)
     /\ q.jar \in {Keep, None, q.saw, r}
     /\ q.pc = "answering" /\ q.ok /\ q.op = "remove" /\ q.sent # None => q.jar = None

(* What holds of a request in orderly use.                                 *)
Turn(r) ==
  LET q == req[r]
  IN /\ q.dir = Root
     /\ q.pc \in Before \cup {"running"} => q.jar = Keep /\ ~q.applied
     /\ Active(r) => q.sent = cookies[q.client][Root]
     /\ q.pc \in {"connecting", "fetching"} => Keyed /\ q.id = q.sent /\ q.sent # Junk
     /\ q.pc \in {"running", "command", "executed"} => q.op # "none"
     /\ q.pc = "executed" => q.applied
     /\ q.pc = "answering" /\ q.ok => q.op # "none" /\ q.applied
     /\ q.pc = "answering" /\ q.op = "none" => q.jar = Keep
     /\ q.op = "remove" => q.value = None
     /\ Active(r) /\ Reads(r) => IF Keyed THEN KeyedTurn(r) ELSE CookieTurn(r)

(* What a removal promises, before and after its answer.                   *)
Removed(r) ==
  req[r].op = "remove" /\ req[r].saw \in Requests =>
    /\ Keyed /\ (req[r].pc = "executed" \/ (req[r].pc \in {"answering", "answered"} /\ req[r].ok))
         => ~KeptValue(req[r].saw)
    /\ req[r].pc = "answered" /\ req[r].ok =>
         /\ ~KeptValue(req[r].saw) /\ ~Active(req[r].saw)
         /\ \A s \in Requests : Active(s) => req[s].saw # req[r].saw

(* The inductive invariant of orderly use.                                 *)
OrderInv ==
  /\ \A i \in Ids : storage[i] # None => i \in used
  /\ IsFiniteSet({r \in Requests : req[r].pc # "idle"})
  /\ orderly => /\ OneEach
                /\ \A c \in Clients, d \in Dirs : d # Root => cookies[c][d] \notin Requests
                /\ \A r \in Requests : Turn(r) /\ Removed(r)

(* The fields of r after a step, the other requests as they were.          *)
Becomes(r, pc, id, value, saw, op, jar, ok, applied) ==
  /\ \A s \in Requests : s # r => req'[s] = req[s]
  /\ req'[r].client = req[r].client /\ req'[r].dir = req[r].dir /\ req'[r].sent = req[r].sent
  /\ req'[r].pc = pc /\ req'[r].id = id /\ req'[r].value = value /\ req'[r].saw = saw
  /\ req'[r].op = op /\ req'[r].jar = jar /\ req'[r].ok = ok /\ req'[r].applied = applied

(* A step that changes the pc alone.                                       *)
Now(r, pc) ==
  Becomes(r, pc, req[r].id, req[r].value, req[r].saw, req[r].op, req[r].jar, req[r].ok,
          req[r].applied)

(* A request that has read its session waits for the handler.              *)
LEMMA FoundBecomes ==
  ASSUME TypeOK, NEW r \in Requests, NEW id, NEW value, Found(r, id, value)
  PROVE  Becomes(r, "handler", id, value, value, req[r].op, req[r].jar, req[r].ok, req[r].applied)
BY DEF Found, Becomes, TypeOK, RequestState

(* An answer changes the pc and ok alone.                                  *)
LEMMA AnswerBecomes ==
  ASSUME TypeOK, NEW r \in Requests, NEW ok, Answer(r, ok)
  PROVE  Becomes(r, "answering", req[r].id, req[r].value, req[r].saw, req[r].op, req[r].jar, ok,
                 req[r].applied)
BY DEF Answer, Becomes, TypeOK, RequestState

(* The handler changes the pc, the value and op alone.                     *)
LEMMA HandleBecomes ==
  ASSUME TypeOK, NEW r \in Requests, NEW op, Handle(r, op)
  PROVE  Becomes(r, "running", req[r].id,
                 CASE op = "keep" -> req[r].value [] op = "set" -> r [] op = "remove" -> None,
                 req[r].saw, op, req[r].jar, req[r].ok, req[r].applied)
BY ZenonT(40) DEF Handle, Becomes, TypeOK, RequestState

(* What RawSession::write leaves in the request.                           *)
LEMMA WrittenBecomes ==
  ASSUME TypeOK, NEW r \in Requests, NEW id, NEW jar, NEW pc, Written(r, id, jar, pc)
  PROVE  Becomes(r, pc, id, req[r].value, req[r].saw, req[r].op, jar, pc = "answering",
                 pc = "answering" \/ req[r].value = None)
<1> DEFINE a == (pc = "answering" \/ req[r].value = None)
           q == [req[r] EXCEPT !.pc = pc, !.id = id, !.jar = jar, !.ok = (pc = "answering"), !.applied = a]
<1>1. req' = [req EXCEPT ![r] = q] /\ req \in [Requests -> RequestState]
  BY DEF Written, TypeOK
<1>2. req'[r] = q /\ \A s \in Requests : s # r => req'[s] = req[s]
  BY <1>1
<1>3. /\ q.client = req[r].client /\ q.dir = req[r].dir /\ q.sent = req[r].sent
      /\ q.saw = req[r].saw /\ q.value = req[r].value /\ q.op = req[r].op
      /\ q.pc = pc /\ q.id = id /\ q.jar = jar
  BY <1>1 DEF RequestState
<1>4. q.ok = (pc = "answering") /\ q.applied = a
  BY <1>1 DEF RequestState
<1> HIDE DEF q
<1> QED BY <1>2, <1>3, <1>4 DEF Becomes

(* What a command, the delivery and the loss of a request leave in it.     *)
LEMMA ClosingBecomes ==
  ASSUME TypeOK, NEW r \in Requests
  PROVE  /\ Executed(r) => Becomes(r, "executed", req[r].id, req[r].value, req[r].saw, req[r].op,
                                   req[r].jar, req[r].ok, TRUE)
         /\ Deliver(r) => Now(r, "answered")
         /\ Lose(r) => Now(r, "lost")
BY DEF Executed, Deliver, Lose, Now, Becomes, TypeOK, RequestState

(* What the two steps before GET leave in the request.                     *)
LEMMA RedisBecomes ==
  ASSUME TypeOK, NEW r \in Requests
  PROVE  /\ RedisApply(r) => Becomes(r, "connecting", req[r].sent, req[r].value, req[r].saw,
                                     req[r].op, req[r].jar, req[r].ok, req[r].applied)
         /\ Connected(r) => \/ req[r].id = None /\ Found(r, None, None)
                            \/ req[r].id # None /\ Now(r, "fetching")
BY DEF RedisApply, Connected, Now, Becomes, TypeOK, RequestState

(* A step of one request: what it stores it stores under its id.           *)
StepOf(r) ==
  /\ UNCHANGED <<orderly, backend>>
  /\ used \subseteq used'
  /\ \A s \in Requests : s # r => req'[s] = req[s]
  /\ req'[r].pc # "idle"
  /\ \/ Active(r) /\ req'[r].client = req[r].client
     \/ req[r].pc = "idle" /\ req'[r].saw = None /\ req'[r].op = "none"
  /\ \A i \in Ids :
       \/ storage'[i] = storage[i]
       \/ i = req'[r].id /\ Active(r) /\ Active(r)' /\ storage'[i] = req[r].value

(* In orderly use: what it reads is kept somewhere, and what it delivers is*)
(* its jar, to its client.                                                 *)
InTurn(r) ==
  /\ ~Active(r) => \A s \in Requests : ~(Active(s) /\ req[s].client = req'[r].client)
  /\ req'[r].saw \in {req[r].saw, None} \/ KeptValue(req'[r].saw)
  /\ \A c \in Clients, d \in Dirs :
       \/ cookies'[c][d] = cookies[c][d]
       \/ /\ Active(r) /\ c = req[r].client /\ d = Root
          /\ cookies'[c][d] = req[r].jar /\ req[r].jar # Keep

(* The two, with what they leave of r.                                     *)
Step(r) == StepOf(r) /\ (orderly => InTurn(r) /\ Turn(r)' /\ Removed(r)')

(* Where cookies hold the value, a request sets none but what it found or  *)
(* its own.                                                                *)
LEMMA JarOfTurn ==
  ASSUME Inv, NEW r \in Requests, Active(r), Turn(r), ~Keyed, req[r].jar \in Requests
  PROVE  req[r].jar \in {req[r].saw, r}
<1>1. req[r].jar # Keep /\ req[r].jar # None
  BY SessionAssumption
<1>2. req[r].pc \in {"running", "command", "executed", "answering"}
  BY <1>1, SessionAssumption DEF Inv, TypeOK, RequestState, Active, Turn, Before
<1>3. Reads(r)
  BY <1>1, <1>2 DEF Turn, Reads
<1> QED BY <1>1, <1>3 DEF Turn, CookieTurn

(* A request that does not move keeps its turn if its cookie stays and the *)
(* value behind it stays or is gone.                                       *)
LEMMA TurnKept ==
  ASSUME NEW s \in Requests, Turn(s), req'[s] = req[s], UNCHANGED backend,
         Active(s) => cookies'[req[s].client][Root] = cookies[req[s].client][Root],
         Active(s) => Shown(req[s].sent)' \in {Shown(req[s].sent), None}
  PROVE  Turn(s)'
<1>1. (Keyed)' = Keyed /\ (Active(s))' = Active(s) /\ (Reads(s))' = Reads(s)
  BY DEF Keyed, Active, Reads
<1>2. ASSUME Active(s), KeyedTurn(s) PROVE KeyedTurn(s)'
  BY <1>2 DEF KeyedTurn
<1>3. ASSUME CookieTurn(s) PROVE CookieTurn(s)'
  BY <1>3 DEF CookieTurn, Verified
<1> QED BY <1>1, <1>2, <1>3 DEF Turn

(* The step of one request leaves the turn of another alone: the ids of two*)
(* clients differ, and one client has one request at a time.               *)
LEMMA OthersTurn ==
  ASSUME Inv, Inv', orderly, OneEach, NEW r \in Requests, StepOf(r), InTurn(r),
         NEW s \in Requests, s # r, Turn(s)
  PROVE  Turn(s)'
<1>1. req'[s] = req[s] /\ UNCHANGED backend
  BY DEF StepOf
<1>2. ASSUME Active(s) PROVE cookies'[req[s].client][Root] = cookies[req[s].client][Root]
  <2>1. req[s].client \in Clients /\ Root \in Dirs
    BY SessionAssumption DEF Inv, TypeOK, RequestState
  <2> QED BY <1>2, <2>1 DEF InTurn, OneEach
<1>3. ASSUME Active(s), req[s].sent \in Ids PROVE storage'[req[s].sent] = storage[req[s].sent]
  <2> SUFFICES ASSUME storage'[req[s].sent] # storage[req[s].sent] PROVE FALSE
    OBVIOUS
  <2>1. req[s].sent = req'[r].id /\ Active(r) /\ Active(r)' /\ req'[r].client = req[r].client
    BY <1>3 DEF StepOf, Active
  <2>2. req'[r].client \in Clients /\ req'[s].client \in Clients
    BY DEF Inv, TypeOK, RequestState
  <2>3. Carries(req[r].client, req[r].id)' /\ Carries(req[s].client, req[s].sent)'
    BY <1>1, <1>3, <2>1 DEF Carries, Holds, Active
  <2>4. req'[r].client = req'[s].client
    BY <1>1, <1>3, <2>1, <2>2, <2>3 DEF Inv, Common, StepOf
  <2> QED BY <1>1, <1>3, <2>1, <2>4 DEF OneEach
<1>4. ASSUME Active(s) PROVE Shown(req[s].sent)' \in {Shown(req[s].sent), None}
  BY <1>1, <1>3, <1>4 DEF Shown, Verified
<1> QED BY <1>1, <1>2, <1>4, TurnKept

(* No step of another request brings back a value that s has removed: that *)
(* request would have to be of the client of s, or have found the value.   *)
LEMMA OthersRemoved ==
  ASSUME Inv, Inv', orderly, OneEach, NEW r \in Requests, StepOf(r), InTurn(r), Turn(r),
         NEW s \in Requests, s # r, Removed(s)
  PROVE  Removed(s)'
<1> DEFINE w == req[s].saw
<1>1. req'[s] = req[s] /\ UNCHANGED backend
  BY DEF StepOf
<1> SUFFICES ASSUME req[s].op = "remove", w \in Requests
             PROVE  Removed(s)'
  BY <1>1 DEF Removed
<1>2. Done(w) /\ req[w].client = req[s].client
  BY DEF Inv, Local, Common
<1>3. w # s
  BY <1>2 DEF Done
<1>4. ASSUME Active(r), req[r].saw = w \/ r = w PROVE req[r].client = req[s].client
  BY <1>2, <1>4 DEF Inv, Local, Common
<1>5. ASSUME Active(r), ~KeptValue(w), KeptValue(w)' PROVE req[r].saw = w \/ r = w
  <2>1. CASE Keyed
    <3>1. PICK i \in Ids : storage'[i] = w
      BY <1>1, <1>5, <2>1 DEF KeptValue, Keyed
    <3>2. storage[i] # w
      BY <1>5, <2>1 DEF KeptValue, Keyed
    <3>3. req[r].value = w
      BY <3>1, <3>2 DEF StepOf
    <3> QED BY <3>3, SessionAssumption DEF Inv, Local
  <2>2. CASE ~Keyed
    <3>1. PICK c \in Clients, d \in Dirs : cookies'[c][d] = w
      BY <1>1, <1>5, <2>2 DEF KeptValue, Keyed
    <3>2. cookies[c][d] # w
      BY <1>5, <2>2 DEF KeptValue, Keyed
    <3>3. req[r].jar = w
      BY <3>1, <3>2 DEF InTurn
    <3> QED BY <1>5, <2>2, <3>3, JarOfTurn
  <2> QED BY <2>1, <2>2
<1>6. ASSUME ~KeptValue(w), KeptValue(w)' PROVE Active(r) /\ req[r].client = req[s].client /\ (req[r].saw = w \/ r = w)
  <2>1. Active(r)
    BY <1>1, <1>6 DEF KeptValue, StepOf, InTurn
  <2> QED BY <1>4, <1>5, <1>6, <2>1
<1>7. ASSUME Active(s), ~KeptValue(w) PROVE ~KeptValue(w)'
  BY <1>6, <1>7 DEF OneEach
<1>8. ASSUME req[s].pc = "answered", req[s].ok
      PROVE  /\ ~KeptValue(w)' /\ ~Active(w)'
             /\ \A t \in Requests : Active(t)' => req'[t].saw # w
  <2>1. ~KeptValue(w) /\ ~Active(w) /\ \A t \in Requests : Active(t) => req[t].saw # w
    BY <1>8 DEF Removed
  <2>2. ~KeptValue(w)'
    BY <1>6, <2>1
  <2>3. ~Active(w)'
    <3>1. w # r
      BY <1>2, <2>1 DEF StepOf, Done
    <3> QED BY <2>1, <3>1 DEF StepOf, Active
  <2>4. ASSUME NEW t \in Requests, Active(t)' PROVE req'[t].saw # w
    <3>1. CASE t # r
      BY <2>1, <2>4, <3>1 DEF StepOf, Active
    <3>2. CASE t = r /\ Active(r)
      BY <2>1, <3>2, SessionAssumption DEF InTurn
    <3>3. CASE t = r /\ ~Active(r)
      BY <3>3, SessionAssumption DEF StepOf
    <3> QED BY <3>1, <3>2, <3>3
  <2> QED BY <2>2, <2>3, <2>4
<1>9. ASSUME Keyed, req[s].pc \in {"executed", "answering", "answered"}, req[s].pc # "executed" => req[s].ok
      PROVE  ~KeptValue(w)'
  <2>1. ~KeptValue(w)
    BY <1>9 DEF Removed
  <2>2. CASE req[s].pc = "answered"
    BY <1>8, <1>9, <2>2
  <2>3. CASE req[s].pc # "answered"
    BY <1>7, <1>9, <2>1, <2>3 DEF Active
  <2> QED BY <2>2, <2>3
<1>10. Keyed' = Keyed
  BY <1>1 DEF Keyed
<1> QED
  <2>1. Keyed' /\ (req'[s].pc = "executed" \/ (req'[s].pc \in {"answering", "answered"} /\ req'[s].ok))
          => ~KeptValue(w)'
    BY <1>1, <1>9, <1>10
  <2>2. req'[s].pc = "answered" /\ req'[s].ok =>
          ~KeptValue(w)' /\ ~Active(w)' /\ \A t \in Requests : Active(t)' => req'[t].saw # w
    BY <1>1, <1>8
  <2>3. req'[s].saw = w
    BY <1>1
  <2> QED BY <2>1, <2>2, <2>3 DEF Removed

(* A step of r that stores nothing and delivers nothing.                   *)
LEMMA QuietStep ==
  ASSUME Inv, NEW r \in Requests, Active(r),
         NEW pc \in {"connecting", "fetching", "handler", "running", "command", "executed", "answering", "answered", "lost"},
         NEW id, NEW value, NEW saw, NEW op, NEW jar, NEW ok, NEW applied,
         Becomes(r, pc, id, value, saw, op, jar, ok, applied),
         UNCHANGED <<orderly, backend, cookies, storage>>, used \subseteq used',
         orderly => saw \in {req[r].saw, None} \/ KeptValue(saw)
  PROVE  StepOf(r) /\ (orderly => InTurn(r))
BY DEF Becomes, StepOf, InTurn, Inv, TypeOK

(* What a cookie shows depends on the storage and the backend alone.       *)
LEMMA ShownSame ==
  ASSUME UNCHANGED <<backend, storage>>, NEW r \in Requests, req'[r].sent = req[r].sent
  PROVE  Shown(req[r].sent)' = Shown(req[r].sent)
BY DEF Shown, Verified

(* Nothing is promised of a request that has not removed its value, or not *)
(* yet, or not with success.                                               *)
LEMMA NotRemoved ==
  ASSUME NEW r \in Requests, req'[r].op # "remove" \/ req'[r].pc \notin {"executed", "answering", "answered"}
            \/ (req'[r].pc \in {"answering", "answered"} /\ ~req'[r].ok)
  PROVE  Removed(r)'
BY DEF Removed

(* An error answered at any point keeps the order.                         *)
LEMMA AnswerStep ==
  ASSUME Inv, OrderInv, NEW r \in Requests, Active(r), Answer(r, FALSE), UNCHANGED Others
  PROVE  Step(r)
<1>1. TypeOK
  BY DEF Inv
<1>2. /\ Becomes(r, "answering", req[r].id, req[r].value, req[r].saw, req[r].op, req[r].jar, FALSE,
                 req[r].applied)
  BY <1>1, AnswerBecomes
<1>3. StepOf(r) /\ (orderly => InTurn(r))
  BY <1>2, QuietStep DEF Others
<1>4. Removed(r)'
  BY <1>2, NotRemoved DEF Becomes
<1>5. ASSUME orderly PROVE Turn(r)'
  <2>1. Turn(r)
    BY <1>5 DEF OrderInv
  <2>2. Shown(req[r].sent)' = Shown(req[r].sent) /\ Keyed' = Keyed
    BY <1>2, ShownSame DEF Becomes, Keyed, Others
  <2>3. req[r].op # "none" => Reads(r)
    BY DEF Reads
  <2>4. Reads(r)' => req[r].op # "none"
    BY <1>2 DEF Becomes, Reads
  <2>5. req[r].pc \in Before => req[r].op = "none"
    BY DEF Inv, Local
  <2>6. KeyedTurn(r) /\ req[r].op # "none" => KeyedTurn(r)'
    BY <1>2, <2>2, <2>5 DEF KeyedTurn, Becomes, Before
  <2>7. CookieTurn(r) /\ req[r].op # "none" => CookieTurn(r)'
    BY <1>2 DEF CookieTurn, Becomes, Verified, Others
  <2>8. req[r].op = "none" => req[r].jar = Keep
    BY <2>1, <1>1 DEF Turn, TypeOK, RequestState, Active, Before
  <2> QED BY <1>2, <2>1, <2>2, <2>3, <2>4, <2>6, <2>7, <2>8 DEF Turn, Becomes, Before, Others
<1> QED BY <1>3, <1>4, <1>5 DEF Step

(* Reading the session keeps the order, where the value is the one that the*)
(* cookie shows.                                                           *)
LEMMA FoundStep ==
  ASSUME Inv, OrderInv, NEW r \in Requests, req[r].pc \in Before \ {"handler"},
         NEW id, NEW value, Found(r, id, value), UNCHANGED Others,
         orderly => value = None \/ KeptValue(value),
         orderly /\ Keyed =>
           /\ req[r].sent \in Ids \cup {None}
           /\ value = Shown(req[r].sent)
           /\ \/ id = req[r].sent /\ id # None
              \/ id = None /\ value = None,
         orderly /\ ~Keyed => value = Verified(req[r].sent)
  PROVE  Step(r)
<1>1. TypeOK /\ req[r].op = "none" /\ Active(r)
  BY DEF Inv, Local, Before, Active
<1>2. Becomes(r, "handler", id, value, value, "none", req[r].jar, req[r].ok, req[r].applied)
  BY <1>1, FoundBecomes
<1>3. StepOf(r) /\ (orderly => InTurn(r))
  BY <1>1, <1>2, QuietStep DEF Others
<1>4. Removed(r)'
  BY <1>2, NotRemoved DEF Becomes
<1>5. ASSUME orderly PROVE Turn(r)'
  <2>1. Turn(r)
    BY <1>5 DEF OrderInv
  <2>2. Shown(req[r].sent)' = Shown(req[r].sent) /\ Keyed' = Keyed
    BY <1>2, ShownSame DEF Becomes, Keyed, Others
  <2>3. req[r].jar = Keep /\ ~req[r].applied
    BY <2>1 DEF Turn
  <2>4. Keyed => KeyedTurn(r)'
    BY <1>2, <1>5, <2>2, <2>3 DEF KeyedTurn, Becomes
  <2>5. ~Keyed => CookieTurn(r)'
    BY <1>2, <1>5, <2>3 DEF CookieTurn, Becomes, Verified, Others
  <2> QED BY <1>1, <1>2, <2>1, <2>2, <2>3, <2>4, <2>5 DEF Turn, Becomes, Before, Others
<1> QED BY <1>3, <1>4, <1>5 DEF Step

(* So does each of the ways to read it.                                    *)
LEMMA ReadStep ==
  ASSUME Inv, OrderInv, NEW r \in Requests, Reading(r)
  PROVE  Step(r)
<1>0. TypeOK
  BY DEF Inv
<1>1. CASE BadId(r) \/ ReadFails(r)
  <2>1. Answer(r, FALSE) /\ Active(r) /\ UNCHANGED Others
    BY <1>1 DEF BadId, ReadFails, Active, Others
  <2> QED BY <2>1, AnswerStep
<1>2. CASE MemoryRead(r)
  <2>1. req[r].pc \in Before \ {"handler"} /\ UNCHANGED Others /\ Keyed /\ None \notin Ids
    BY <1>2, SessionAssumption DEF MemoryRead, Before, Others, Keyed
  <2>2. CASE req[r].sent = None /\ Found(r, None, None)
    BY <2>1, <2>2, FoundStep DEF Shown, Keyed
  <2>3. CASE req[r].sent \in Ids /\ Found(r, req[r].sent, storage[req[r].sent])
    <3>1. KeptValue(storage[req[r].sent]) /\ storage[req[r].sent] = Shown(req[r].sent)
      BY <2>1, <2>3 DEF KeptValue, Keyed, Shown
    <3> QED BY <2>1, <2>3, <3>1, FoundStep
  <2> QED BY <1>2, <2>2, <2>3 DEF MemoryRead
<1>3. CASE RedisApply(r)
  <2>1. Becomes(r, "connecting", req[r].sent, req[r].value, req[r].saw, req[r].op, req[r].jar,
                req[r].ok, req[r].applied) /\ UNCHANGED Others
    BY <1>0, <1>3, RedisBecomes DEF RedisApply, Others
  <2>2. Active(r) /\ req[r].op = "none" /\ req[r].pc \in Before
    BY <1>3 DEF RedisApply, Active, Inv, Local, Before
  <2>3. StepOf(r) /\ (orderly => InTurn(r))
    BY <2>1, <2>2, QuietStep DEF Others
  <2>4. orderly => Turn(r)'
    BY <1>3, <2>1, <2>2 DEF OrderInv, Turn, Becomes, Before, Reads, Active, Others, RedisApply, Keyed
  <2>5. Removed(r)'
    BY <2>1, <2>2, NotRemoved DEF Becomes
  <2> QED BY <2>3, <2>4, <2>5 DEF Step
<1>4. CASE Connected(r)
  <2>1. UNCHANGED Others /\ req[r].pc = "connecting" /\ Active(r) /\ req[r].op = "none"
    BY <1>4 DEF Connected, Others, Active, Inv, Local, Before
  <2>2. CASE req[r].id = None /\ Found(r, None, None)
    <3>1. orderly => req[r].sent = None /\ Keyed
      BY <2>1, <2>2 DEF OrderInv, Turn
    <3> QED BY <2>1, <2>2, <3>1, SessionAssumption, FoundStep DEF Before, Shown, Keyed
  <2>3. CASE req[r].id # None /\ Now(r, "fetching")
    <3>1. StepOf(r) /\ (orderly => InTurn(r))
      BY <2>1, <2>3, QuietStep DEF Others, Now
    <3>2. orderly => Turn(r)'
      BY <2>1, <2>3 DEF OrderInv, Turn, Now, Becomes, Before, Reads, Active, Others, Keyed
    <3>3. Removed(r)'
      BY <2>1, <2>3, NotRemoved DEF Becomes, Now
    <3> QED BY <3>1, <3>2, <3>3 DEF Step
  <2> QED BY <1>0, <1>4, <2>2, <2>3, RedisBecomes
<1>5. CASE Fetched(r)
  <2>1. /\ UNCHANGED Others /\ req[r].pc \in Before \ {"handler"} /\ req[r].id \in Ids
        /\ Found(r, FoundId(req[r].id), storage[req[r].id]) /\ None \notin Ids
    BY <1>5, SessionAssumption DEF Fetched, Others, Inv, Local, Before
  <2>2. orderly => req[r].sent = req[r].id /\ Keyed
    BY <1>5 DEF OrderInv, Turn, Fetched
  <2>3. orderly => /\ storage[req[r].id] = Shown(req[r].sent) /\ KeptValue(storage[req[r].id])
                   /\ FoundId(req[r].id) = IF storage[req[r].id] = None THEN None ELSE req[r].id
    BY <2>1, <2>2 DEF Shown, KeptValue, FoundId, Keyed
  <2> QED BY <2>1, <2>2, <2>3, FoundStep
<1>6. CASE CookieRead(r)
  <2>1. /\ UNCHANGED Others /\ req[r].pc \in Before \ {"handler"} /\ Active(r) /\ ~Keyed
        /\ Found(r, None, Verified(req[r].sent))
    BY <1>6 DEF CookieRead, Others, Before, Active, Keyed
  <2>2. orderly => req[r].sent = cookies[req[r].client][Root]
    BY <2>1 DEF OrderInv, Turn
  <2>3. req[r].client \in Clients /\ Root \in Dirs
    BY <1>0, SessionAssumption DEF TypeOK, RequestState
  <2>4. orderly => Verified(req[r].sent) = None \/ KeptValue(Verified(req[r].sent))
    BY <2>1, <2>2, <2>3 DEF KeptValue, Keyed, Verified
  <2> QED BY <2>1, <2>4, FoundStep
<1> QED BY <1>1, <1>2, <1>3, <1>4, <1>5, <1>6 DEF Reading

(* A request sent while its client has no other in progress keeps the order.*)
LEMMA SendStep ==
  ASSUME Inv, OrderInv, NEW r \in Requests, NEW c \in Clients, NEW d \in Dirs, Send(r, c, d)
  PROVE  Step(r)
<1> DEFINE q == [Fresh(c, d) EXCEPT !.pc = "arrived", !.sent = Sees(c, d)]
<1>1. req' = [req EXCEPT ![r] = q] /\ req \in [Requests -> RequestState] /\ UNCHANGED Others
  BY DEF Send, Inv, TypeOK, Others
<1>2. req'[r] = q /\ \A s \in Requests : s # r => req'[s] = req[s]
  BY <1>1
<1>3. /\ q.pc = "arrived" /\ q.client = c /\ q.dir = d /\ q.sent = Sees(c, d) /\ q.saw = None
      /\ q.op = "none" /\ q.jar = Keep /\ ~q.applied
  BY DEF Fresh
<1> HIDE DEF q
<1>4. req[r].pc = "idle" /\ ~Active(r)
  BY DEF Send, Active
<1>5. StepOf(r)
  BY <1>1, <1>2, <1>3, <1>4 DEF StepOf, Others
<1>6. Removed(r)'
  BY <1>2, <1>3, NotRemoved
<1>7. ASSUME orderly PROVE InTurn(r) /\ Turn(r)'
  <2>1. d = Root /\ \A s \in Requests : ~(Active(s) /\ req[s].client = c)
    BY <1>7 DEF Send
  <2>2. InTurn(r)
    BY <1>1, <1>2, <1>3, <2>1 DEF InTurn, Others
  <2>3. Turn(r)'
    BY <1>1, <1>2, <1>3, <2>1 DEF Turn, Others, Sees, Before, Reads
  <2> QED BY <2>2, <2>3
<1> QED BY <1>5, <1>6, <1>7 DEF Step

(* The handler keeps the order.                                            *)
LEMMA HandleStep ==
  ASSUME Inv, OrderInv, NEW r \in Requests, NEW op \in {"keep", "set", "remove"}, Handle(r, op)
  PROVE  Step(r)
<1> DEFINE v == CASE op = "keep" -> req[r].value [] op = "set" -> r [] op = "remove" -> None
<1>1. UNCHANGED Others /\ req[r].pc = "handler" /\ Active(r) /\ TypeOK
  BY DEF Handle, Active, Others, Inv
<1>2. Becomes(r, "running", req[r].id, v, req[r].saw, op, req[r].jar, req[r].ok, req[r].applied)
  BY <1>1, HandleBecomes
<1>3. op = "remove" => v = None
  OBVIOUS
<1> HIDE DEF v
<1>4. StepOf(r) /\ (orderly => InTurn(r))
  BY <1>1, <1>2, QuietStep DEF Others
<1>5. Removed(r)'
  BY <1>2, NotRemoved DEF Becomes
<1>6. ASSUME orderly PROVE Turn(r)'
  <2>1. Turn(r) /\ Reads(r) /\ req[r].jar = Keep /\ ~req[r].applied
    BY <1>1, <1>6 DEF OrderInv, Turn, Reads, Before
  <2>2. Shown(req[r].sent)' = Shown(req[r].sent) /\ Keyed' = Keyed
    BY <1>1, <1>2, ShownSame DEF Becomes, Keyed, Others
  <2>3. KeyedTurn(r) => KeyedTurn(r)'
    BY <1>1, <1>2, <2>1, <2>2 DEF KeyedTurn, Becomes
  <2>4. CookieTurn(r) => CookieTurn(r)'
    BY <1>1, <1>2, <2>1 DEF CookieTurn, Becomes, Verified, Others
  <2> QED BY <1>1, <1>2, <1>3, <2>1, <2>2, <2>3, <2>4 DEF Turn, Becomes, Before, Others
<1> QED BY <1>4, <1>5, <1>6 DEF Step

(* A value removed under the id of its request is nowhere else.            *)
LEMMA Cleared ==
  ASSUME Inv, Keyed, UNCHANGED backend, NEW r \in Requests, req[r].saw \in Requests, req'[r].saw = req[r].saw,
         storage' = [storage EXCEPT ![req[r].id] = None]
  PROVE  ~KeptValue(req[r].saw)'
<1>1. req[r].id \in Ids /\ req[req[r].saw].id = req[r].id
  BY DEF Inv, Local
<1>2. ASSUME NEW i \in Ids, storage'[i] = req[r].saw PROVE FALSE
  BY <1>1, <1>2, SessionAssumption DEF Inv, TypeOK
<1> QED BY <1>2 DEF KeptValue, Keyed

(* What holds when the future of the handler has succeeded.                *)
LEMMA RunningTurn ==
  ASSUME Inv, OrderInv, orderly, Keyed, NEW r \in Requests, req[r].pc = "running"
  PROVE  /\ Turn(r) /\ KeyedTurn(r) /\ req[r].jar = Keep /\ ~req[r].applied
         /\ req[r].op # "none" /\ req[r].dir = Root
         /\ req[r].sent \in Ids \cup {None}
         /\ Shown(req[r].sent) \in {req[r].saw, None}
         /\ \/ req[r].id = req[r].sent /\ req[r].id # None
            \/ req[r].id = None /\ Shown(req[r].sent) = None /\ req[r].saw = None
<1>1. Turn(r) /\ req[r].op # "none" /\ Active(r)
  BY DEF OrderInv, Turn, Active
<1>2. KeyedTurn(r)
  BY <1>1 DEF Turn, Reads
<1> QED BY <1>1, <1>2 DEF Turn, KeyedTurn, Before

(* The in-memory backend keeps the order when it writes.                   *)
LEMMA MemoryWriteStep ==
  ASSUME Inv, OrderInv, NEW r \in Requests, MemoryWrite(r)
  PROVE  Step(r)
<1>0. /\ TypeOK /\ Active(r) /\ Keyed /\ req[r].pc = "running" /\ storage \in [Ids -> Value]
      /\ req[r].id \in Ids \cup {None} /\ None \notin Ids
  BY SessionAssumption DEF Inv, TypeOK, RequestState, MemoryWrite, Active, Keyed
<1>1. ASSUME orderly
      PROVE  /\ Turn(r) /\ KeyedTurn(r) /\ req[r].jar = Keep /\ ~req[r].applied
             /\ req[r].op # "none" /\ req[r].dir = Root
             /\ req[r].sent \in Ids \cup {None}
             /\ Shown(req[r].sent) \in {req[r].saw, None}
             /\ \/ req[r].id = req[r].sent /\ req[r].id # None
                \/ req[r].id = None /\ Shown(req[r].sent) = None /\ req[r].saw = None
  BY <1>0, <1>1, RunningTurn
<1>2. ASSUME NEW id \in Ids \cup {None}, NEW jar,
             Written(r, id, jar, "answering"),
             id # None => storage' = [storage EXCEPT ![id] = req[r].value],
             id = None => storage' = storage
      PROVE  StepOf(r) /\ (orderly => InTurn(r))
  <2>1. Becomes(r, "answering", id, req[r].value, req[r].saw, req[r].op, jar, TRUE, TRUE)
    BY <1>0, <1>2, WrittenBecomes
  <2>2. UNCHANGED <<orderly, backend, cookies>> /\ used \subseteq used'
    BY <1>2 DEF Written
  <2>3. \A i \in Ids : storage'[i] = storage[i] \/ (i = id /\ storage'[i] = req[r].value)
    BY <1>0, <1>2
  <2>4. StepOf(r)
    BY <1>0, <2>1, <2>2, <2>3 DEF StepOf, Becomes, Active
  <2> QED BY <1>0, <2>1, <2>2, <2>4 DEF InTurn, Becomes
<1>3. ASSUME NEW id \in Ids \cup {None}, NEW jar,
             Written(r, id, jar, "answering"), orderly,
             jar # Keep => \/ jar = req[r].sent
                           \/ jar = None /\ Shown(req[r].sent)' \in {req[r].saw, None}
                           \/ Shown(req[r].sent)' = None /\ req[r].saw = None
      PROVE  Turn(r)'
  <2>1. Becomes(r, "answering", id, req[r].value, req[r].saw, req[r].op, jar, TRUE, TRUE)
    BY <1>0, <1>3, WrittenBecomes
  <2>2. UNCHANGED <<orderly, backend, cookies>>
    BY <1>3 DEF Written
  <2>3. KeyedTurn(r)'
    BY <1>1, <1>3, <2>1 DEF KeyedTurn, Becomes
  <2>4. Keyed'
    BY <1>0, <2>2 DEF Keyed
  <2> QED BY <1>0, <1>1, <1>3, <2>1, <2>2, <2>3, <2>4 DEF Turn, Becomes, Before
<1>4. CASE req[r].value # None /\ WriteValue(r)
  <2>1. PICK id \in IdFor(r) : Store(id, req[r].value) /\ Written(r, id, id, "answering")
    BY <1>4 DEF WriteValue
  <2>2. id \in Ids /\ storage' = [storage EXCEPT ![id] = req[r].value]
    BY <1>0, <2>1 DEF IdFor, Store
  <2>3. StepOf(r) /\ (orderly => InTurn(r))
    BY <1>0, <1>2, <2>1, <2>2
  <2>4. Becomes(r, "answering", id, req[r].value, req[r].saw, req[r].op, id, TRUE, TRUE)
    BY <1>0, <2>1, WrittenBecomes
  <2>5. ASSUME orderly PROVE Turn(r)' /\ Removed(r)'
    <3>1. req[r].op # "remove"
      BY <1>1, <1>4, <2>5 DEF Turn
    <3>2. Removed(r)'
      BY <2>4, <3>1, NotRemoved DEF Becomes
    <3>3. ASSUME id = req[r].sent PROVE Turn(r)'
      BY <1>3, <2>1, <2>2, <2>5, <3>3
    <3>4. ASSUME id # req[r].sent PROVE Turn(r)'
      <4>1. UNCHANGED backend /\ req'[r].sent = req[r].sent
        BY <2>1, <2>4 DEF Written, Becomes
      <4>2. Shown(req[r].sent)' = Shown(req[r].sent)
        BY <1>0, <2>2, <3>4, <4>1 DEF Shown, Verified
      <4>3. Shown(req[r].sent) = None /\ req[r].saw = None
        <5>1. CASE req[r].id = None
          BY <1>1, <2>5, <5>1
        <5>2. CASE req[r].id # None
          BY <1>1, <2>1, <2>5, <3>4, <5>2 DEF IdFor
        <5> QED BY <5>1, <5>2
      <4>4. Shown(req[r].sent)' = None /\ req[r].saw = None
        BY <4>2, <4>3
      <4>5. Written(r, id, id, "answering") /\ id \in Ids \cup {None}
        BY <2>1, <2>2
      <4> QED BY <1>3, <2>5, <4>4, <4>5
    <3> QED BY <3>2, <3>3, <3>4
  <2> QED BY <2>3, <2>5 DEF Step
<1>5. CASE req[r].value = None /\ req[r].id # None /\ RemoveValue(r)
  <2>1. Written(r, req[r].id, Removal(r), "answering") /\ storage' = [storage EXCEPT ![req[r].id] = None]
    BY <1>5 DEF RemoveValue, Store
  <2>2. StepOf(r) /\ (orderly => InTurn(r))
    BY <1>0, <1>2, <1>5, <2>1
  <2>3. Becomes(r, "answering", req[r].id, None, req[r].saw, req[r].op, Removal(r), TRUE, TRUE)
    BY <1>0, <1>5, <2>1, WrittenBecomes
  <2>4. UNCHANGED backend
    BY <2>1 DEF Written
  <2>5. ASSUME orderly PROVE Turn(r)'
    <3>1. req[r].id = req[r].sent /\ req'[r].sent = req[r].sent
      BY <1>1, <1>5, <2>3, <2>5 DEF Becomes
    <3>2. Shown(req[r].sent)' = None /\ Removal(r) = None
      BY <1>0, <1>5, <2>1, <3>1 DEF Shown, Removal
    <3> QED BY <1>0, <1>3, <2>1, <2>5, <3>2
  <2>6. req[r].saw \in Requests => ~KeptValue(req[r].saw)'
    BY <1>0, <2>1, <2>3, <2>4, Cleared DEF Becomes
  <2>7. Removed(r)'
    BY <2>3, <2>6 DEF Removed, Becomes
  <2> QED BY <2>2, <2>5, <2>7 DEF Step
<1>6. CASE req[r].value = None /\ req[r].id = None /\ WriteNothing(r)
  <2>1. Written(r, None, Keep, "answering") /\ UNCHANGED storage
    BY <1>6 DEF WriteNothing
  <2>2. StepOf(r) /\ (orderly => InTurn(r))
    BY <1>0, <1>2, <2>1
  <2>3. orderly => Turn(r)'
    BY <1>0, <1>3, <2>1
  <2>4. req[r].saw \notin Requests
    BY <1>0, <1>6 DEF Inv, Local
  <2>5. Removed(r)'
    BY <1>0, <2>1, <2>4, WrittenBecomes DEF Removed, Becomes
  <2> QED BY <2>2, <2>3, <2>5 DEF Step
<1> QED BY <1>4, <1>5, <1>6 DEF MemoryWrite

(* The Redis backend keeps the order when it changes the jar.              *)
LEMMA CommandStep ==
  ASSUME Inv, OrderInv, NEW r \in Requests, Keyed, req[r].pc = "running",
         NEW id \in Ids \cup {None}, NEW jar, NEW pc \in {"command", "answering"},
         Written(r, id, jar, pc), UNCHANGED storage,
         \/ req[r].value # None /\ id \in IdFor(r) /\ jar = id /\ pc = "command"
         \/ req[r].value = None /\ req[r].id # None /\ id = req[r].id /\ jar = Removal(r) /\ pc = "command"
         \/ req[r].value = None /\ req[r].id = None /\ id = None /\ jar = Keep /\ pc = "answering"
  PROVE  Step(r)
<1>0. /\ TypeOK /\ Active(r) /\ Keyed /\ req[r].pc = "running"
      /\ req[r].id \in Ids \cup {None} /\ None \notin Ids
  BY SessionAssumption DEF Inv, TypeOK, RequestState, Active
<1>1. \/ req[r].value # None /\ id \in IdFor(r) /\ jar = id /\ pc = "command"
      \/ req[r].value = None /\ req[r].id # None /\ id = req[r].id /\ jar = Removal(r) /\ pc = "command"
      \/ req[r].value = None /\ req[r].id = None /\ id = None /\ jar = Keep /\ pc = "answering"
  OBVIOUS
<1> DEFINE ok == (pc = "answering")
           a == (pc = "answering" \/ req[r].value = None)
<1>2. Becomes(r, pc, id, req[r].value, req[r].saw, req[r].op, jar, ok, a)
  BY <1>0, <1>1, WrittenBecomes
<1>3. ok = (pc = "answering") /\ (req[r].value = None => a) /\ (pc = "answering" => a)
  OBVIOUS
<1> HIDE DEF ok, a
<1>4. UNCHANGED <<orderly, backend, cookies, storage>> /\ used \subseteq used'
  BY DEF Written
<1>5. StepOf(r) /\ (orderly => InTurn(r))
  BY <1>0, <1>2, <1>4, QuietStep
<1>6. req[r].id = None => req[r].saw \notin Requests
  BY <1>0 DEF Inv, Local
<1>7. Removed(r)'
  BY <1>1, <1>2, <1>6 DEF Removed, Becomes
<1>8. ASSUME orderly PROVE Turn(r)'
  <2>1. /\ Turn(r) /\ KeyedTurn(r) /\ req[r].jar = Keep /\ ~req[r].applied
        /\ req[r].op # "none" /\ req[r].dir = Root
        /\ req[r].sent \in Ids \cup {None}
        /\ Shown(req[r].sent) \in {req[r].saw, None}
        /\ \/ req[r].id = req[r].sent /\ req[r].id # None
           \/ req[r].id = None /\ Shown(req[r].sent) = None /\ req[r].saw = None
    BY <1>0, <1>8, RunningTurn
  <2>2. Shown(req[r].sent)' = Shown(req[r].sent) /\ Keyed'
    BY <1>0, <1>2, <1>4, ShownSame DEF Becomes, Keyed
  <2>3. pc = "command" => jar = IF req[r].value = None THEN None ELSE id
    BY <1>0, <1>1, <2>1 DEF Removal
  <2>4. jar # Keep => \/ jar = req[r].sent
                      \/ jar = None /\ Shown(req[r].sent) \in {req[r].saw, None}
                      \/ Shown(req[r].sent) = None /\ req[r].saw = None
    <3>1. CASE req[r].value # None
      BY <1>1, <2>1, <3>1 DEF IdFor
    <3>2. CASE req[r].value = None
      BY <1>1, <2>1, <2>3, <3>2
    <3> QED BY <3>1, <3>2
  <2>5. KeyedTurn(r)'
    BY <1>1, <1>2, <1>3, <2>1, <2>2, <2>3, <2>4 DEF KeyedTurn, Becomes
  <2> QED BY <1>0, <1>1, <1>2, <1>3, <1>4, <2>1, <2>2, <2>5 DEF Turn, Becomes, Before
<1> QED BY <1>5, <1>7, <1>8 DEF Step

(* RawSession::write of the Redis backend, all cases.                      *)
LEMMA RedisWriteStep ==
  ASSUME Inv, OrderInv, NEW r \in Requests, RedisWrite(r)
  PROVE  Step(r)
<1>0. Keyed /\ req[r].pc = "running" /\ req[r].id \in Ids \cup {None} /\ None \notin Ids
  BY SessionAssumption DEF Inv, TypeOK, RequestState, RedisWrite, Keyed
<1>1. CASE req[r].value # None /\ \E id \in IdFor(r) : Written(r, id, id, "command") /\ UNCHANGED storage
  <2>1. PICK id \in IdFor(r) : Written(r, id, id, "command") /\ UNCHANGED storage
    BY <1>1
  <2>2. id \in Ids
    BY <1>0 DEF IdFor
  <2> QED BY <1>0, <1>1, <2>1, <2>2, CommandStep
<1>2. CASE req[r].value = None /\ req[r].id # None /\ Written(r, req[r].id, Removal(r), "command") /\ UNCHANGED storage
  BY <1>0, <1>2, CommandStep
<1>3. CASE req[r].value = None /\ req[r].id = None /\ WriteNothing(r)
  BY <1>0, <1>3, CommandStep DEF WriteNothing
<1> QED BY <1>1, <1>2, <1>3 DEF RedisWrite

(* Redis keeps the order when it executes the command.                     *)
LEMMA ExecutedStep ==
  ASSUME Inv, OrderInv, NEW r \in Requests, Executed(r)
  PROVE  Step(r)
<1>0. /\ TypeOK /\ Active(r) /\ Keyed /\ req[r].pc = "command" /\ storage \in [Ids -> Value]
      /\ req[r].id \in Ids /\ None \notin Ids
      /\ storage' = [storage EXCEPT ![req[r].id] = req[r].value]
      /\ UNCHANGED <<orderly, backend, cookies, used>>
  BY SessionAssumption DEF Inv, TypeOK, RequestState, Executed, Active, Local, Store
<1>1. Becomes(r, "executed", req[r].id, req[r].value, req[r].saw, req[r].op, req[r].jar, req[r].ok, TRUE)
  BY <1>0, ClosingBecomes
<1>2. \A i \in Ids : storage'[i] = IF i = req[r].id THEN req[r].value ELSE storage[i]
  BY <1>0
<1>3. StepOf(r)
  BY <1>0, <1>1, <1>2 DEF StepOf, Becomes, Active
<1>4. InTurn(r)
  BY <1>0, <1>1 DEF InTurn, Becomes
<1>5. ASSUME orderly PROVE Turn(r)' /\ Removed(r)'
  <2>1. Turn(r) /\ KeyedTurn(r) /\ req[r].op # "none"
    BY <1>0, <1>5 DEF OrderInv, Turn, Reads
  <2>2. req[r].sent \in Ids \cup {None} /\ req[r].jar = IF req[r].value = None THEN None ELSE req[r].id
    BY <1>0, <2>1 DEF KeyedTurn
  <2>3. Keyed' = Keyed /\ req'[r].sent = req[r].sent
    BY <1>0, <1>1 DEF Keyed, Becomes
  <2>4. Shown(req[r].sent)' = IF req[r].sent = req[r].id THEN req[r].value ELSE Shown(req[r].sent)
    BY <1>0, <1>2, <2>2, <2>3 DEF Shown, Keyed
  <2>5. req[r].jar # Keep => \/ req[r].jar = req[r].sent
                             \/ req[r].jar = None /\ Shown(req[r].sent)' \in {req[r].saw, None}
                             \/ Shown(req[r].sent)' = None /\ req[r].saw = None
    BY <2>1, <2>2, <2>4 DEF KeyedTurn
  <2>6. KeyedTurn(r)'
    BY <1>0, <1>1, <2>2, <2>3, <2>5 DEF KeyedTurn, Becomes
  <2>7. Turn(r)'
    BY <1>0, <1>1, <2>1, <2>3, <2>6 DEF Turn, Becomes, Before
  <2>8. ASSUME req[r].op = "remove", req[r].saw \in Requests PROVE ~KeptValue(req[r].saw)'
    BY <1>0, <1>1, <2>1, <2>8, Cleared DEF Turn, Becomes
  <2>9. Removed(r)'
    BY <1>1, <2>8 DEF Removed, Becomes
  <2> QED BY <2>7, <2>9
<1> QED BY <1>3, <1>4, <1>5 DEF Step

(* The reply of Redis keeps the order.                                     *)
LEMMA RepliedStep ==
  ASSUME Inv, OrderInv, NEW r \in Requests, Replied(r)
  PROVE  Step(r)
<1>0. /\ TypeOK /\ Active(r) /\ Keyed /\ req[r].pc = "executed" /\ Answer(r, TRUE) /\ UNCHANGED Others
  BY DEF Inv, Replied, Active, Local, Others
<1>1. Becomes(r, "answering", req[r].id, req[r].value, req[r].saw, req[r].op, req[r].jar, TRUE, req[r].applied)
  BY <1>0, AnswerBecomes
<1>2. StepOf(r) /\ (orderly => InTurn(r))
  BY <1>0, <1>1, QuietStep DEF Others
<1>3. Keyed' = Keyed /\ Shown(req[r].sent)' = Shown(req[r].sent)
  BY <1>0, <1>1, ShownSame DEF Keyed, Becomes, Others
<1>4. ASSUME orderly PROVE Turn(r)' /\ Removed(r)'
  <2>1. Turn(r) /\ KeyedTurn(r) /\ req[r].op # "none" /\ req[r].applied
    BY <1>0, <1>4 DEF OrderInv, Turn, Reads
  <2>2. KeyedTurn(r)'
    BY <1>0, <1>1, <1>3, <2>1 DEF KeyedTurn, Becomes
  <2>3. Turn(r)'
    BY <1>0, <1>1, <1>3, <2>1, <2>2 DEF Turn, Becomes, Before, Others
  <2>4. Removed(r)
    BY <1>4 DEF OrderInv
  <2>5. Removed(r)'
    BY <1>0, <1>1, <2>4 DEF Removed, Becomes, KeptValue, Others
  <2> QED BY <2>3, <2>5
<1> QED BY <1>2, <1>4 DEF Step

(* The cookie backend keeps the order when it writes.                      *)
LEMMA CookieWriteStep ==
  ASSUME Inv, OrderInv, NEW r \in Requests, CookieWrite(r)
  PROVE  Step(r)
<1>0. /\ TypeOK /\ Active(r) /\ ~Keyed /\ req[r].pc = "running" /\ UNCHANGED storage
  BY SessionAssumption DEF Inv, CookieWrite, Active, Keyed
<1>1. PICK jar : /\ Written(r, None, jar, "answering")
                 /\ jar = IF req[r].value # None THEN req[r].value ELSE Removal(r)
  BY DEF CookieWrite, CookieWriteValue, CookieRemoveValue
<1>2. Becomes(r, "answering", None, req[r].value, req[r].saw, req[r].op, jar, TRUE, TRUE)
  BY <1>0, <1>1, WrittenBecomes
<1>3. UNCHANGED <<orderly, backend, cookies, storage>> /\ used \subseteq used'
  BY <1>0, <1>1 DEF Written
<1>4. StepOf(r) /\ (orderly => InTurn(r))
  BY <1>0, <1>2, <1>3, QuietStep
<1>5. ~Keyed'
  BY <1>0, <1>3 DEF Keyed
<1>6. Removed(r)'
  BY <1>2, <1>5 DEF Removed, Becomes
<1>7. ASSUME orderly PROVE Turn(r)'
  <2>1. Turn(r) /\ CookieTurn(r) /\ req[r].op # "none"
    BY <1>0, <1>7 DEF OrderInv, Turn, Reads
  <2>2. req[r].value \in {req[r].saw, r, None}
    BY DEF Inv, Local
  <2>3. jar \in {Keep, None, req[r].saw, r}
    BY <1>1, <2>2 DEF Removal
  <2>4. req[r].op = "remove" /\ req[r].sent # None => jar = None
    BY <1>1, <2>1 DEF Turn, Removal
  <2>5. CookieTurn(r)'
    BY <1>2, <1>3, <2>1, <2>3, <2>4 DEF CookieTurn, Becomes, Verified
  <2> QED BY <1>0, <1>2, <1>3, <1>5, <2>1, <2>5 DEF Turn, Becomes, Before
<1> QED BY <1>4, <1>6, <1>7 DEF Step

(* A request that is dropped keeps the order.                              *)
LEMMA LoseStep ==
  ASSUME Inv, OrderInv, NEW r \in Requests, Lose(r)
  PROVE  Step(r)
<1>0. TypeOK /\ Active(r) /\ UNCHANGED Others
  BY DEF Inv, Lose, Others
<1>1. Now(r, "lost")
  BY <1>0, ClosingBecomes
<1>2. StepOf(r) /\ (orderly => InTurn(r))
  BY <1>0, <1>1, QuietStep DEF Others, Now
<1>3. Removed(r)'
  BY <1>1, NotRemoved DEF Now, Becomes
<1>4. orderly => Turn(r)'
  BY <1>1 DEF OrderInv, Turn, Now, Becomes, Before, Active
<1> QED BY <1>2, <1>3, <1>4 DEF Step

(* The delivery of the response keeps the order; of a removal it takes away*)
(* the last cookie with the value.                                         *)
LEMMA DeliverStep ==
  ASSUME Inv, OrderInv, NEW r \in Requests, Deliver(r)
  PROVE  Step(r)
<1>0. /\ TypeOK /\ Active(r) /\ req[r].pc = "answering" /\ UNCHANGED <<orderly, backend, storage, used>>
      /\ req[r].client \in Clients /\ Root \in Dirs /\ cookies \in [Clients -> [Dirs -> CookieValue]]
  BY SessionAssumption DEF Inv, Deliver, Active, TypeOK, RequestState
<1>1. Now(r, "answered")
  BY <1>0, ClosingBecomes
<1>2. StepOf(r)
  BY <1>0, <1>1 DEF StepOf, Now, Becomes
<1>3. ASSUME orderly PROVE InTurn(r) /\ Turn(r)' /\ Removed(r)'
  <2>1. Turn(r) /\ OneEach /\ \A c \in Clients, d \in Dirs : d # Root => cookies[c][d] \notin Requests
    BY <1>3 DEF OrderInv
  <2>2. Scope(r) = Root
    BY <2>1 DEF Scope, Turn
  <2>3. ASSUME NEW c \in Clients, NEW d \in Dirs
        PROVE  cookies'[c][d] = IF c = req[r].client /\ d = Root /\ req[r].jar # Keep
                                THEN req[r].jar ELSE cookies[c][d]
    <3>1. cookies' = IF req[r].jar = Keep THEN cookies
                     ELSE [cookies EXCEPT ![req[r].client][Root] = req[r].jar]
      BY <2>2 DEF Deliver
    <3> QED BY <1>0, <3>1
  <2>4. InTurn(r)
    BY <1>0, <1>1, <2>3 DEF InTurn, Now, Becomes
  <2>5. Turn(r)'
    BY <1>0, <1>1, <2>1 DEF Turn, Now, Becomes, Before, Active
  <2>6. ASSUME req[r].op = "remove", req[r].ok, req[r].saw \in Requests
        PROVE  /\ ~KeptValue(req[r].saw)' /\ ~Active(req[r].saw)'
               /\ \A s \in Requests : Active(s)' => req'[s].saw # req[r].saw
    <3>1. Reads(r) /\ Done(req[r].saw) /\ req[req[r].saw].client = req[r].client /\ req[r].saw # r
      BY <1>3, <2>6 DEF Reads, Inv, Local, Done, Common
    <3>4. \A s \in Requests : req[s].saw = req[r].saw => req[s].client = req[r].client
      BY <1>3, <2>6, <3>1 DEF Inv, Local, Common
    <3>2. CASE Keyed
      <4>1. ~KeptValue(req[r].saw)
        BY <1>0, <1>3, <2>6, <3>2 DEF OrderInv, Removed
      <4> QED BY <1>0, <1>1, <2>1, <2>6, <3>1, <3>2, <3>4, <4>1 DEF KeptValue, Keyed, Active, Now, Becomes, OneEach
    <3>3. CASE ~Keyed
      <4>1. CookieTurn(r) /\ req[r].sent # None
        <5>1. CookieTurn(r)
          BY <1>0, <2>1, <3>1, <3>3 DEF Turn
        <5> QED BY <2>6, <5>1, SessionAssumption DEF CookieTurn, Verified
      <4>2. req[r].jar = None
        BY <1>0, <2>6, <4>1 DEF CookieTurn
      <4>3. \A c \in Clients, d \in Dirs : cookies'[c][d] # req[r].saw
        BY <1>0, <2>1, <2>3, <2>6, <4>2, SessionAssumption, <3>1, <3>3 DEF Inv, Carries
      <4> QED BY <1>0, <1>1, <2>1, <2>6, <3>1, <3>3, <3>4, <4>3 DEF KeptValue, Keyed, Active, Now, Becomes, OneEach
    <3> QED BY <3>2, <3>3
  <2>7. Removed(r)'
    BY <1>1, <2>6 DEF Removed, Now, Becomes
  <2> QED BY <2>4, <2>5, <2>7
<1> QED BY <1>2, <1>3 DEF Step

(* A step of one request keeps OrderInv.                                   *)
LEMMA StepOrder ==
  ASSUME Inv, Inv', OrderInv, NEW r \in Requests, Step(r)
  PROVE  OrderInv'
<1>1. StepOf(r) /\ (orderly' = orderly)
  BY DEF Step, StepOf
<1>2. \A i \in Ids : storage'[i] # None => i \in used'
  <2> SUFFICES ASSUME NEW i \in Ids, storage'[i] # None PROVE i \in used'
    OBVIOUS
  <2>1. CASE storage'[i] = storage[i]
    BY <1>1, <2>1 DEF OrderInv, StepOf
  <2>2. CASE i = req'[r].id
    <3>1. req'[r].client \in Clients
      BY DEF Inv, TypeOK, RequestState
    <3>2. Carries(req[r].client, i)'
      BY <1>1, <2>2, <3>1 DEF Carries, Holds, StepOf
    <3> QED BY <3>1, <3>2 DEF Inv
  <2> QED BY <1>1, <2>1, <2>2 DEF StepOf
<1>3. IsFiniteSet({s \in Requests : req'[s].pc # "idle"})
  <2>1. IsFiniteSet({s \in Requests : req[s].pc # "idle"} \cup {r})
    BY FS_AddElement DEF OrderInv
  <2>2. {s \in Requests : req'[s].pc # "idle"} \subseteq {s \in Requests : req[s].pc # "idle"} \cup {r}
    BY <1>1 DEF StepOf
  <2> QED BY <2>1, <2>2, FS_Subset
<1>4. ASSUME orderly PROVE OneEach'
  <2>1. OneEach /\ InTurn(r)
    BY <1>4 DEF OrderInv, Step
  <2> QED BY <1>1, <2>1 DEF OneEach, InTurn, StepOf, Active
<1>5. ASSUME orderly, NEW c \in Clients, NEW d \in Dirs, d # Root
      PROVE  cookies'[c][d] \notin Requests
  BY <1>1, <1>5 DEF OrderInv, Step, InTurn
<1>6. ASSUME orderly, NEW s \in Requests PROVE Turn(s)' /\ Removed(s)'
  <2>1. /\ OneEach /\ InTurn(r) /\ Turn(r) /\ Turn(r)' /\ Removed(r)' /\ Turn(s) /\ Removed(s)
    BY <1>6 DEF OrderInv, Step
  <2> QED BY <1>1, <1>6, <2>1, OthersTurn, OthersRemoved
<1> QED BY <1>1, <1>2, <1>3, <1>4, <1>5, <1>6 DEF OrderInv

(* A value that expires keeps OrderInv.                                    *)
LEMMA ExpireOrder ==
  ASSUME Inv, OrderInv, NEW i \in Ids, Expire(i)
  PROVE  OrderInv'
<1>1. /\ UNCHANGED <<orderly, backend, cookies, used, req>> /\ Keyed
      /\ storage' = [storage EXCEPT ![i] = None] /\ storage \in [Ids -> Value]
  BY DEF Expire, Inv, TypeOK, Keyed
<1>2. \A j \in Ids : storage'[j] = IF j = i THEN None ELSE storage[j]
  BY <1>1
<1>3. ASSUME orderly, NEW s \in Requests PROVE Turn(s)'
  <2>1. Turn(s)
    BY <1>3 DEF OrderInv
  <2>2. Shown(req[s].sent)' \in {Shown(req[s].sent), None}
    BY <1>1, <1>2 DEF Shown, Verified
  <2> QED BY <1>1, <2>1, <2>2, TurnKept
<1>4. ASSUME orderly, NEW s \in Requests PROVE Removed(s)'
  <2>1. ASSUME NEW v \in Requests, KeptValue(v)' PROVE KeptValue(v)
    BY <1>1, <1>2, <2>1, SessionAssumption DEF KeptValue
  <2>2. Removed(s)
    BY <1>4 DEF OrderInv
  <2> QED BY <1>1, <2>1, <2>2 DEF Removed, Keyed, Active
<1> QED BY <1>1, <1>2, <1>3, <1>4 DEF OrderInv, OneEach, Active

(* A restart keeps OrderInv: every request in progress is lost.            *)
LEMMA RestartOrder ==
  ASSUME Inv, OrderInv, Restart
  PROVE  OrderInv'
<1>1. /\ UNCHANGED <<orderly, backend, cookies, used>> /\ req \in [Requests -> RequestState]
      /\ req' = [r \in Requests |-> IF Active(r) THEN [req[r] EXCEPT !.pc = "lost"] ELSE req[r]]
      /\ storage' = [i \in Ids |-> None] \/ storage' = storage
  BY DEF Restart, Inv, TypeOK
<1>2. ASSUME NEW s \in Requests
      PROVE  /\ req'[s].pc \in {"idle", "answered", "lost"} /\ req'[s].dir = req[s].dir
             /\ req'[s].op = req[s].op /\ req'[s].value = req[s].value /\ req'[s].saw = req[s].saw
             /\ req'[s].ok = req[s].ok /\ (req'[s].pc # "lost" => req'[s] = req[s])
             /\ (req[s].pc = "idle") <=> (req'[s].pc = "idle")
  <2>1. req[s] \in RequestState
    BY <1>1
  <2>2. CASE Active(s)
    <3>1. req'[s] = [req[s] EXCEPT !.pc = "lost"] /\ req[s].pc # "idle"
      BY <1>1, <2>2 DEF Active
    <3> QED BY <2>1, <3>1 DEF RequestState
  <2>3. CASE ~Active(s)
    BY <1>1, <2>1, <2>3 DEF Active
  <2> QED BY <2>2, <2>3
<1>3. \A s : s \in Requests => ~Active(s)'
  BY <1>2 DEF Active
<1>4. ASSUME orderly, NEW s \in Requests PROVE Turn(s)'
  BY <1>2, <1>3, <1>4 DEF OrderInv, Turn, Before
<1>5. ASSUME orderly, NEW s \in Requests PROVE Removed(s)'
  <2>1. ASSUME NEW v \in Requests, KeptValue(v)' PROVE KeptValue(v)
    BY <1>1, <2>1, SessionAssumption DEF KeptValue
  <2>2. Removed(s)
    BY <1>5 DEF OrderInv
  <2> QED BY <1>1, <1>2, <1>3, <2>1, <2>2 DEF Removed, Keyed
<1>6. {s \in Requests : req'[s].pc # "idle"} = {s \in Requests : req[s].pc # "idle"}
  BY <1>2
<1>7. \A i \in Ids : storage'[i] # None => i \in used'
  BY <1>1 DEF OrderInv
<1> QED BY <1>1, <1>3, <1>4, <1>5, <1>6, <1>7 DEF OrderInv, OneEach

(* OrderInv holds before the first request.                                *)
LEMMA InitOrder == Init => OrderInv
<1> SUFFICES ASSUME Init PROVE OrderInv
  OBVIOUS
<1>1. PICK c \in Clients : req = [r \in Requests |-> Fresh(c, Root)]
  BY DEF Init
<1>2. \A r \in Requests : req[r] = Fresh(c, Root) /\ ~Active(r) /\ req[r].pc = "idle" /\ req[r].op = "none"
  BY <1>1 DEF Fresh, Active
<1>3. {r \in Requests : req[r].pc # "idle"} = {}
  BY <1>2
<1>4. \A r \in Requests : Turn(r) /\ Removed(r)
  BY <1>2 DEF Turn, Removed, Fresh, Before
<1>5. \A e \in Clients, d \in Dirs : cookies[e][d] \notin Requests
  BY SessionAssumption DEF Init
<1> QED BY <1>2, <1>3, <1>4, <1>5, FS_EmptySet DEF OrderInv, Init, OneEach

(* Each action of a request is a step in the sense of Step.                *)
LEMMA RequestStep ==
  ASSUME Inv, OrderInv, NEW r \in Requests,
         \/ \E c \in Clients, d \in Dirs : Send(r, c, d)
         \/ Reading(r) \/ Writing(r) \/ Deliver(r) \/ Lose(r)
         \/ \E op \in {"keep", "set", "remove"} : Handle(r, op)
  PROVE  Step(r)
<1>1. ASSUME Writing(r) PROVE Step(r)
  <2>1. CASE HandlerFails(r) \/ CommandFails(r)
    <3>1. Answer(r, FALSE) /\ Active(r) /\ UNCHANGED Others
      BY <2>1 DEF HandlerFails, CommandFails, Active, Others
    <3> QED BY <3>1, AnswerStep
  <2> QED BY <1>1, <2>1, MemoryWriteStep, RedisWriteStep, CookieWriteStep, ExecutedStep, RepliedStep DEF Writing
<1> QED BY <1>1, SendStep, ReadStep, HandleStep, DeliverStep, LoseStep

(* OrderInv is inductive, given Inv.                                       *)
LEMMA OrderKept == Inv /\ Inv' /\ OrderInv /\ [Next]_vars => OrderInv'
<1> SUFFICES ASSUME Inv, Inv', OrderInv, [Next]_vars PROVE OrderInv'
  OBVIOUS
<1>1. ASSUME NEW r \in Requests,
             \/ \E c \in Clients, d \in Dirs : Send(r, c, d)
             \/ Reading(r) \/ Writing(r) \/ Deliver(r) \/ Lose(r)
             \/ \E op \in {"keep", "set", "remove"} : Handle(r, op)
      PROVE  OrderInv'
  BY <1>1, RequestStep, StepOrder
<1>2. ASSUME NEW i \in Ids, Expire(i) PROVE OrderInv'
  BY <1>2, ExpireOrder
<1>3. CASE Restart
  BY <1>3, RestartOrder
<1>4. CASE UNCHANGED vars
  BY <1>4 DEF vars, OrderInv, OneEach, Turn, Removed, KeyedTurn, CookieTurn, Active, Reads, Shown,
             Verified, Keyed, KeptValue
<1> QED BY <1>1, <1>2, <1>3, <1>4 DEF Next

(* In orderly use, where a client waits for each answer: it has one      *)
(* request in progress, whose cookie is the one it sent, and what that   *)
(* request read, kept in its jar and left in storage fit together        *)
(* (OrderInv).                                                           *)
THEOREM OrderInvariance == Spec => []OrderInv
<1> QED BY InitOrder, OrderKept, Invariance, PTL DEF Spec

(* In orderly use, of clients that send one request at a time, all of    *)
(* them in the root directory, and have no session id in common, a value *)
(* that a handler has removed stays removed once its request is answered *)
(* with success, with each backend, whatever expires, is lost or         *)
(* restarts (session.rs:44, RawSession::write of the three backends).    *)
THEOREM RemovalLasts == Spec => []RemovedStays
<1>1. OrderInv => RemovedStays
  BY DEF OrderInv, Removed, RemovedStays
<1> QED BY <1>1, OrderInvariance, PTL

(*-------------------- the register of SessionRegister --------------------*)

(* The cookie that the client of r is to send next.                        *)
Jar(r) == IF req[r].jar # Keep THEN req[r].jar ELSE cookies[req[r].client][Root]

(* The open request of SessionRegister.                                    *)
View(r) ==
  IF Reads(r)
  THEN [saw |-> req[r].saw, want |-> IF req[r].op = "none" THEN Keep ELSE req[r].value,
        applied |-> req[r].applied]
  ELSE None

(* The register and the open request of a client in terms of its request.  *)
Seen(r) == Register[req[r].client] = Shown(Jar(r)) /\ Open[req[r].client] = View(r)

(* The register of a client without a request in progress.                 *)
Alone(c) ==
  (\A s \in Requests : Active(s) => req[s].client # c)
    => Register[c] = Shown(cookies[c][Root]) /\ Open[c] = None

(* The register of a client is what its cookie shows.                      *)
LEMMA CookieShown ==
  ASSUME NEW c \in Clients
  PROVE  Register[c] = Shown(Cookie(c))
BY DEF Register, Shown

(* The register and the open request of a client are those of its request  *)
(* in progress.                                                            *)
LEMMA SeenLemma ==
  ASSUME TypeOK, OneEach, NEW r \in Requests, Active(r)
  PROVE  Seen(r)
<1> DEFINE c == req[r].client
<1>1. c \in Clients
  BY DEF TypeOK, RequestState
<1>2. InProgress(c) = {r}
  BY DEF InProgress, OneEach
<1>3. \A S : S = {r} => (CHOOSE s \in S : TRUE) = r
  OBVIOUS
<1>4. Cookie(c) = Jar(r)
  <2>1. CASE req[r].jar # Keep
    <3>1. {s \in InProgress(c) : req[s].jar # Keep} = {r}
      BY <1>2, <2>1
    <3> QED BY <1>3, <2>1, <3>1 DEF Cookie, Jar
  <2>2. CASE req[r].jar = Keep
    BY <1>2, <2>2 DEF Cookie, Jar
  <2> QED BY <2>1, <2>2
<1>5. Open[c] = View(r)
  <2>1. CASE Reads(r)
    <3>1. {s \in InProgress(c) : req[s].op # "none" \/ req[s].pc = "handler"} = {r}
      BY <1>2, <2>1 DEF Reads
    <3> QED BY <1>1, <1>3, <2>1, <3>1 DEF Open, View
  <2>2. CASE ~Reads(r)
    <3>1. {s \in InProgress(c) : req[s].op # "none" \/ req[s].pc = "handler"} = {}
      BY <1>2, <2>2 DEF Reads
    <3> QED BY <1>1, <2>2, <3>1 DEF Open, View
  <2> QED BY <2>1, <2>2
<1> QED BY <1>1, <1>4, <1>5, CookieShown DEF Seen

(* Without a request in progress a client has what its cookie shows.       *)
LEMMA AloneLemma ==
  ASSUME TypeOK, NEW c \in Clients
  PROVE  Alone(c)
<1> SUFFICES ASSUME \A s \in Requests : Active(s) => req[s].client # c
             PROVE  Register[c] = Shown(cookies[c][Root]) /\ Open[c] = None
  BY DEF Alone
<1>1. InProgress(c) = {}
  BY DEF InProgress
<1>2. Cookie(c) = cookies[c][Root]
  BY <1>1 DEF Cookie
<1>3. Open[c] = None
  BY <1>1 DEF Open
<1> QED BY <1>2, <1>3, CookieShown

(* The two, of all clients.                                                *)
Viewed ==
  /\ \A r \in Requests : Active(r) => Seen(r)
  /\ \A c \in Clients : Alone(c)

(* The two together.                                                       *)
LEMMA Views == TypeOK /\ OneEach => Viewed
BY SeenLemma, AloneLemma DEF Viewed

(* The same of the next state.                                             *)
LEMMA ViewsNext == TypeOK' /\ OneEach' => Viewed'
BY Views, PTL

(* The three variables of the register are functions of the clients.       *)
LEMMA FunctionsOfClients ==
  /\ Register = [c \in Clients |-> Register[c]] /\ Register' = [c \in Clients |-> Register'[c]]
  /\ Open = [c \in Clients |-> Open[c]] /\ Open' = [c \in Clients |-> Open'[c]]
  /\ Successes = [c \in Clients |-> Successes[c]] /\ Successes' = [c \in Clients |-> Successes'[c]]
BY DEF Register, Open, Successes

(* Nothing changes at client c.                                            *)
Same(c) == Register'[c] = Register[c] /\ Open'[c] = Open[c] /\ Successes'[c] = Successes[c]

(* The steps of SessionRegister, at one client.                            *)
Moves(c) ==
  \/ Same(c)
  \/ /\ Open[c] = None /\ Open'[c] = [saw |-> Register[c], want |-> Keep, applied |-> FALSE]
     /\ Register'[c] = Register[c] /\ Successes'[c] = Successes[c]
  \/ /\ Register'[c] = Register[c] /\ Successes'[c] = Successes[c]
     /\ Open[c] # None /\ Open[c].want = Keep
     /\ \E v \in Value : Open'[c] = [Open[c] EXCEPT !.want = v]
  \/ /\ Open[c] # None /\ Open[c].want # Keep /\ Register'[c] = Open[c].want
     /\ Open'[c] = [Open[c] EXCEPT !.applied = TRUE] /\ Successes'[c] = Successes[c]
  \/ /\ Open[c] # None /\ Open[c].applied /\ Open'[c] = None
     /\ Successes'[c] = Successes[c] + 1 /\ Register'[c] = Register[c]
  \/ /\ Open[c] # None /\ Open'[c] = None /\ Register'[c] \in {Register[c], Open[c].saw}
     /\ Successes'[c] = Successes[c]

(* A move at one client, with the others as they were, is a step of        *)
(* SessionRegister or a stutter.                                           *)
LEMMA MoveNext ==
  ASSUME NEW c \in Clients, Moves(c), \A e \in Clients : e # c => Same(e), UNCHANGED backend
  PROVE  SR!Next \/ UNCHANGED SR!vars
<1>1. /\ Register' = [Register EXCEPT ![c] = Register'[c]]
      /\ Open' = [Open EXCEPT ![c] = Open'[c]]
      /\ Successes' = [Successes EXCEPT ![c] = Successes'[c]]
  BY FunctionsOfClients DEF Same
<1>2. /\ Register'[c] = Register[c] => Register' = Register
      /\ Open'[c] = Open[c] => Open' = Open
      /\ Successes'[c] = Successes[c] => Successes' = Successes
  BY FunctionsOfClients DEF Same
<1>3. CASE Same(c)
  BY <1>2, <1>3 DEF Same, SR!vars
<1>4. CASE /\ Open[c] = None /\ Open'[c] = [saw |-> Register[c], want |-> Keep, applied |-> FALSE]
           /\ Register'[c] = Register[c] /\ Successes'[c] = Successes[c]
  <2>1. SR!Read(c)
    BY <1>1, <1>2, <1>4 DEF SR!Read
  <2> QED BY <2>1 DEF SR!Next
<1>5. CASE /\ Register'[c] = Register[c] /\ Successes'[c] = Successes[c]
           /\ Open[c] # None /\ Open[c].want = Keep
           /\ \E v \in Value : Open'[c] = [Open[c] EXCEPT !.want = v]
  <2>1. PICK v \in Value : Open'[c] = [Open[c] EXCEPT !.want = v]
    BY <1>5
  <2>2. SR!Decide(c, v)
    BY <1>1, <1>2, <1>5, <2>1, FunctionsOfClients DEF SR!Decide
  <2>3. v \in SR!Contents
    BY DEF SR!Contents, Value
  <2> QED BY <2>2, <2>3 DEF SR!Next
<1>6. CASE /\ Open[c] # None /\ Open[c].want # Keep /\ Register'[c] = Open[c].want
           /\ Open'[c] = [Open[c] EXCEPT !.applied = TRUE] /\ Successes'[c] = Successes[c]
  <2>1. SR!Apply(c)
    BY <1>1, <1>2, <1>6, FunctionsOfClients DEF SR!Apply
  <2> QED BY <2>1 DEF SR!Next
<1>7. CASE /\ Open[c] # None /\ Open[c].applied /\ Open'[c] = None
           /\ Successes'[c] = Successes[c] + 1 /\ Register'[c] = Register[c]
  <2>1. SR!Succeed(c)
    BY <1>1, <1>2, <1>7, FunctionsOfClients DEF SR!Succeed
  <2> QED BY <2>1 DEF SR!Next
<1>8. CASE /\ Open[c] # None /\ Open'[c] = None /\ Register'[c] \in {Register[c], Open[c].saw}
           /\ Successes'[c] = Successes[c]
  <2>1. SR!Fail(c)
    BY <1>1, <1>2, <1>8, FunctionsOfClients DEF SR!Fail
  <2> QED BY <2>1 DEF SR!Next
<1> QED BY <1>3, <1>4, <1>5, <1>6, <1>7, <1>8 DEF Moves

(* A step of one client does not touch what another one has stored.        *)
LEMMA StoredKept ==
  ASSUME Inv', orderly, NEW r \in Requests, StepOf(r), NEW c \in Clients, c # req'[r].client,
         NEW i \in Ids, Carries(c, i)'
  PROVE  storage'[i] = storage[i]
<1>1. req'[r].client \in Clients
  BY DEF Inv, TypeOK, RequestState
<1>2. i = req'[r].id => Carries(req[r].client, i)'
  BY <1>1 DEF Carries, Holds, StepOf
<1>3. i # req'[r].id
  BY <1>1, <1>2 DEF Inv, Common, StepOf
<1> QED BY <1>3 DEF StepOf

(* A step of one client does not touch the register of another one.        *)
LEMMA OthersSame ==
  ASSUME Inv, Inv', OrderInv, OrderInv', orderly, NEW r \in Requests, StepOf(r), InTurn(r),
         NEW c \in Clients, c # req'[r].client
  PROVE  Same(c)
<1>1. Viewed /\ Viewed' /\ OneEach /\ UNCHANGED backend
  BY Views, ViewsNext DEF Inv, OrderInv, StepOf
<1>2. /\ \A s \in Requests : s # r => req'[s] = req[s] /\ (Active(s)' <=> Active(s))
      /\ Active(r) => req[r].client # c
      /\ req[r].pc = "answered" => FALSE
  BY DEF StepOf, Active
<1>3. Successes'[c] = Successes[c]
  <2>1. {s \in Requests : req'[s].client = c /\ req'[s].pc = "answered" /\ req'[s].ok}
          = {s \in Requests : req[s].client = c /\ req[s].pc = "answered" /\ req[s].ok}
    BY <1>2
  <2> QED BY <2>1 DEF Successes
<1>4. Root \in Dirs /\ cookies'[c][Root] = cookies[c][Root]
  BY <1>2, SessionAssumption DEF InTurn
<1>5. CASE \E s \in Requests : Active(s) /\ req[s].client = c
  <2>1. PICK s \in Requests : Active(s) /\ req[s].client = c
    BY <1>5
  <2>2. s # r /\ req'[s] = req[s] /\ Active(s)'
    BY <1>2, <2>1
  <2>3. Seen(s) /\ Seen(s)'
    BY <1>1, <2>1, <2>2 DEF Viewed
  <2>4. View(s)' = View(s)
    BY <2>2 DEF View, Reads
  <2>5. Jar(s)' = Jar(s) /\ Carries(c, Jar(s))'
    <3>1. Jar(s)' = Jar(s)
      BY <1>4, <2>1, <2>2 DEF Jar
    <3>2. (req'[s].jar = Jar(s) /\ req'[s].client = c /\ req'[s].pc # "idle") \/ cookies'[c][Root] = Jar(s)
      BY <1>4, <2>1, <2>2 DEF Jar, Active
    <3> QED BY <1>4, <3>1, <3>2 DEF Carries, Holds
  <2>6. Shown(Jar(s))' = Shown(Jar(s))
    <3>1. Jar(s) \in Ids => storage'[Jar(s)] = storage[Jar(s)]
      BY <2>5, StoredKept
    <3> QED BY <1>1, <2>5, <3>1 DEF Shown, Verified
  <2> QED BY <1>3, <2>1, <2>2, <2>3, <2>4, <2>6 DEF Seen, Same
<1>6. CASE \A s \in Requests : Active(s) => req[s].client # c
  <2>1. \A s \in Requests : Active(s)' => req'[s].client # c
    BY <1>2, <1>6
  <2>2. /\ Register[c] = Shown(cookies[c][Root]) /\ Open[c] = None
        /\ Register'[c] = Shown(cookies[c][Root])' /\ Open'[c] = None
    BY <1>1, <1>6, <2>1 DEF Viewed, Alone
  <2>3. cookies[c][Root] \in Ids => storage'[cookies[c][Root]] = storage[cookies[c][Root]]
    BY <1>4, StoredKept DEF Carries
  <2>4. Shown(cookies[c][Root])' = Shown(cookies[c][Root])
    BY <1>1, <1>4, <2>3 DEF Shown, Verified
  <2> QED BY <1>3, <2>2, <2>4 DEF Same
<1> QED BY <1>5, <1>6

(* At the client of r, while r is in progress before and after the step.   *)
LEMMA OwnViews ==
  ASSUME Inv, Inv', OrderInv, OrderInv', orderly, NEW r \in Requests, StepOf(r),
         Active(r), Active(r)'
  PROVE  /\ req[r].client \in Clients /\ req'[r].client = req[r].client
         /\ Register[req[r].client] = Shown(Jar(r)) /\ Open[req[r].client] = View(r)
         /\ Register'[req[r].client] = Shown(Jar(r))' /\ Open'[req[r].client] = View(r)'
         /\ Successes'[req[r].client] = Successes[req[r].client]
<1> DEFINE c == req[r].client
<1>1. Viewed /\ Viewed' /\ c \in Clients
  BY Views, ViewsNext DEF Inv, OrderInv, StepOf, TypeOK, RequestState
<1>2. req'[r].client = c
  BY DEF StepOf, Active
<1>3. Seen(r) /\ Seen(r)'
  BY <1>1 DEF Viewed
<1>4. {s \in Requests : req'[s].client = c /\ req'[s].pc = "answered" /\ req'[s].ok}
          = {s \in Requests : req[s].client = c /\ req[s].pc = "answered" /\ req[s].ok}
  BY DEF StepOf, Active
<1>5. Successes'[c] = Successes[c]
  BY <1>1, <1>2, <1>4 DEF Successes
<1> QED BY <1>1, <1>2, <1>3, <1>5 DEF Seen

(* A step in orderly use.                                                  *)
Ordered == Inv /\ Inv' /\ OrderInv /\ OrderInv' /\ orderly

(* A step that changes neither what a request has seen and wants nor what  *)
(* its jar shows is a stutter.                                             *)
LEMMA Unmoved ==
  ASSUME Ordered, NEW r \in Requests, StepOf(r), Active(r), Active(r)',
         View(r)' = View(r), Shown(Jar(r))' = Shown(Jar(r))
  PROVE  Moves(req'[r].client)
BY OwnViews DEF Ordered, Moves, Same

(* The record of a request whose handler has decided.                      *)
LEMMA Decided ==
  ASSUME TypeOK, NEW r \in Requests, Reads(r), req[r].op # "none"
  PROVE  /\ View(r) = [saw |-> req[r].saw, want |-> req[r].value, applied |-> req[r].applied]
         /\ View(r) # None /\ req[r].value # Keep
BY SessionAssumption, IdleAssumption DEF View, TypeOK, RequestState, Value

(* A step that makes the jar show what the handler wants is Apply.         *)
LEMMA Applies ==
  ASSUME Ordered, NEW r \in Requests, StepOf(r), Active(r), Active(r)',
         req[r].op # "none", req'[r].op = req[r].op, req'[r].saw = req[r].saw,
         req'[r].value = req[r].value, req'[r].applied = TRUE,
         Shown(Jar(r))' = req[r].value
  PROVE  Moves(req'[r].client)
<1> DEFINE c == req[r].client
<1>1. /\ req'[r].client = c /\ Register[c] = Shown(Jar(r)) /\ Open[c] = View(r)
      /\ Register'[c] = req[r].value /\ Open'[c] = View(r)' /\ Successes'[c] = Successes[c]
  BY OwnViews DEF Ordered
<1>2. /\ View(r) = [saw |-> req[r].saw, want |-> req[r].value, applied |-> req[r].applied]
      /\ View(r) # None /\ req[r].value # Keep
  BY Decided DEF Ordered, Inv, Reads
<1>3. View(r)' = [saw |-> req[r].saw, want |-> req[r].value, applied |-> TRUE]
  BY DEF View, Reads
<1>4. View(r)' = [View(r) EXCEPT !.applied = TRUE]
  <2> DEFINE q == [saw |-> req[r].saw, want |-> req[r].value, applied |-> req[r].applied]
  <2>1. [q EXCEPT !.applied = TRUE] = [saw |-> req[r].saw, want |-> req[r].value, applied |-> TRUE]
    <3> DEFINE b == TRUE
    <3> HIDE DEF b
    <3>1. [q EXCEPT !.applied = b] = [saw |-> req[r].saw, want |-> req[r].value, applied |-> b]
      OBVIOUS
    <3> QED BY <3>1 DEF b
  <2>2. View(r) = q
    BY <1>2
  <2> HIDE DEF q
  <2> QED BY <1>3, <2>1, <2>2
<1> QED BY <1>1, <1>2, <1>4 DEF Moves

(* The jar shows the same where nothing is stored, sent or delivered.      *)
LEMMA JarSame ==
  ASSUME NEW r \in Requests, req'[r].jar = req[r].jar, req'[r].client = req[r].client,
         UNCHANGED <<backend, cookies, storage>>
  PROVE  Shown(Jar(r))' = Shown(Jar(r))
BY DEF Shown, Jar, Verified

(* An answer is a stutter: the client does not know of it yet.             *)
LEMMA AnswerMoves ==
  ASSUME Ordered, NEW r \in Requests, NEW ok, StepOf(r), Active(r), req[r].pc # "handler",
         Answer(r, ok), UNCHANGED Others
  PROVE  Moves(req'[r].client)
<1>1. Becomes(r, "answering", req[r].id, req[r].value, req[r].saw, req[r].op, req[r].jar, ok, req[r].applied)
  BY AnswerBecomes DEF Ordered, Inv
<1>2. View(r)' = View(r) /\ Active(r)'
  BY <1>1 DEF View, Reads, Becomes, Active
<1>3. Shown(Jar(r))' = Shown(Jar(r))
  BY <1>1, JarSame DEF Becomes, Others
<1> QED BY <1>2, <1>3, Unmoved

(* A request that has not read its session has changed nothing.            *)
LEMMA NotYetRead ==
  ASSUME Ordered, NEW r \in Requests, req[r].pc \in Before \ {"handler"}
  PROVE  /\ Active(r) /\ ~Reads(r) /\ req[r].jar = Keep /\ req[r].op = "none" /\ req[r].applied = FALSE
         /\ req[r].sent = cookies[req[r].client][Root] /\ Jar(r) = req[r].sent /\ View(r) = None
         /\ ~Keyed => req[r].sent \notin Ids
<1>1. /\ Active(r) /\ ~Reads(r) /\ req[r].jar = Keep /\ req[r].op = "none" /\ req[r].applied = FALSE
      /\ req[r].sent = cookies[req[r].client][Root]
  BY DEF Ordered, Inv, Local, TypeOK, RequestState, OrderInv, Turn, Before, Active, Reads
<1>2. req[r].client \in Clients
  BY DEF Ordered, Inv, TypeOK, RequestState
<1>3. Carries(req[r].client, req[r].sent)
  BY <1>1, <1>2 DEF Carries, Holds, Active
<1> QED BY <1>1, <1>2, <1>3 DEF Jar, View, Ordered, Inv

(* Finding the session is Read.                                            *)
LEMMA FoundMoves ==
  ASSUME Ordered, NEW r \in Requests, StepOf(r), req[r].pc \in Before \ {"handler"},
         NEW id, NEW value, Found(r, id, value), UNCHANGED Others,
         value = Shown(req[r].sent)
  PROVE  Moves(req'[r].client)
<1> DEFINE c == req[r].client
<1>1. Becomes(r, "handler", id, value, value, req[r].op, req[r].jar, req[r].ok, req[r].applied)
  BY FoundBecomes DEF Ordered, Inv
<1>2. /\ Active(r) /\ ~Reads(r) /\ req[r].op = "none" /\ req[r].applied = FALSE
      /\ Jar(r) = req[r].sent /\ View(r) = None
  BY NotYetRead
<1>3. Active(r)' /\ View(r)' = [saw |-> value, want |-> Keep, applied |-> FALSE]
  BY <1>1, <1>2 DEF View, Reads, Becomes, Active
<1>4. Shown(Jar(r))' = Shown(Jar(r))
  BY <1>1, JarSame DEF Becomes, Others
<1>5. /\ req'[r].client = c /\ Register[c] = value /\ Open[c] = None
      /\ Register'[c] = value /\ Open'[c] = View(r)' /\ Successes'[c] = Successes[c]
  BY <1>2, <1>3, <1>4, OwnViews DEF Ordered
<1> QED BY <1>3, <1>5 DEF Moves

(* Each way to read the session is Read, or a stutter on the way to it.    *)
LEMMA ReadMoves ==
  ASSUME Ordered, NEW r \in Requests, Step(r), Reading(r)
  PROVE  Moves(req'[r].client)
<1>0. TypeOK /\ StepOf(r) /\ None \notin Ids
  BY SessionAssumption DEF Ordered, Inv, Step
<1>1. CASE BadId(r) \/ ReadFails(r)
  <2>1. Answer(r, FALSE) /\ Active(r) /\ req[r].pc # "handler" /\ UNCHANGED Others
    BY <1>1 DEF BadId, ReadFails, Active, Others
  <2> QED BY <1>0, <2>1, AnswerMoves
<1>2. CASE MemoryRead(r)
  <2>1. req[r].pc \in Before \ {"handler"} /\ UNCHANGED Others /\ Keyed
    BY <1>2 DEF MemoryRead, Before, Others, Keyed
  <2>2. CASE req[r].sent = None /\ Found(r, None, None)
    <3>1. None = Shown(req[r].sent)
      BY <1>0, <2>1, <2>2 DEF Shown, Keyed
    <3> QED BY <1>0, <2>1, <2>2, <3>1, FoundMoves
  <2>3. CASE req[r].sent \in Ids /\ Found(r, req[r].sent, storage[req[r].sent])
    <3>1. storage[req[r].sent] = Shown(req[r].sent)
      BY <2>3 DEF Shown
    <3> QED BY <1>0, <2>1, <2>3, <3>1, FoundMoves
  <2> QED BY <1>2, <2>2, <2>3 DEF MemoryRead
<1>3. ASSUME NEW pc \in {"connecting", "fetching"}, NEW id, req[r].pc \in Before \ {"handler"},
             Becomes(r, pc, id, req[r].value, req[r].saw, req[r].op, req[r].jar, req[r].ok, req[r].applied),
             UNCHANGED Others
      PROVE  Moves(req'[r].client)
  <2>1. Active(r) /\ ~Reads(r) /\ req[r].op = "none" /\ View(r) = None
    BY <1>3, NotYetRead
  <2>2. Active(r)' /\ View(r)' = None
    BY <1>3, <2>1 DEF View, Reads, Becomes, Active
  <2>3. Shown(Jar(r))' = Shown(Jar(r))
    BY <1>3, JarSame DEF Becomes, Others
  <2> QED BY <1>0, <2>1, <2>2, <2>3, Unmoved
<1>4. CASE RedisApply(r)
  <2>1. Becomes(r, "connecting", req[r].sent, req[r].value, req[r].saw, req[r].op, req[r].jar,
                req[r].ok, req[r].applied) /\ UNCHANGED Others /\ req[r].pc \in Before \ {"handler"}
    BY <1>0, <1>4, RedisBecomes DEF RedisApply, Others, Before
  <2> QED BY <1>3, <2>1
<1>5. CASE Connected(r)
  <2>1. UNCHANGED Others /\ req[r].pc = "connecting" /\ req[r].pc \in Before \ {"handler"}
    BY <1>5 DEF Connected, Others, Before
  <2>2. CASE req[r].id = None /\ Found(r, None, None)
    <3>1. req[r].sent = None /\ Keyed
      BY <2>1, <2>2 DEF Ordered, OrderInv, Turn
    <3>2. None = Shown(req[r].sent)
      BY <1>0, <3>1 DEF Shown, Keyed
    <3> QED BY <1>0, <2>1, <2>2, <3>2, FoundMoves
  <2>3. CASE Now(r, "fetching")
    BY <1>3, <2>1, <2>3 DEF Now
  <2> QED BY <1>0, <1>5, <2>2, <2>3, RedisBecomes
<1>6. CASE Fetched(r)
  <2>1. /\ UNCHANGED Others /\ req[r].pc \in Before \ {"handler"} /\ req[r].id \in Ids
        /\ Found(r, FoundId(req[r].id), storage[req[r].id]) /\ req[r].sent = req[r].id
    BY <1>6 DEF Fetched, Others, Ordered, Inv, Local, Before, OrderInv, Turn
  <2>2. storage[req[r].id] = Shown(req[r].sent)
    BY <2>1 DEF Shown
  <2> QED BY <1>0, <2>1, <2>2, FoundMoves
<1>7. CASE CookieRead(r)
  <2>1. /\ UNCHANGED Others /\ req[r].pc \in Before \ {"handler"} /\ ~Keyed
        /\ Found(r, None, Verified(req[r].sent))
    BY <1>7, SessionAssumption DEF CookieRead, Others, Before, Keyed
  <2>2. Verified(req[r].sent) = Shown(req[r].sent)
    BY <2>1, NotYetRead DEF Shown, Keyed
  <2> QED BY <1>0, <2>1, <2>2, FoundMoves
<1> QED BY <1>1, <1>2, <1>4, <1>5, <1>6, <1>7 DEF Reading

(* The handler is Decide.                                                  *)
LEMMA HandleMoves ==
  ASSUME Ordered, NEW r \in Requests, Step(r), NEW op \in {"keep", "set", "remove"}, Handle(r, op)
  PROVE  Moves(req'[r].client)
<1> DEFINE v == CASE op = "keep" -> req[r].value [] op = "set" -> r [] op = "remove" -> None
           c == req[r].client
<1>1. /\ UNCHANGED Others /\ req[r].pc = "handler" /\ Active(r) /\ TypeOK /\ StepOf(r)
      /\ req[r].op = "none" /\ req[r].saw \in Value /\ req[r].value \in Value /\ req[r].applied \in BOOLEAN
  BY SMTT(30) DEF Handle, Active, Others, Ordered, Inv, Local, Before, Step, TypeOK, RequestState
<1>2. Becomes(r, "running", req[r].id, v, req[r].saw, op, req[r].jar, req[r].ok, req[r].applied)
  BY <1>1, HandleBecomes
<1>3. v \in Value /\ op # "none"
  BY <1>1 DEF Value
<1> HIDE DEF v
<1>4. View(r) = [saw |-> req[r].saw, want |-> Keep, applied |-> req[r].applied] /\ View(r) # None
  BY <1>1, IdleAssumption DEF View, Reads
<1>5. Active(r)' /\ View(r)' = [saw |-> req[r].saw, want |-> v, applied |-> req[r].applied]
  BY <1>2, <1>3 DEF View, Reads, Becomes, Active
<1>6. View(r)' = [View(r) EXCEPT !.want = v] /\ View(r).want = Keep
  BY <1>4, <1>5
<1>7. Shown(Jar(r))' = Shown(Jar(r))
  BY <1>1, <1>2, JarSame DEF Becomes, Others
<1>8. /\ req'[r].client = c /\ Register'[c] = Register[c] /\ Open[c] = View(r)
      /\ Open'[c] = View(r)' /\ Successes'[c] = Successes[c]
  BY <1>1, <1>5, <1>7, OwnViews DEF Ordered
<1> QED BY <1>3, <1>4, <1>6, <1>8 DEF Moves

(* The write of the in-memory backend is Apply.                            *)
LEMMA MemoryWriteMoves ==
  ASSUME Ordered, NEW r \in Requests, Step(r), MemoryWrite(r)
  PROVE  Moves(req'[r].client)
<1>0. /\ TypeOK /\ Active(r) /\ Keyed /\ req[r].pc = "running" /\ storage \in [Ids -> Value]
      /\ req[r].id \in Ids \cup {None} /\ None \notin Ids /\ StepOf(r) /\ Keep \notin Ids
      /\ req[r].client \in Clients
  BY SessionAssumption DEF Ordered, Inv, TypeOK, RequestState, MemoryWrite, Active, Keyed, Step
<1>1. /\ Turn(r) /\ req[r].jar = Keep /\ req[r].op # "none" /\ req[r].sent \in Ids \cup {None}
      /\ \/ req[r].id = req[r].sent /\ req[r].id # None
         \/ req[r].id = None /\ Shown(req[r].sent) = None /\ req[r].saw = None
  BY <1>0, RunningTurn DEF Ordered
<1>2. ASSUME NEW id \in Ids \cup {None}, NEW jar, Written(r, id, jar, "answering"),
             Shown(Jar(r))' = req[r].value
      PROVE  Moves(req'[r].client)
  <2>1. Becomes(r, "answering", id, req[r].value, req[r].saw, req[r].op, jar, TRUE, TRUE)
    BY <1>0, <1>2, WrittenBecomes
  <2>2. Active(r)'
    BY <2>1 DEF Becomes, Active
  <2> QED BY <1>0, <1>1, <1>2, <2>1, <2>2, Applies DEF Becomes
<1>3. CASE req[r].value # None /\ WriteValue(r)
  <2>1. PICK id \in IdFor(r) : Store(id, req[r].value) /\ Written(r, id, id, "answering")
    BY <1>3 DEF WriteValue
  <2>2. id \in Ids /\ storage'[id] = req[r].value
    BY <1>0, <2>1 DEF IdFor, Store
  <2>3. req'[r].jar = id
    BY <1>0, <2>1, WrittenBecomes DEF Becomes
  <2>4. Shown(Jar(r))' = req[r].value
    BY <1>0, <2>2, <2>3 DEF Shown, Jar
  <2> QED BY <1>2, <2>1, <2>2, <2>4
<1>4. CASE req[r].value = None /\ req[r].id # None /\ RemoveValue(r)
  <2>1. Written(r, req[r].id, None, "answering") /\ Removal(r) = None /\ Keep # None
    BY <1>0, <1>1, <1>4, SessionAssumption DEF RemoveValue, Removal
  <2>2. req'[r].jar = None /\ backend' = backend
    <3>1. Written(r, req[r].id, None, "answering")
      BY <2>1
    <3>2. Becomes(r, "answering", req[r].id, req[r].value, req[r].saw, req[r].op, None, TRUE, TRUE)
      BY <1>0, <3>1, WrittenBecomes
    <3> QED BY <3>1, <3>2 DEF Becomes, Written
  <2>3. Shown(Jar(r))' = None
    BY <1>0, <2>1, <2>2 DEF Shown, Jar, Keyed
  <2> QED BY <1>0, <1>2, <1>4, <2>1, <2>3
<1>5. CASE req[r].value = None /\ req[r].id = None /\ WriteNothing(r)
  <2>1. Written(r, None, Keep, "answering") /\ UNCHANGED <<backend, cookies, storage>>
    BY <1>5 DEF WriteNothing, Written
  <2>2. req'[r].jar = Keep /\ req'[r].client = req[r].client
    BY <1>0, <2>1, WrittenBecomes DEF Becomes
  <2>3. Shown(Jar(r))' = Shown(Jar(r))
    BY <1>1, <2>1, <2>2, JarSame
  <2>4. Jar(r) = req[r].sent
    BY <1>0, <1>1 DEF Jar, Turn
  <2> QED BY <1>1, <1>2, <1>5, <2>1, <2>3, <2>4
<1> QED BY <1>3, <1>4, <1>5 DEF MemoryWrite

(* The Redis backend changes the jar: of a removal that is Apply, of a value*)
(* it is a stutter until the command is executed.                          *)
LEMMA RedisWriteMoves ==
  ASSUME Ordered, NEW r \in Requests, Step(r), RedisWrite(r)
  PROVE  Moves(req'[r].client)
<1>0. /\ TypeOK /\ Active(r) /\ Keyed /\ req[r].pc = "running" /\ storage \in [Ids -> Value]
      /\ req[r].id \in Ids \cup {None} /\ None \notin Ids /\ StepOf(r) /\ Keep \notin Ids \cup {None}
      /\ req[r].client \in Clients
  BY SessionAssumption DEF Ordered, Inv, TypeOK, RequestState, RedisWrite, Active, Keyed, Step
<1>1. /\ Turn(r) /\ req[r].jar = Keep /\ req[r].op # "none" /\ req[r].sent \in Ids \cup {None}
      /\ ~req[r].applied
      /\ \/ req[r].id = req[r].sent /\ req[r].id # None
         \/ req[r].id = None /\ Shown(req[r].sent) = None /\ req[r].saw = None
  BY <1>0, RunningTurn DEF Ordered
<1>2. Jar(r) = req[r].sent
  BY <1>0, <1>1 DEF Jar, Turn
<1>3. ASSUME NEW id \in IdFor(r), req[r].value # None, Written(r, id, id, "command"), UNCHANGED storage
      PROVE  Moves(req'[r].client)
  <2>1. id \in Ids /\ backend' = backend
    BY <1>0, <1>3 DEF IdFor, Written
  <2>2. Becomes(r, "command", id, req[r].value, req[r].saw, req[r].op, id, FALSE, FALSE)
    BY <1>0, <1>3, WrittenBecomes
  <2>3. Active(r)' /\ View(r)' = View(r)
    BY <1>1, <2>2, <1>0 DEF View, Reads, Becomes, Active, TypeOK, RequestState
  <2>4. Shown(Jar(r))' = storage[id]
    BY <1>0, <1>3, <2>1, <2>2 DEF Shown, Jar, Becomes
  <2>5. storage[id] = Shown(Jar(r))
    <3>1. CASE req[r].id # None
      BY <1>1, <1>2, <1>3, <2>1, <3>1 DEF IdFor, Shown
    <3>2. CASE req[r].id = None
      <4>1. id \notin used
        BY <1>3, <3>2 DEF IdFor
      <4> QED BY <1>1, <1>2, <2>1, <3>2, <4>1 DEF Ordered, OrderInv
    <3> QED BY <3>1, <3>2
  <2> QED BY <1>0, <2>3, <2>4, <2>5, Unmoved
<1>4. CASE req[r].value = None /\ req[r].id # None /\ Written(r, req[r].id, Removal(r), "command") /\ UNCHANGED storage
  <2>1. Removal(r) = None
    BY <1>0, <1>1, <1>4 DEF Removal
  <2>2. Written(r, req[r].id, None, "command")
    BY <1>4, <2>1
  <2>3. Becomes(r, "command", req[r].id, req[r].value, req[r].saw, req[r].op, None, "command" = "answering",
                "command" = "answering" \/ req[r].value = None) /\ backend' = backend
    BY <1>0, <2>2, WrittenBecomes DEF Written
  <2>4. Active(r)' /\ Shown(Jar(r))' = None
    BY <1>0, <2>3 DEF Shown, Jar, Becomes, Active, Keyed
  <2> QED BY <1>0, <1>1, <1>4, <2>3, <2>4, Applies DEF Becomes
<1>5. CASE req[r].value = None /\ req[r].id = None /\ WriteNothing(r)
  <2>1. Written(r, None, Keep, "answering") /\ UNCHANGED <<backend, cookies, storage>>
    BY <1>5 DEF WriteNothing, Written
  <2>2. Becomes(r, "answering", None, None, req[r].saw, req[r].op, Keep, TRUE, TRUE)
    BY <1>0, <1>5, <2>1, WrittenBecomes
  <2>3. Active(r)' /\ Shown(Jar(r))' = Shown(Jar(r))
    BY <1>1, <2>1, <2>2, JarSame DEF Becomes, Active
  <2> QED BY <1>0, <1>1, <1>2, <1>5, <2>2, <2>3, Applies DEF Becomes
<1> QED BY <1>3, <1>4, <1>5 DEF RedisWrite

(* The command that Redis executes is Apply.                               *)
LEMMA ExecutedMoves ==
  ASSUME Ordered, NEW r \in Requests, Step(r), Executed(r)
  PROVE  Moves(req'[r].client)
<1>0. /\ TypeOK /\ Active(r) /\ Keyed /\ req[r].pc = "command" /\ storage \in [Ids -> Value]
      /\ req[r].id \in Ids /\ None \notin Ids /\ StepOf(r) /\ Keep \notin Ids \cup {None}
      /\ storage'[req[r].id] = req[r].value /\ backend' = backend
  BY SessionAssumption DEF Ordered, Inv, TypeOK, RequestState, Executed, Active, Local, Store, Step
<1>1. Becomes(r, "executed", req[r].id, req[r].value, req[r].saw, req[r].op, req[r].jar, req[r].ok, TRUE)
  BY <1>0, ClosingBecomes DEF Executed
<1>2. req[r].op # "none" /\ req[r].jar = IF req[r].value = None THEN None ELSE req[r].id
  BY <1>0 DEF Ordered, OrderInv, Turn, Reads, KeyedTurn
<1>3. Active(r)' /\ Shown(Jar(r))' = req[r].value
  BY <1>0, <1>1, <1>2 DEF Shown, Jar, Becomes, Active, Keyed
<1> QED BY <1>0, <1>1, <1>2, <1>3, Applies DEF Becomes

(* The write of the cookie backend is Apply.                               *)
LEMMA CookieWriteMoves ==
  ASSUME Ordered, NEW r \in Requests, Step(r), CookieWrite(r)
  PROVE  Moves(req'[r].client)
<1>0. /\ TypeOK /\ Active(r) /\ ~Keyed /\ req[r].pc = "running" /\ StepOf(r) /\ None \notin Ids
      /\ req[r].client \in Clients /\ req[r].value \in Value
  BY SessionAssumption DEF Ordered, Inv, CookieWrite, Active, Keyed, Step, TypeOK, RequestState
<1>1. PICK jar : /\ Written(r, None, jar, "answering")
                 /\ jar = IF req[r].value # None THEN req[r].value ELSE Removal(r)
  BY DEF CookieWrite, CookieWriteValue, CookieRemoveValue
<1>2. Becomes(r, "answering", None, req[r].value, req[r].saw, req[r].op, jar, TRUE, TRUE)
      /\ UNCHANGED <<backend, cookies>>
  BY <1>0, <1>1, WrittenBecomes DEF Written
<1>3. /\ CookieTurn(r) /\ req[r].op # "none" /\ req[r].sent = cookies[req[r].client][Root]
  BY <1>0 DEF Ordered, OrderInv, Turn, Reads
<1>4. Active(r)' /\ Shown(Jar(r))' = req[r].value
  <2>1. CASE req[r].value # None
    <3>1. jar = req[r].value /\ jar \notin Ids \cup {Keep}
      BY <1>0, <1>1, <2>1, SessionAssumption DEF Value
    <3>2. Verified(jar) = jar
      BY <1>3, <2>1, <3>1, SessionAssumption DEF Ordered, Inv, Local, CookieTurn, Verified
    <3> QED BY <1>0, <1>2, <3>1, <3>2 DEF Shown, Jar, Becomes, Active, Keyed, Verified
  <2>2. CASE req[r].value = None
    <3>1. Jar(r)' = None
      BY <1>1, <1>2, <1>3, <2>2, SessionAssumption DEF Removal, Jar, Becomes
    <3> QED BY <1>0, <1>2, <2>2, <3>1, SessionAssumption DEF Shown, Becomes, Active, Keyed, Verified
  <2> QED BY <2>1, <2>2
<1> QED BY <1>0, <1>2, <1>3, <1>4, Applies DEF Becomes

(* The record of a request that has read its session is not None.          *)
LEMMA Opened ==
  ASSUME TypeOK, NEW r \in Requests
  PROVE  /\ Reads(r) => View(r) # None /\ View(r).saw = req[r].saw /\ View(r).applied = req[r].applied
         /\ ~Reads(r) => View(r) = None
<1>1. /\ req[r].saw \in Value /\ req[r].applied \in BOOLEAN
      /\ (IF req[r].op = "none" THEN Keep ELSE req[r].value) \in Value \cup {Keep}
  BY DEF TypeOK, RequestState
<1> QED BY <1>1, IdleAssumption DEF View

(* A client without an answer finds what its request left in the jar, or   *)
(* what that request found.                                                *)
LEMMA Unanswered ==
  ASSUME Inv, OrderInv, orderly, NEW r \in Requests, Active(r)
  PROVE  /\ req[r].sent = cookies[req[r].client][Root]
         /\ ~Reads(r) => Shown(req[r].sent) = Shown(Jar(r))
         /\ Reads(r) => Shown(req[r].sent) \in {Shown(Jar(r)), req[r].saw}
<1>0. Turn(r) /\ req[r].sent = cookies[req[r].client][Root] /\ TypeOK
  BY DEF OrderInv, Turn, Inv
<1>1. ASSUME ~Reads(r) PROVE Shown(req[r].sent) = Shown(Jar(r))
  <2>1. req[r].pc \in Before \cup {"running", "answering"}
    BY <1>0, <1>1 DEF Turn, Reads, TypeOK, RequestState, Active, Before
  <2>2. req[r].jar = Keep
    BY <1>0, <1>1, <2>1 DEF Turn, Reads
  <2> QED BY <1>0, <2>2 DEF Jar
<1>2. ASSUME Reads(r), Keyed PROVE Shown(req[r].sent) \in {Shown(Jar(r)), req[r].saw}
  <2>1. KeyedTurn(r)
    BY <1>0, <1>2 DEF Turn
  <2>2. Shown(None) = None
    BY <1>2, SessionAssumption DEF Shown, Keyed
  <2>3. CASE req[r].jar = Keep
    BY <1>0, <2>3 DEF Jar
  <2>4. CASE req[r].jar # Keep
    <3>1. Jar(r) = req[r].jar
      BY <2>4 DEF Jar
    <3> QED BY <2>1, <2>2, <2>4, <3>1 DEF KeyedTurn
  <2> QED BY <2>3, <2>4
<1>3. ASSUME Reads(r), ~Keyed PROVE Shown(req[r].sent) = req[r].saw
  <2>1. CookieTurn(r)
    BY <1>0, <1>3 DEF Turn
  <2>2. req[r].client \in Clients
    BY <1>0 DEF TypeOK, RequestState
  <2>3. Carries(req[r].client, req[r].sent)
    BY <2>2 DEF Carries, Holds, Active
  <2>4. req[r].sent \notin Ids
    BY <1>3, <2>2, <2>3 DEF Inv
  <2> QED BY <1>3, <2>1, <2>4 DEF Shown, CookieTurn, Keyed
<1> QED BY <1>0, <1>1, <1>2, <1>3

(* The client of a request that ends has none in progress.                 *)
LEMMA Closed ==
  ASSUME Ordered, NEW r \in Requests, StepOf(r), Active(r), ~Active(r)'
  PROVE  /\ req[r].client \in Clients /\ req'[r].client = req[r].client
         /\ Register[req[r].client] = Shown(Jar(r)) /\ Open[req[r].client] = View(r)
         /\ Register'[req[r].client] = Shown(cookies[req[r].client][Root])'
         /\ Open'[req[r].client] = None
<1> DEFINE c == req[r].client
<1>1. Viewed /\ Viewed' /\ c \in Clients
  BY Views, ViewsNext DEF Ordered, Inv, OrderInv, StepOf, TypeOK, RequestState
<1>2. req'[r].client = c
  BY DEF StepOf, Active
<1>3. Seen(r)
  BY <1>1 DEF Viewed
<1>4. \A s \in Requests : Active(s)' => req'[s].client # c
  BY DEF StepOf, Active, Ordered, OrderInv, OneEach
<1>5. Register'[c] = Shown(cookies[req[r].client][Root])' /\ Open'[c] = None
  BY <1>1, <1>2, <1>4 DEF Viewed, Alone
<1> QED BY <1>1, <1>2, <1>3, <1>5 DEF Seen

(* A request that is dropped is Fail, or a stutter before it has read.     *)
LEMMA LoseMoves ==
  ASSUME Ordered, NEW r \in Requests, Step(r), Lose(r)
  PROVE  Moves(req'[r].client)
<1> DEFINE c == req[r].client
<1>0. TypeOK /\ Active(r) /\ UNCHANGED Others /\ StepOf(r)
  BY DEF Ordered, Inv, Lose, Others, Step
<1>1. Now(r, "lost")
  BY <1>0, ClosingBecomes
<1>2. ~Active(r)'
  BY <1>1 DEF Now, Becomes, Active
<1>3. /\ c \in Clients /\ req'[r].client = c /\ Register[c] = Shown(Jar(r)) /\ Open[c] = View(r)
      /\ Register'[c] = Shown(cookies[req[r].client][Root])' /\ Open'[c] = None
  BY <1>0, <1>2, Closed
<1>4. Register'[c] = Shown(req[r].sent)
  <2>1. req[r].sent = cookies[c][Root] /\ cookies'[req'[r].client][Root] = req[r].sent
    BY <1>0, <1>3, Unanswered DEF Ordered, Others
  <2> QED BY <1>0, <1>3, <2>1 DEF Shown, Verified, Others
<1>5. Successes'[c] = Successes[c]
  <2>1. {s \in Requests : req'[s].client = c /\ req'[s].pc = "answered" /\ req'[s].ok}
          = {s \in Requests : req[s].client = c /\ req[s].pc = "answered" /\ req[s].ok}
    BY <1>0, <1>1 DEF Now, Becomes, Active
  <2> QED BY <1>3, <2>1 DEF Successes
<1>6. CASE Reads(r)
  <2>1. View(r) # None /\ View(r).saw = req[r].saw /\ Shown(req[r].sent) \in {Shown(Jar(r)), req[r].saw}
    BY <1>0, <1>6, Opened, Unanswered DEF Ordered
  <2> QED BY <1>3, <1>4, <1>5, <2>1 DEF Moves
<1>7. CASE ~Reads(r)
  <2>1. View(r) = None /\ Shown(req[r].sent) = Shown(Jar(r))
    BY <1>0, <1>7, Opened, Unanswered DEF Ordered
  <2> QED BY <1>3, <1>4, <1>5, <2>1 DEF Moves, Same
<1> QED BY <1>6, <1>7

(* The delivery of a success is Succeed, that of an error is Fail or a stutter.*)
LEMMA DeliverMoves ==
  ASSUME Ordered, NEW r \in Requests, Step(r), Deliver(r)
  PROVE  Moves(req'[r].client)
<1> DEFINE c == req[r].client
<1>0. /\ TypeOK /\ Active(r) /\ req[r].pc = "answering" /\ UNCHANGED <<orderly, backend, storage, used>>
      /\ StepOf(r) /\ Turn(r) /\ Root \in Dirs /\ cookies \in [Clients -> [Dirs -> CookieValue]]
      /\ req[r].client \in Clients /\ req[r].ok \in BOOLEAN
  BY SessionAssumption DEF Ordered, Inv, Deliver, Active, Step, OrderInv, TypeOK, RequestState
<1>1. Now(r, "answered")
  BY <1>0, ClosingBecomes
<1>2. ~Active(r)'
  BY <1>1 DEF Now, Becomes, Active
<1>3. /\ c \in Clients /\ req'[r].client = c /\ Register[c] = Shown(Jar(r)) /\ Open[c] = View(r)
      /\ Register'[c] = Shown(cookies[req[r].client][Root])' /\ Open'[c] = None
  BY <1>0, <1>2, Closed
<1>4. Register'[c] = Register[c]
  <2>1. Scope(r) = Root
    BY <1>0 DEF Scope, Turn
  <2>2. cookies'[c][Root] = Jar(r)
    BY <1>0, <2>1 DEF Deliver, Jar
  <2> QED BY <1>0, <1>3, <2>2 DEF Shown, Verified
<1> DEFINE T == {s \in Requests : req[s].client = c /\ req[s].pc = "answered" /\ req[s].ok}
           T2 == {s \in Requests : req'[s].client = c /\ req'[s].pc = "answered" /\ req'[s].ok}
<1>5. Successes[c] = Cardinality(T) /\ Successes'[c] = Cardinality(T2)
  BY <1>3 DEF Successes
<1>6. CASE req[r].ok
  <2>1. T2 = T \cup {r} /\ r \notin T
    BY <1>0, <1>1, <1>6 DEF Now, Becomes
  <2>2. IsFiniteSet(T)
    <3>1. T \subseteq {s \in Requests : req[s].pc # "idle"}
      OBVIOUS
    <3> QED BY <3>1, FS_Subset DEF Ordered, OrderInv
  <2>3. Cardinality(T2) = Cardinality(T) + 1
    BY <2>1, <2>2, FS_AddElement
  <2>4. Reads(r) /\ req[r].applied
    BY <1>0, <1>6 DEF Turn, Reads
  <2>5. View(r) # None /\ View(r).applied
    BY <1>0, <2>4, Opened
  <2> HIDE DEF T, T2
  <2> QED BY <1>3, <1>4, <1>5, <2>3, <2>5 DEF Moves
<1>7. CASE ~req[r].ok
  <2>1. T2 = T
    BY <1>0, <1>1, <1>7 DEF Now, Becomes
  <2>2. Successes'[c] = Successes[c]
    BY <1>5, <2>1
  <2>3. (View(r) = None) \/ (View(r) # None)
    OBVIOUS
  <2> HIDE DEF T, T2
  <2> QED BY <1>3, <1>4, <2>2, <2>3 DEF Moves, Same
<1> QED BY <1>6, <1>7

(* A request that is sent is a stutter.                                    *)
LEMMA SendMoves ==
  ASSUME Ordered, NEW r \in Requests, Step(r), NEW c \in Clients, NEW d \in Dirs, Send(r, c, d)
  PROVE  Moves(req'[r].client)
<1> DEFINE q == [Fresh(c, d) EXCEPT !.pc = "arrived", !.sent = Sees(c, d)]
<1>1. /\ req' = [req EXCEPT ![r] = q] /\ req \in [Requests -> RequestState] /\ UNCHANGED Others
      /\ req[r].pc = "idle" /\ \A s \in Requests : ~(Active(s) /\ req[s].client = c)
  BY DEF Send, Ordered, Inv, TypeOK, Others
<1>2. req'[r] = q /\ \A s \in Requests : s # r => req'[s] = req[s]
  BY <1>1
<1>3. q.pc = "arrived" /\ q.client = c /\ q.op = "none" /\ q.jar = Keep
  BY DEF Fresh
<1> HIDE DEF q
<1>4. Viewed /\ Viewed'
  BY <1>1, Views, ViewsNext DEF Ordered, Inv, OrderInv, Others
<1>5. Register[c] = Shown(cookies[c][Root]) /\ Open[c] = None
  BY <1>1, <1>4 DEF Viewed, Alone
<1>6. Active(r)' /\ Seen(r)'
  BY <1>2, <1>3, <1>4 DEF Active, Viewed
<1>7. Open'[c] = None /\ Register'[c] = Shown(Jar(r))'
  BY <1>2, <1>3, <1>6 DEF Seen, View, Reads
<1>8. Shown(Jar(r))' = Shown(cookies[c][Root])
  BY <1>1, <1>2, <1>3 DEF Shown, Jar, Verified, Others
<1>9. {s \in Requests : req'[s].client = c /\ req'[s].pc = "answered" /\ req'[s].ok}
          = {s \in Requests : req[s].client = c /\ req[s].pc = "answered" /\ req[s].ok}
  BY <1>1, <1>2, <1>3
<1>10. Successes'[c] = Successes[c]
  BY <1>9 DEF Successes
<1> QED BY <1>2, <1>3, <1>5, <1>7, <1>8, <1>10 DEF Moves, Same

(* Each action of a request is a step of SessionRegister or a stutter.     *)
LEMMA RequestMoves ==
  ASSUME Ordered, NEW r \in Requests,
         \/ \E c \in Clients, d \in Dirs : Send(r, c, d)
         \/ Reading(r) \/ Writing(r) \/ Deliver(r) \/ Lose(r)
         \/ \E op \in {"keep", "set", "remove"} : Handle(r, op)
  PROVE  SR!Next \/ UNCHANGED SR!vars
<1>1. Step(r)
  BY RequestStep DEF Ordered
<1>2. ASSUME Writing(r) PROVE Moves(req'[r].client)
  <2>1. CASE HandlerFails(r) \/ CommandFails(r)
    <3>1. Answer(r, FALSE) /\ Active(r) /\ req[r].pc # "handler" /\ UNCHANGED Others
      BY <2>1 DEF HandlerFails, CommandFails, Active, Others
    <3> QED BY <1>1, <3>1, AnswerMoves DEF Step
  <2>2. CASE Replied(r)
    <3>1. Answer(r, TRUE) /\ Active(r) /\ req[r].pc # "handler" /\ UNCHANGED Others
      BY <2>2 DEF Replied, Active, Others
    <3> QED BY <1>1, <3>1, AnswerMoves DEF Step
  <2> QED BY <1>1, <1>2, <2>1, <2>2, MemoryWriteMoves, RedisWriteMoves, CookieWriteMoves, ExecutedMoves DEF Writing
<1>3. Moves(req'[r].client)
  BY <1>1, <1>2, SendMoves, ReadMoves, HandleMoves, DeliverMoves, LoseMoves
<1>4. req'[r].client \in Clients
  BY DEF Ordered, Inv, TypeOK, RequestState
<1>5. \A e \in Clients : e # req'[r].client => Same(e)
  BY <1>1, OthersSame DEF Ordered, Step
<1>6. UNCHANGED backend
  BY <1>1 DEF Step, StepOf
<1> QED BY <1>3, <1>4, <1>5, <1>6, MoveNext

(* What a client is to send next is in a cookie it keeps or will keep.     *)
LEMMA CookieCarried ==
  ASSUME TypeOK, NEW c \in Clients
  PROVE  Cookie(c) \in CookieValue /\ Carries(c, Cookie(c))
<1>1. CASE {r \in InProgress(c) : req[r].jar # Keep} = {}
  BY <1>1, SessionAssumption DEF Cookie, Carries, TypeOK
<1>2. CASE {r \in InProgress(c) : req[r].jar # Keep} # {}
  <2>1. PICK r \in {s \in InProgress(c) : req[s].jar # Keep} : Cookie(c) = req[r].jar
    BY <1>2 DEF Cookie
  <2> QED BY <2>1 DEF InProgress, Active, Carries, Holds, TypeOK, RequestState
<1> QED BY <1>1, <1>2

(* The register holds values.                                              *)
LEMMA RegisterType ==
  ASSUME TypeOK
  PROVE  Register \in [Clients -> SR!Contents]
<1>1. ASSUME NEW c \in Clients PROVE Register[c] \in SR!Contents
  <2>1. Cookie(c) \in CookieValue
    BY CookieCarried
  <2>2. SR!Contents = Value
    BY DEF SR!Contents, Value
  <2> QED BY <2>1, <2>2, CookieShown DEF Shown, Verified, CookieValue, Value, TypeOK
<1> QED BY <1>1 DEF Register

(* The same of the next state.                                             *)
LEMMA RegisterTypeNext == TypeOK' => Register' \in [Clients -> SR!Contents]
<1> DEFINE P == TypeOK => Register \in [Clients -> SR!Contents]
<1>1. P
  BY RegisterType
<1>2. P'
  BY <1>1, PTL
<1> QED BY <1>2 DEF SR!Contents

(* A value that expires is Expire at the one client that has its id.       *)
LEMMA ExpireMoves ==
  ASSUME Ordered, NEW i \in Ids, Expire(i)
  PROVE  SR!Next \/ UNCHANGED SR!vars
<1>1. /\ UNCHANGED <<orderly, backend, cookies, used, req>> /\ backend = "redis"
      /\ storage' = [storage EXCEPT ![i] = None] /\ storage \in [Ids -> Value]
  BY DEF Expire, Ordered, Inv, TypeOK
<1>2. Open' = Open /\ Successes' = Successes
  BY <1>1 DEF Open, InProgress, Active, Successes
<1>3. \A c \in Clients : Cookie(c)' = Cookie(c)
  BY <1>1 DEF Cookie, InProgress, Active
<1>4. ASSUME NEW c \in Clients
      PROVE  Register'[c] = IF Cookie(c) = i THEN None ELSE Register[c]
  <2>1. Register[c] = IF Cookie(c) \in Ids THEN storage[Cookie(c)] ELSE None
    BY <1>1 DEF Register
  <2>2. Register'[c] = IF Cookie(c) \in Ids THEN storage'[Cookie(c)] ELSE None
    BY <1>1, <1>3 DEF Register
  <2> QED BY <1>1, <2>1, <2>2
<1>5. CASE \E c \in Clients : Cookie(c) = i
  <2>1. PICK c \in Clients : Cookie(c) = i
    BY <1>5
  <2>2. \A e \in Clients : Cookie(e) = i => e = c
    BY <2>1, CookieCarried DEF Ordered, Inv, Common
  <2>3. Register' = [Register EXCEPT ![c] = None]
    BY <1>4, <2>1, <2>2, FunctionsOfClients
  <2>4. SR!Expire(c)
    BY <1>1, <1>2, <2>3 DEF SR!Expire
  <2> QED BY <1>1, <2>4 DEF SR!Next
<1>6. CASE \A c \in Clients : Cookie(c) # i
  <2>1. Register' = Register
    BY <1>4, <1>6, FunctionsOfClients
  <2> QED BY <1>1, <1>2, <2>1 DEF SR!vars
<1> QED BY <1>5, <1>6

(* A restart is Restart.                                                   *)
LEMMA RestartMoves ==
  ASSUME Ordered, Restart
  PROVE  SR!Next \/ UNCHANGED SR!vars
<1>1. /\ UNCHANGED <<orderly, backend, cookies, used>> /\ req \in [Requests -> RequestState]
      /\ req' = [r \in Requests |-> IF Active(r) THEN [req[r] EXCEPT !.pc = "lost"] ELSE req[r]]
      /\ storage' = storage \/ (Keyed /\ storage' = [i \in Ids |-> None])
  BY DEF Restart, Ordered, Inv, TypeOK, Keyed
<1>2. ASSUME NEW s \in Requests
      PROVE  /\ ~Active(s)' /\ req'[s].client = req[s].client /\ req'[s].ok = req[s].ok
             /\ (req'[s].pc = "answered" <=> req[s].pc = "answered")
  <2>1. req[s] \in RequestState
    BY <1>1
  <2>2. CASE Active(s)
    <3>1. req'[s] = [req[s] EXCEPT !.pc = "lost"] /\ req[s].pc # "answered"
      BY <1>1, <2>2 DEF Active
    <3> QED BY <2>1, <3>1 DEF RequestState, Active
  <2>3. CASE ~Active(s)
    BY <1>1, <2>1, <2>3 DEF Active
  <2> QED BY <2>2, <2>3
<1>3. Viewed /\ Viewed'
  BY <1>1, Views, ViewsNext DEF Ordered, Inv, OrderInv
<1>4. ASSUME NEW c \in Clients
      PROVE  Register'[c] = Shown(cookies[c][Root])' /\ Open'[c] = None
  BY <1>2, <1>3 DEF Viewed, Alone
<1>5. ASSUME NEW c \in Clients
      PROVE  Register'[c] \in {Shown(cookies[c][Root]), None}
  <2>1. Root \in Dirs /\ cookies' = cookies
    BY <1>1, SessionAssumption
  <2> QED BY <1>1, <1>4, <2>1 DEF Shown, Verified, Keyed
<1>6. ASSUME NEW c \in Clients
      PROVE  Register'[c] \in {Register[c], None} \/ (Open[c] # None /\ Register'[c] = Open[c].saw)
  <2>1. CASE \E r \in Requests : Active(r) /\ req[r].client = c
    <3>1. PICK r \in Requests : Active(r) /\ req[r].client = c
      BY <2>1
    <3>2. Register[c] = Shown(Jar(r)) /\ Open[c] = View(r)
      BY <1>3, <3>1 DEF Viewed, Seen
    <3>3. /\ req[r].sent = cookies[c][Root]
          /\ ~Reads(r) => Shown(req[r].sent) = Shown(Jar(r))
          /\ Reads(r) => Shown(req[r].sent) \in {Shown(Jar(r)), req[r].saw}
      BY <3>1, Unanswered DEF Ordered
    <3>4. Reads(r) => View(r) # None /\ View(r).saw = req[r].saw
      BY Opened DEF Ordered, Inv
    <3> QED BY <1>5, <3>2, <3>3, <3>4
  <2>2. CASE \A r \in Requests : Active(r) => req[r].client # c
    BY <1>3, <1>5, <2>2 DEF Viewed, Alone
  <2> QED BY <2>1, <2>2
<1>7. Successes' = Successes
  <2>1. ASSUME NEW c \in Clients
        PROVE  {s \in Requests : req'[s].client = c /\ req'[s].pc = "answered" /\ req'[s].ok}
                 = {s \in Requests : req[s].client = c /\ req[s].pc = "answered" /\ req[s].ok}
    BY <1>2
  <2> QED BY <2>1 DEF Successes
<1>8. Open' = [c \in Clients |-> None]
  BY <1>4, FunctionsOfClients
<1>9. Register' \in [Clients -> SR!Contents]
  BY RegisterTypeNext DEF Ordered, Inv
<1>10. SR!Restart
  BY <1>6, <1>7, <1>8, <1>9 DEF SR!Restart
<1> QED BY <1>1, <1>10 DEF SR!Next

(* The initial states map to initial states.                               *)
LEMMA InitRegister == Init => SR!Init
<1> SUFFICES ASSUME Init PROVE SR!Init
  OBVIOUS
<1>1. TypeOK
  BY InitInv DEF Inv
<1>2. \A r \in Requests : req[r].pc = "idle"
  BY DEF Init, Fresh
<1>3. Open = [c \in Clients |-> None]
  <2>1. \A c \in Clients : InProgress(c) = {}
    BY <1>2 DEF InProgress, Active
  <2> QED BY <2>1 DEF Open
<1>4. Successes = [c \in Clients |-> 0]
  <2>1. \A c \in Clients : {r \in Requests : req[r].client = c /\ req[r].pc = "answered" /\ req[r].ok} = {}
    BY <1>2
  <2> QED BY <2>1, FS_EmptySet DEF Successes
<1>5. Register \in [Clients -> SR!Contents]
  BY <1>1, RegisterType
<1> QED BY <1>3, <1>4, <1>5 DEF SR!Init

(* In orderly use each step maps to a step of SessionRegister or a stutter.*)
LEMMA StepRegister ==
  Inv /\ Inv' /\ OrderInv /\ OrderInv' /\ [Next]_vars => [orderly => SR!Next]_(SR!vars)
<1> SUFFICES ASSUME Inv, Inv', OrderInv, OrderInv', [Next]_vars, orderly
             PROVE  SR!Next \/ UNCHANGED SR!vars
  OBVIOUS
<1>0. Ordered
  BY DEF Ordered
<1>1. ASSUME NEW r \in Requests,
             \/ \E c \in Clients, d \in Dirs : Send(r, c, d)
             \/ Reading(r) \/ Writing(r) \/ Deliver(r) \/ Lose(r)
             \/ \E op \in {"keep", "set", "remove"} : Handle(r, op)
      PROVE  SR!Next \/ UNCHANGED SR!vars
  BY <1>0, <1>1, RequestMoves
<1>2. CASE UNCHANGED vars
  BY <1>2 DEF vars, SR!vars, Register, Open, Successes, Cookie, InProgress, Active, Verified
<1> QED BY <1>0, <1>1, <1>2, ExpireMoves, RestartMoves DEF Next

(* To a client that waits for each answer, sends its requests in the     *)
(* root directory only and has no session id in common with another,     *)
(* every backend is the register of SessionRegister: each step of        *)
(* Session maps to one of its steps or to a stutter, through lost        *)
(* responses, failed commands, expired values and restarts               *)
(* (in_memory.rs, redis.rs and cookie.rs, session.rs:57-60).             *)
THEOREM SessionIsRegister == Spec => RegisterSpec
<1> QED BY InitRegister, StepRegister, Invariance, OrderInvariance, PTL DEF Spec, RegisterSpec
=============================================================================
