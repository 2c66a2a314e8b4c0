-------------------------- MODULE NamedFileProofs --------------------------
(***************************************************************************)
(* Proofs about NamedFile for files and blocks of any size.                *)
(***************************************************************************)
EXTENDS NamedFile, TLAPS

LEMMA BufSizeType ==
  ASSUME TypeOK
  PROVE  /\ blksize \in Nat \ {0} /\ BufSize \in Nat
         /\ BufSize <= length /\ (length > 0 => BufSize > 0)
BY FileAssumption DEF TypeOK, BufSize, Least

(* A chunk keeps what the stream has promised.                             *)
LEMMA ChunkInv ==
  ASSUME Inv, Chunk
  PROVE  Inv'
<1>. DEFINE n == ReadSize
<1>1. /\ size \in Nat /\ length \in 0 .. size /\ position \in 0 .. size
      /\ len \in 0 .. size /\ sent \in 0 .. position
  BY DEF Inv, TypeOK
<1>2. /\ n \in Nat \ {0} /\ n <= BufSize /\ n <= size - position
      /\ n = BufSize \/ n = size - position
      /\ BufSize \in Nat /\ BufSize <= length
  BY <1>1, BufSizeType DEF Inv, Chunk, ReadSize, Least
<1>3. /\ app = "Streaming" /\ position' = position + n
      /\ sent' = sent + Least(n, len)
      /\ len' = (IF n > len THEN 0 ELSE n)
      /\ UNCHANGED <<endpoint, app, polling, open, size, blksize, length>>
  BY DEF Chunk, file
<1>. HIDE DEF n
<1>4. BufSize' = BufSize
  BY <1>3 DEF BufSize
<1>5. TypeOK'
  BY <1>1, <1>2, <1>3 DEF Inv, TypeOK, Least
<1>6. Streamed'
  <2>1. Streamed
    BY <1>3 DEF Inv
  <2>2. CASE position < length
    <3>1. sent = position /\ len >= BufSize
      BY <2>1, <2>2 DEF Streamed
    <3>2. Least(n, len) = n /\ len' = n /\ sent' = position'
      BY <1>1, <1>2, <1>3, <3>1 DEF Least
    <3>3. position' < length => n = BufSize
      BY <1>1, <1>2, <1>3
    <3>. QED
      BY <1>1, <1>2, <1>3, <1>4, <3>2, <3>3 DEF Streamed
  <2>3. CASE ~(position < length)
    <3>1. sent >= length
      BY <2>1, <2>3 DEF Streamed
    <3>2. position' >= length /\ sent' >= length
      BY <1>1, <1>2, <1>3, <2>3, <3>1 DEF Least
    <3>. QED
      BY <1>1, <1>2, <1>3, <3>2 DEF Streamed
  <2>. QED
    BY <2>2, <2>3
<1>. QED
  BY <1>3, <1>5, <1>6 DEF Inv

(* A stream ends only where the announced length has been reached.         *)
LEMMA EndInv ==
  ASSUME Inv, Exhausted \/ EndOfFile
  PROVE  Inv'
<1>1. /\ size \in Nat /\ length \in 0 .. size /\ position \in 0 .. size
      /\ len \in 0 .. size /\ sent \in 0 .. position
  BY FileAssumption DEF Inv, TypeOK
<1>2. Streamed /\ app = "Streaming" /\ app' = "Ended"
      /\ UNCHANGED <<endpoint, polling, open, size, blksize, length, position, len, sent>>
  BY DEF Inv, Exhausted, EndOfFile, file, stream
<1>3. position >= length
  <2>. SUFFICES ASSUME position < length PROVE FALSE
    BY <1>1
  <2>1. BufSize > 0 /\ BufSize \in Nat /\ len >= BufSize
    BY <1>1, <1>2, BufSizeType DEF Inv, Streamed
  <2>2. ReadSize > 0
    BY <1>1, <2>1 DEF ReadSize, Least
  <2>. QED
    BY <1>1, <2>1, <2>2 DEF Exhausted, EndOfFile
<1>4. TypeOK' /\ Streamed'
  BY <1>2 DEF Inv, TypeOK, Streamed, BufSize
<1>. QED
  BY <1>2, <1>3, <1>4 DEF Inv

LEMMA StepInv ==
  ASSUME Inv, [Next]_vars
  PROVE  Inv'
<1>1. TypeOK
  BY DEF Inv
<1>2. CASE Preflight
  BY <1>1, <1>2 DEF Preflight, FilePreflight, DirPreflight, DirReject, Inv, TypeOK, file, stream
<1>3. CASE PollAction
  BY <1>1, <1>3 DEF PollAction, FilePoll, DirPoll, Inv, TypeOK, file, stream
<1>4. CASE OpenNotReady \/ OpenFailed \/ Opened
  BY <1>1, <1>4 DEF OpenNotReady, OpenFailed, Opened, Inv, TypeOK, file, stream
<1>5. CASE GotMetadata
  <2>1. app = "InFlight" /\ position = 0 /\ sent = 0
    BY <1>1, <1>5 DEF GotMetadata, Inv, TypeOK
  <2>2. TypeOK'
    <3>1. size \in Nat /\ size \in 0 .. size
      BY <1>1 DEF TypeOK
    <3>. QED
      BY <1>1, <1>5, <3>1 DEF GotMetadata, TypeOK, file
  <2>3. BufSize' <= len' /\ BufSize' \in Nat
    BY <1>1, <1>5, FileAssumption DEF GotMetadata, BufSize, Least, TypeOK, file
  <2>4. Streamed'
    BY <1>1, <1>5, <2>1, <2>3 DEF GotMetadata, Streamed, TypeOK
  <2>. QED
    BY <1>5, <2>2, <2>4 DEF GotMetadata, Inv
<1>6. CASE Exhausted \/ EndOfFile
  BY <1>6, EndInv
<1>7. CASE ReadFailed
  BY <1>7 DEF ReadFailed, Inv, TypeOK, Streamed, BufSize, file, stream
<1>8. CASE Chunk
  BY <1>8, ChunkInv
<1>9. CASE Append
  <2>1. TypeOK'
    BY <1>1, <1>9 DEF Append, TypeOK, stream
  <2>2. Streamed => Streamed'
    BY <1>9 DEF Append, Streamed, BufSize, stream
  <2>. QED
    BY <1>9, <2>1, <2>2 DEF Append, Inv, stream
<1>10. CASE UNCHANGED vars
  BY <1>10 DEF vars, Inv, TypeOK, Streamed, BufSize, file, stream
<1>. QED
  BY <1>2, <1>3, <1>4, <1>5, <1>6, <1>7, <1>8, <1>9, <1>10
     DEF Next, PollOpen, PollBuf, Finished

LEMMA Invariance == Spec => []Inv
<1>1. Init => Inv
  <2>. SUFFICES ASSUME Init PROVE Inv
    OBVIOUS
  <2>1. size \in Nat /\ 0 \in 0 .. size
    BY FileAssumption DEF Init
  <2>2. /\ length \in 0 .. size /\ position \in 0 .. size
        /\ len \in 0 .. size /\ sent \in 0 .. position
    BY <2>1 DEF Init
  <2>3. polling \in BOOLEAN
    BY DEF Init
  <2>4. app \in {"Start", "InFlight", "Streaming"} \cup {"Failed", "Aborted", "Ended", "Panicked"}
    BY DEF Init
  <2>5. TypeOK
    BY <2>2, <2>3, <2>4 DEF Init, TypeOK
  <2>. QED
    BY <2>5 DEF Init, Inv
<1>. QED
  BY <1>1, StepInv, PTL DEF Spec

-----------------------------------------------------------------------------
(* The states of the file actions and the sizes FileStream computes keep   *)
(* their types: `len` never exceeds the file.                              *)
THEOREM TypeCorrect == Spec => []TypeOK
<1>1. Inv => TypeOK
  BY DEF Inv
<1>. QED
  BY <1>1, Invariance, PTL

(* OpenNamedFile is never polled after its end, and DirAction never before *)
(* it has been given one.                                                  *)
THEOREM NeverPanics == Spec => []NoPanic
<1>1. Inv => NoPanic
  BY DEF Inv, NoPanic
<1>. QED
  BY <1>1, Invariance, PTL

(* For every size of file and block, a body that ends without an error     *)
(* holds what the file held when its length was announced.                 *)
THEOREM WholeFile == Spec => []NothingMissing
<1>1. Inv => NothingMissing
  BY DEF Inv, NothingMissing, Streamed, TypeOK
<1>. QED
  BY <1>1, Invariance, PTL
=============================================================================
