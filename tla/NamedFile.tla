----------------------------- MODULE NamedFile -----------------------------
(***************************************************************************)
(* Serving one file: the actions of the endpoints fs::file and fs::dir,    *)
(* the future OpenNamedFile they poll, and the FileStream that is the body *)
(* of the response.                                                        *)
(*                                                                         *)
(* A file is a number of bytes, each known by its position, so a body read *)
(* from the start is known by its length.  Another process may append to   *)
(* the file meanwhile, as to a log, without any bound; it does not shorten *)
(* it.  A read of a regular file returns what is asked for, or what there  *)
(* is up to the end.                                                       *)
(***************************************************************************)
EXTENDS Naturals

CONSTANT BlockSizes   \* possible values of st_blksize

ASSUME FileAssumption == BlockSizes \subseteq Nat \ {0}

VARIABLES
  endpoint,    \* "file" or "dir"
  app,         \* where the AppFuture and its response are
  polling,     \* poll of OpenNamedFile is running
  open,        \* State of OpenNamedFile; "None" while the action has none
  size,        \* of the file
  blksize,     \* of the file
  length,      \* meta.len(), also the Content-Length of the response
  position,    \* of the open file
  len,         \* FileStream.len
  sent         \* bytes of the body yielded so far

file == <<size, blksize>>
stream == <<length, position, len, sent>>
vars == <<endpoint, app, polling, open, file, stream>>

Init ==
  /\ endpoint \in {"file", "dir"}
  /\ app = "Start" /\ polling = FALSE /\ open = "None"
  /\ size \in Nat /\ blksize \in BlockSizes
  /\ length = 0 /\ position = 0 /\ len = 0 /\ sent = 0

Least(m, n) == IF m <= n THEN m ELSE n

(* optimal_buf_size, and the capacity of the buffer after reserve.         *)
BufSize == Least(blksize, length)

-----------------------------------------------------------------------------
(* FileAction has no preflight of its own.                                 *)
FilePreflight ==
  /\ endpoint = "file" /\ app = "Start"
  /\ app' = "InFlight"
  /\ UNCHANGED <<endpoint, polling, open, file, stream>>

(* Mutant: only the path is kept, as in FileAction.                        *)
DirPreflightLazy ==
  /\ endpoint = "dir" /\ app = "Start"
  /\ app' = "InFlight"
  /\ UNCHANGED <<endpoint, polling, open, file, stream>>

(* DirAction opens in preflight, if the rest of the path can be decoded.   *)
DirPreflight ==
  /\ endpoint = "dir" /\ app = "Start"
  /\ app' = "InFlight" /\ open' = "Opening"
  /\ UNCHANGED <<endpoint, polling, file, stream>>

DirReject ==
  /\ endpoint = "dir" /\ app = "Start"
  /\ app' = "Failed"
  /\ UNCHANGED <<endpoint, polling, open, file, stream>>

(* poll_action begins: panicking is reaching "unreachable" of DirAction or *)
(* "The future cannot poll twice." of OpenNamedFile.                       *)
FilePoll ==
  /\ endpoint = "file" /\ app = "InFlight" /\ ~polling
  /\ polling' = (open # "Done")
  /\ app' = IF open = "Done" THEN "Panicked" ELSE app
  /\ open' = IF open = "None" THEN "Opening" ELSE open
  /\ UNCHANGED <<endpoint, file, stream>>

DirPoll ==
  /\ endpoint = "dir" /\ app = "InFlight" /\ ~polling
  /\ polling' = (open \notin {"None", "Done"})
  /\ app' = IF open \in {"None", "Done"} THEN "Panicked" ELSE app
  /\ UNCHANGED <<endpoint, open, file, stream>>

-----------------------------------------------------------------------------
(* OpenNamedFile::poll.  tokio_fs runs the system calls on the thread that *)
(* polls, or returns NotReady if too many threads are blocked already.     *)
OpenNotReady ==
  /\ polling /\ open \in {"Opening", "Metadata"}
  /\ polling' = FALSE
  /\ UNCHANGED <<endpoint, app, open, file, stream>>

OpenFailed ==
  /\ polling /\ open \in {"Opening", "Metadata"}
  /\ polling' = FALSE /\ app' = "Failed"
  /\ UNCHANGED <<endpoint, open, file, stream>>

Opened ==
  /\ polling /\ open = "Opening"
  /\ open' = "Metadata"
  /\ UNCHANGED <<endpoint, app, polling, file, stream>>

(* Mutant: the block size where the length belongs.                        *)
GotMetadataBlocks ==
  /\ polling /\ open = "Metadata"
  /\ polling' = FALSE /\ open' = "Done" /\ app' = "Streaming"
  /\ length' = size /\ len' = blksize
  /\ UNCHANGED <<endpoint, file, position, sent>>

(* The output of the action, at once made into a response.                 *)
GotMetadata ==
  /\ polling /\ open = "Metadata"
  /\ polling' = FALSE /\ open' = "Done" /\ app' = "Streaming"
  /\ length' = size /\ len' = size
  /\ UNCHANGED <<endpoint, file, position, sent>>

-----------------------------------------------------------------------------
(* FileStream::poll_buf.  n is the result of read_buf.                     *)
ReadSize == Least(BufSize, size - position)

Exhausted ==
  /\ app = "Streaming" /\ len = 0
  /\ app' = "Ended"
  /\ UNCHANGED <<endpoint, polling, open, file, stream>>

ReadFailed ==
  /\ app = "Streaming" /\ len # 0
  /\ app' = "Aborted"
  /\ UNCHANGED <<endpoint, polling, open, file, stream>>

(* Mutant: at the end of the file the stream waits for more.               *)
EndOfFileParks ==
  /\ app = "Streaming" /\ len # 0 /\ ReadSize = 0
  /\ UNCHANGED vars

EndOfFile ==
  /\ app = "Streaming" /\ len # 0 /\ ReadSize = 0
  /\ app' = "Ended"
  /\ UNCHANGED <<endpoint, polling, open, file, stream>>

(* Mutant: a read as long as len is taken for the last one.                *)
ChunkAtMost ==
  LET n == ReadSize IN
  /\ app = "Streaming" /\ len # 0 /\ n # 0
  /\ position' = position + n
  /\ sent' = sent + Least(n, len)
  /\ len' = IF n >= len THEN 0 ELSE n
  /\ UNCHANGED <<endpoint, app, polling, open, file, length>>

(* As in the code, len becomes n, and is not reduced by n.                 *)
Chunk ==
  LET n == ReadSize IN
  /\ app = "Streaming" /\ len # 0 /\ n # 0
  /\ position' = position + n
  /\ sent' = sent + Least(n, len)
  /\ len' = IF n > len THEN 0 ELSE n
  /\ UNCHANGED <<endpoint, app, polling, open, file, length>>

(* Another process: nothing in the code keeps it from going on.            *)
Append ==
  /\ size' = size + 1
  /\ UNCHANGED <<endpoint, app, polling, open, blksize, stream>>

Answered == app \in {"Failed", "Aborted", "Ended", "Panicked"}

Finished == Answered /\ UNCHANGED vars

-----------------------------------------------------------------------------
Preflight == FilePreflight \/ DirPreflight \/ DirReject
PollAction == FilePoll \/ DirPoll
PollOpen == OpenNotReady \/ OpenFailed \/ Opened \/ GotMetadata
PollBuf == Exhausted \/ ReadFailed \/ EndOfFile \/ Chunk

Next == Preflight \/ PollAction \/ PollOpen \/ PollBuf \/ Append \/ Finished

Spec == Init /\ [][Next]_vars

(* The executor polls on, and the system calls are not refused a thread    *)
(* for ever; each may fail instead.  Nothing is assumed of the process     *)
(* that appends.                                                           *)
Fairness ==
  /\ WF_vars(Preflight) /\ WF_vars(PollAction) /\ WF_vars(PollOpen)
  /\ SF_vars(Opened) /\ SF_vars(GotMetadata)
  /\ WF_vars(Exhausted \/ EndOfFile \/ Chunk)

FairSpec == Spec /\ Fairness

-----------------------------------------------------------------------------
TypeOK ==
  /\ endpoint \in {"file", "dir"}
  /\ app \in {"Start", "InFlight", "Streaming"} \cup {"Failed", "Aborted", "Ended", "Panicked"}
  /\ polling \in BOOLEAN
  /\ open \in {"None", "Opening", "Metadata", "Done"}
  /\ size \in Nat /\ blksize \in BlockSizes
  /\ length \in 0 .. size /\ position \in 0 .. size
  /\ len \in 0 .. size /\ sent \in 0 .. position

(* Neither "unreachable" in DirAction nor "The future cannot poll twice."  *)
NoPanic == app # "Panicked"

(* Although the remaining length is not tracked: a body that ends without  *)
(* an error holds every byte the file had when its length was announced,   *)
(* and exactly these if nobody has appended to it since.                   *)
NothingMissing ==
  app = "Ended" => length <= sent /\ (size = length => sent = length)

(* The body is as long as its Content-Length.                              *)
BodyMatchesLength == app = "Ended" => sent = length

(* The file is appended to a finite number of times only.                  *)
Quiet == <>[][FALSE]_size

(* Every request for a file is answered, and its body ends, if the file at *)
(* last stops growing.  The condition is needed: as the remaining length   *)
(* is not reduced by what is read, a stream that an appender keeps ahead   *)
(* of goes on for ever, far beyond the length it has announced.            *)
Completes == Quiet => <>Answered

-----------------------------------------------------------------------------
(* The inductive invariant: a read is shorter than the buffer only at the  *)
(* end of the file, so until length is reached len is never what cuts a    *)
(* chunk off.                                                              *)
Streamed ==
  IF position < length THEN sent = position /\ len >= BufSize
                       ELSE sent >= length

Inv ==
  /\ TypeOK
  /\ app \in {"Streaming", "Aborted", "Ended"} => Streamed
  /\ app = "Ended" => position >= length
  /\ app \in {"Start", "InFlight", "Failed"} => length = 0 /\ position = 0
  /\ app = "Start" => open = "None" /\ ~polling
  /\ app = "InFlight" => open # "Done" /\ (endpoint = "dir" \/ polling => open # "None")
  /\ app \in {"Streaming", "Aborted", "Ended", "Failed"} => ~polling
  /\ app # "Panicked"
=============================================================================
