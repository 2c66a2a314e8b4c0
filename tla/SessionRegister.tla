--------------------------- MODULE SessionRegister ---------------------------
(***************************************************************************)
(* What a client may expect of its session if it sends one request at a    *)
(* time, and all of them in one directory: a register of its own.  A       *)
(* request reads it and decides what to leave in it; answered with         *)
(* success, it has left that; answered with an error or not at all, it has *)
(* left what it decided or what it found.                                  *)
(***************************************************************************)
EXTENDS Naturals

CONSTANTS Clients, Values, None, Idle, Undecided

VARIABLES
  register,   \* the session value of each client, or None
  open,       \* the request of each client in progress, or Idle
  successes,  \* the number of successes each client was told of
  volatile    \* values expire

vars == <<register, open, successes, volatile>>

Contents == Values \cup {None}

Init ==
  /\ register \in [Clients -> Contents]
  /\ open = [c \in Clients |-> Idle]
  /\ successes = [c \in Clients |-> 0]
  /\ volatile \in BOOLEAN

Read(c) ==
  /\ open[c] = Idle
  /\ open' = [open EXCEPT ![c] = [saw |-> register[c], want |-> Undecided, applied |-> FALSE]]
  /\ UNCHANGED <<register, successes>>

Decide(c, v) ==
  /\ open[c] # Idle /\ open[c].want = Undecided
  /\ open' = [open EXCEPT ![c].want = v]
  /\ UNCHANGED <<register, successes>>

Apply(c) ==
  /\ open[c] # Idle /\ open[c].want # Undecided
  /\ register' = [register EXCEPT ![c] = open[c].want]
  /\ open' = [open EXCEPT ![c].applied = TRUE]
  /\ UNCHANGED successes

Succeed(c) ==
  /\ open[c] # Idle /\ open[c].applied
  /\ open' = [open EXCEPT ![c] = Idle]
  /\ successes' = [successes EXCEPT ![c] = @ + 1]
  /\ UNCHANGED register

Fail(c) ==
  /\ open[c] # Idle
  /\ open' = [open EXCEPT ![c] = Idle]
  /\ register' \in {register, [register EXCEPT ![c] = open[c].saw]}
  /\ UNCHANGED successes

(* The value expires, with or without a request in progress.               *)
Expire(c) ==
  /\ volatile
  /\ register' = [register EXCEPT ![c] = None]
  /\ UNCHANGED <<open, successes>>

(* The server restarts.  Requests in progress are never answered, and the  *)
(* values it held in memory are gone.                                      *)
Restart ==
  /\ open' = [c \in Clients |-> Idle]
  /\ register' \in [Clients -> Contents]
  /\ \A c \in Clients : \/ register'[c] \in {register[c], None}
                        \/ open[c] # Idle /\ register'[c] = open[c].saw
  /\ UNCHANGED successes

Next ==
  /\ UNCHANGED volatile
  /\ \/ \E c \in Clients :
          \/ Read(c) \/ Apply(c) \/ Succeed(c) \/ Fail(c) \/ Expire(c)
          \/ \E v \in Contents : Decide(c, v)
     \/ Restart

Spec == Init /\ [][Next]_vars
=============================================================================
