--------------------------- MODULE WorkerProcess ---------------------------
(***************************************************************************)
(* The life of the platform worker (src/apps/zhixing-worker/server.ts).    *)
(*                                                                         *)
(* A worker takes a session advisory lock, recovers what its predecessor   *)
(* left, and runs its loops until it is told to stop.  The lock lives as   *)
(* long as the connection that took it: when the connection breaks, the    *)
(* database frees the lock at once and the process learns of it later, so  *)
(* for a while a replacement may run beside it.                            *)
(***************************************************************************)
CONSTANTS
  Workers,  \* worker processes
  None      \* nobody, no value

ASSUME WorkersAssumption == None \notin Workers

VARIABLES
  lock,     \* holder of pg_try_advisory_lock(71004310)
  life,     \* how far each process got
  stopped   \* the flag `stopped` of each process

processVars == <<lock, life, stopped>>

Lives == {"down", "recovering", "up"}

ProcessTypeOK ==
  /\ lock \in Workers \cup {None}
  /\ life \in [Workers -> Lives]
  /\ stopped \in [Workers -> BOOLEAN]

ProcessInit ==
  /\ lock = None
  /\ life = [w \in Workers |-> "down"]
  /\ stopped = [w \in Workers |-> FALSE]

(* A second worker finds the lock taken and ends: it never starts. *)
Start(w) ==
  /\ life[w] = "down"
  /\ lock = None
  /\ lock' = w
  /\ life' = [life EXCEPT ![w] = "recovering"]
  /\ stopped' = [stopped EXCEPT ![w] = FALSE]

(* The recovery statements have returned and the loops begin. *)
BeginLoops(w) ==
  /\ life[w] = "recovering"
  /\ life' = [life EXCEPT ![w] = "up"]
  /\ UNCHANGED <<lock, stopped>>

LoseLock(w) ==
  /\ lock = w
  /\ lock' = None
  /\ UNCHANGED <<life, stopped>>

(* The lock connection reports its error, or a signal reaches the running process. *)
Stop(w) ==
  /\ life[w] = "up" \/ (life[w] = "recovering" /\ lock # w)
  /\ ~stopped[w]
  /\ stopped' = [stopped EXCEPT ![w] = TRUE]
  /\ UNCHANGED <<lock, life>>

End(w) ==
  /\ life' = [life EXCEPT ![w] = "down"]
  /\ lock' = IF lock = w THEN None ELSE lock
  /\ UNCHANGED stopped

(* The loops have seen the flag: pg_advisory_unlock, then the process ends. *)
Exit(w) ==
  /\ life[w] = "up"
  /\ stopped[w]
  /\ End(w)

Die(w) ==
  /\ life[w] # "down"
  /\ End(w)
=============================================================================
