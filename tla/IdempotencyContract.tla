------------------------ MODULE IdempotencyContract ------------------------
(***************************************************************************)
(* What an idempotency store promises the compute routes, whatever backs   *)
(* it: for each cache key at most one request at a time is let through to  *)
(* the adapter, the response of the request that held the key is the one   *)
(* that is cached, and a retry is answered with that response.             *)
(*                                                                         *)
(* The promise is bounded by the lock's time to live.  When a lock runs    *)
(* out under a request that is still at work the key is marked in lapsed,  *)
(* and from then on the contract promises nothing for that key.            *)
(***************************************************************************)

CONSTANTS Requests,  \* HTTP requests that carry an Idempotency-Key
          Keys,      \* cache keys (user, Idempotency-Key and operation)
          Hashes,    \* fingerprints of request bodies
          None       \* no request, no key, no hash

VARIABLES slot,    \* slot[k]: free, held by a request, or done with its response
          phase,   \* phase[r]: where request r stands
          key,     \* key[r]: the cache key of r
          hash,    \* hash[r]: the body fingerprint of r
          reply,   \* reply[r]: the request whose response r got with a 200, or None
          lapsed   \* lapsed[k]: what ran out on k so far, a lock in use or a result

vars == <<slot, phase, key, hash, reply, lapsed>>

Phases == {"idle", "waiting", "working", "saved", "ended"}

Slot == [state : {"free", "held", "done"}, run : Requests \cup {None}]

Free    == [state |-> "free", run |-> None]
Held(r) == [state |-> "held", run |-> r]
Done(r) == [state |-> "done", run |-> r]

TypeOK ==
  /\ slot   \in [Keys -> Slot]
  /\ phase  \in [Requests -> Phases]
  /\ key    \in [Requests -> Keys \cup {None}]
  /\ hash   \in [Requests -> Hashes \cup {None}]
  /\ reply  \in [Requests -> Requests \cup {None}]
  /\ lapsed \in [Keys -> SUBSET {"lock", "result"}]

Init ==
  /\ slot   = [k \in Keys |-> Free]
  /\ phase  = [r \in Requests |-> "idle"]
  /\ key    = [r \in Requests |-> None]
  /\ hash   = [r \in Requests |-> None]
  /\ reply  = [r \in Requests |-> None]
  /\ lapsed = [k \in Keys |-> {}]

-----------------------------------------------------------------------------

\* A request with a key arrives.
Arrive(r, k, h) ==
  /\ phase[r] = "idle"
  /\ phase' = [phase EXCEPT ![r] = "waiting"]
  /\ key'   = [key EXCEPT ![r] = k]
  /\ hash'  = [hash EXCEPT ![r] = h]
  /\ UNCHANGED <<slot, reply, lapsed>>

\* The request takes the free key and goes to the adapter.
Acquire(r) ==
  /\ phase[r] = "waiting"
  /\ slot[key[r]] = Free
  /\ slot'  = [slot EXCEPT ![key[r]] = Held(r)]
  /\ phase' = [phase EXCEPT ![r] = "working"]
  /\ UNCHANGED <<key, hash, reply, lapsed>>

\* A retry is answered with the cached response of a request with the same body.
Replay(r, s) ==
  /\ phase[r] = "waiting"
  /\ slot[key[r]] = Done(s)
  /\ hash[r] = hash[s]
  /\ reply' = [reply EXCEPT ![r] = s]
  /\ phase' = [phase EXCEPT ![r] = "ended"]
  /\ UNCHANGED <<slot, key, hash, lapsed>>

\* The holder's response becomes the cached one.
Complete(r) ==
  /\ phase[r] = "working"
  /\ slot[key[r]] = Held(r)
  /\ slot'  = [slot EXCEPT ![key[r]] = Done(r)]
  /\ phase' = [phase EXCEPT ![r] = "saved"]
  /\ UNCHANGED <<key, hash, reply, lapsed>>

\* The holder is answered with its own response.
Deliver(r) ==
  /\ phase[r] = "saved"
  /\ reply' = [reply EXCEPT ![r] = r]
  /\ phase' = [phase EXCEPT ![r] = "ended"]
  /\ UNCHANGED <<slot, key, hash, lapsed>>

\* The adapter failed: the holder frees the key.
Release(r) ==
  /\ phase[r] = "working"
  /\ slot[key[r]] = Held(r)
  /\ slot'  = [slot EXCEPT ![key[r]] = Free]
  /\ phase' = [phase EXCEPT ![r] = "ended"]
  /\ UNCHANGED <<key, hash, reply, lapsed>>

\* Requests end without a 200: refused, or lost with their process.
End(R) ==
  /\ \A r \in R : phase[r] \in {"waiting", "working", "saved"}
  /\ phase' = [r \in Requests |-> IF r \in R THEN "ended" ELSE phase[r]]
  /\ UNCHANGED <<slot, key, hash, reply, lapsed>>

-----------------------------------------------------------------------------

InUse(k) == slot[k].state = "held" /\ phase[slot[k].run] = "working"

\* What the keys of K lose when their entries go.
Lapse(K) ==
  [k \in Keys |->
     IF k \notin K THEN lapsed[k]
     ELSE lapsed[k] \cup (IF InUse(k) THEN {"lock"} ELSE {})
                    \cup (IF slot[k].state = "done" THEN {"result"} ELSE {})]

\* The time to live of the entries of K has run out.
Expire(K) ==
  /\ slot'   = [k \in Keys |-> IF k \in K THEN Free ELSE slot[k]]
  /\ lapsed' = Lapse(K)
  /\ UNCHANGED <<phase, key, hash, reply>>

\* A store kept in a process is lost with it, and so are its requests.
Restart ==
  /\ phase'  = [r \in Requests |-> IF phase[r] = "idle" THEN "idle" ELSE "ended"]
  /\ slot'   = [k \in Keys |-> Free]
  /\ lapsed' = [k \in Keys |-> lapsed[k] \cup
                                 (IF slot[k].state = "done" THEN {"result"} ELSE {})]
  /\ UNCHANGED <<key, hash, reply>>

\* Past an overrun a working request may leave anything in its key's slot.
Stray(r) ==
  /\ phase[r] = "working"
  /\ "lock" \in lapsed[key[r]]
  /\ \E v \in Slot : slot' = [slot EXCEPT ![key[r]] = v]
  /\ \E p \in {"saved", "ended"} : phase' = [phase EXCEPT ![r] = p]
  /\ UNCHANGED <<key, hash, reply, lapsed>>

Next ==
  \/ \E r \in Requests : \/ \E k \in Keys, h \in Hashes : Arrive(r, k, h)
                         \/ Acquire(r)
                         \/ \E s \in Requests : Replay(r, s)
                         \/ Complete(r)
                         \/ Deliver(r)
                         \/ Release(r)
                         \/ Stray(r)
  \/ \E R \in SUBSET Requests : End(R)
  \/ \E K \in SUBSET Keys : Expire(K)
  \/ Restart

Spec == Init /\ [][Next]_vars
=============================================================================
