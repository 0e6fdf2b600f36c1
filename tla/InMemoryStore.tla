--------------------------- MODULE InMemoryStore ---------------------------
(***************************************************************************)
(* InMemoryIdempotencyStore (demo_adapter/compute/idempotency.py): a dict  *)
(* in one API process.  Its methods never await, so each of them is one    *)
(* step of the event loop; only the adapter call between check_and_lock    *)
(* and store_result lets other requests run.  The dict is lost when the    *)
(* process restarts.  An expired entry stays in the dict until a method    *)
(* looks at it.                                                            *)
(***************************************************************************)
EXTENDS Integers

CONSTANTS Requests,          \* HTTP requests that carry an Idempotency-Key
          Keys,              \* cache keys
          Hashes,            \* body hashes
          LOCK_TTL_SECONDS,  \* ticks a LOCKED entry lives
          TTL,               \* ticks a DONE entry lives (IDEMPOTENCY_TTL_SECONDS)
          None               \* no request, no key, no hash

ASSUME TTLAssumption == LOCK_TTL_SECONDS \in Nat /\ TTL \in Nat

ASSUME NoneAssumption ==
  None \notin Requests /\ None \notin Keys /\ None \notin Hashes

VARIABLES data,    \* data[k]: the dict's entry for k; left = expires_at - monotonic()
          pc,      \* pc[r]: where request r stands
          key,     \* key[r]: its cache_key
          hash,    \* hash[r]: its body_hash
          answer,  \* answer[r]: what the client got
          owner,   \* owner[k]: the request that set the LOCKED value of k
          lapsed   \* lapsed[k]: "lock" if a lock of k ran out under a request
                   \*   at work, "result" if a DONE entry of k ran out or was lost

vars == <<data, pc, key, hash, answer, owner, lapsed>>

-----------------------------------------------------------------------------

Absent     == [state |-> "absent", hash |-> None, run |-> None, left |-> 0]
LOCKED(h)  == [state |-> "locked", hash |-> h, run |-> None, left |-> LOCK_TTL_SECONDS]
\* Mutant of DONE: the body hash is not kept with the response.
DONEUnhashed(h, r) == [state |-> "done", hash |-> None, run |-> r, left |-> TTL]

DONE(h, r) == [state |-> "done", hash |-> h, run |-> r, left |-> TTL]

Expired == -1

Entry == [state : {"absent", "locked", "done"},
          hash  : Hashes \cup {None},
          run   : Requests \cup {None},
          left  : Nat \cup {Expired}]

PC     == {"idle", "check", "adapter", "reply", "ended"}
Codes  == {"none", "200", "409", "422", "500", "lost"}
Answer == [code : Codes, run : Requests \cup {None}]
NoAnswer == [code |-> "none", run |-> None]

TypeOK ==
  /\ data   \in [Keys -> Entry]
  /\ pc     \in [Requests -> PC]
  /\ key    \in [Requests -> Keys \cup {None}]
  /\ hash   \in [Requests -> Hashes \cup {None}]
  /\ answer \in [Requests -> Answer]
  /\ owner  \in [Keys -> Requests \cup {None}]
  /\ lapsed \in [Keys -> SUBSET {"lock", "result"}]
  /\ \A r \in Requests : pc[r] # "idle" => key[r] \in Keys /\ hash[r] \in Hashes
  /\ \A k \in Keys :
       /\ (data[k].state # "absent" => data[k].hash \in Hashes)
       /\ (data[k].state = "done" => data[k].run \in Requests)

Init ==
  /\ data   = [k \in Keys |-> Absent]
  /\ pc     = [r \in Requests |-> "idle"]
  /\ key    = [r \in Requests |-> None]
  /\ hash   = [r \in Requests |-> None]
  /\ answer = [r \in Requests |-> NoAnswer]
  /\ owner  = [k \in Keys |-> None]
  /\ lapsed = [k \in Keys |-> {}]

-----------------------------------------------------------------------------

\* Mutant of Get: the time of an entry is not looked at.
GetStale(k) == data[k]

\* _get: an entry past its time is deleted, and counts as absent.
Get(k)    == IF data[k].left = Expired THEN Absent ELSE data[k]
Put(k, v) == data' = [data EXCEPT ![k] = v]

Finish(r, code, run) ==
  /\ pc'     = [pc EXCEPT ![r] = "ended"]
  /\ answer' = [answer EXCEPT ![r] = [code |-> code, run |-> run]]

Call(r, k, h) ==
  /\ pc[r] = "idle"
  /\ pc'   = [pc EXCEPT ![r] = "check"]
  /\ key'  = [key EXCEPT ![r] = k]
  /\ hash' = [hash EXCEPT ![r] = h]
  /\ UNCHANGED <<data, answer, owner, lapsed>>

\* Mutant of CheckAndLock: a lock with one's own hash lets one proceed.
CheckAndLockReentrant(r) ==
  LET k == key[r]
      v == Get(k)
  IN
  /\ pc[r] = "check"
  /\ \/ /\ v = Absent \/ (v.state = "locked" /\ v.hash = hash[r])
        /\ Put(k, LOCKED(hash[r]))
        /\ owner' = [owner EXCEPT ![k] = r]
        /\ pc' = [pc EXCEPT ![r] = "adapter"]
        /\ UNCHANGED answer
     \/ /\ v.state = "locked" /\ v.hash # hash[r]
        /\ Finish(r, "409", None)
        /\ UNCHANGED <<data, owner>>
     \/ /\ v.state = "done"
        /\ IF v.hash = hash[r] THEN Finish(r, "200", v.run) ELSE Finish(r, "422", None)
        /\ UNCHANGED <<data, owner>>
  /\ UNCHANGED <<key, hash, lapsed>>

\* Mutant of CheckAndLock: the body hash of a cached response is not compared.
CheckAndLockAnyBody(r) ==
  LET k == key[r]
      v == Get(k)
  IN
  /\ pc[r] = "check"
  /\ \/ /\ v = Absent
        /\ Put(k, LOCKED(hash[r]))
        /\ owner' = [owner EXCEPT ![k] = r]
        /\ pc' = [pc EXCEPT ![r] = "adapter"]
        /\ UNCHANGED answer
     \/ /\ v # Absent
        /\ Finish(r, IF v.state = "locked" THEN "409" ELSE "200", v.run)
        /\ UNCHANGED <<data, owner>>
  /\ UNCHANGED <<key, hash, lapsed>>

\* check_and_lock, and the route's answer unless it says "proceed".
CheckAndLock(r) ==
  LET k == key[r]
      v == Get(k)
  IN
  /\ pc[r] = "check"
  /\ \/ /\ v = Absent
        /\ Put(k, LOCKED(hash[r]))
        /\ owner' = [owner EXCEPT ![k] = r]
        /\ pc' = [pc EXCEPT ![r] = "adapter"]
        /\ UNCHANGED answer
     \/ /\ v.state = "locked"
        /\ Finish(r, "409", None)
        /\ UNCHANGED <<data, owner>>
     \/ /\ v.state = "done"
        /\ IF v.hash = hash[r] THEN Finish(r, "200", v.run) ELSE Finish(r, "422", None)
        /\ UNCHANGED <<data, owner>>
  /\ UNCHANGED <<key, hash, lapsed>>

\* Mutant of StoreResult: the lock is removed and no result kept.
StoreResultDropped(r) ==
  /\ pc[r] = "adapter"
  /\ Put(key[r], Absent)
  /\ owner' = [owner EXCEPT ![key[r]] = None]
  /\ pc' = [pc EXCEPT ![r] = "reply"]
  /\ UNCHANGED <<key, hash, answer, lapsed>>

\* The adapter returns and store_result keeps its response if the lock is ours.
StoreResult(r) ==
  LET k == key[r]
      v == Get(k)
  IN
  /\ pc[r] = "adapter"
  /\ IF v.state = "locked" /\ v.hash = hash[r]
       THEN Put(k, DONE(hash[r], r)) /\ owner' = [owner EXCEPT ![k] = None]
       ELSE Put(k, v) /\ UNCHANGED owner
  /\ pc' = [pc EXCEPT ![r] = "reply"]
  /\ UNCHANGED <<key, hash, answer, lapsed>>

Reply(r) ==
  /\ pc[r] = "reply"
  /\ Finish(r, "200", r)
  /\ UNCHANGED <<data, key, hash, owner, lapsed>>

\* The adapter raises and delete_lock removes any LOCKED value.
DeleteLock(r) ==
  LET k == key[r]
      v == Get(k)
  IN
  /\ pc[r] = "adapter"
  /\ IF v.state = "locked"
       THEN Put(k, Absent) /\ owner' = [owner EXCEPT ![k] = None]
       ELSE Put(k, v) /\ UNCHANGED owner
  /\ Finish(r, "500", None)
  /\ UNCHANGED <<key, hash, lapsed>>

\* The client goes away, or the task of the request is cancelled.
Abort(r) ==
  /\ pc[r] \in {"check", "adapter", "reply"}
  /\ Finish(r, "lost", None)
  /\ UNCHANGED <<data, key, hash, owner, lapsed>>

\* The process restarts: the dict and every request in flight are gone.
Restart ==
  LET inFlight == {r \in Requests : pc[r] \in {"check", "adapter", "reply"}} IN
  /\ data'   = [k \in Keys |-> Absent]
  /\ owner'  = [k \in Keys |-> None]
  /\ pc'     = [r \in Requests |-> IF r \in inFlight THEN "ended" ELSE pc[r]]
  /\ answer' = [r \in Requests |-> IF r \in inFlight THEN [code |-> "lost", run |-> None]
                                                      ELSE answer[r]]
  /\ lapsed' = [k \in Keys |-> lapsed[k] \cup (IF data[k].state = "done"
                                                 THEN {"result"} ELSE {})]
  /\ UNCHANGED <<key, hash>>

-----------------------------------------------------------------------------

InUse(k) == data[k].state = "locked" /\ \E r \in Requests : owner[k] = r /\ pc[r] = "adapter"

\* One tick of time.monotonic().  The comparison of _get is strict: an entry
\* with left = 0 is still valid, and only the tick after that ends it.
Tick ==
  LET gone == {k \in Keys : data[k] # Absent /\ data[k].left = 0} IN
  /\ \E k \in Keys : data[k] # Absent /\ data[k].left # Expired
  /\ data'   = [k \in Keys |-> IF data[k] = Absent \/ data[k].left = Expired THEN data[k]
                               ELSE [data[k] EXCEPT !.left = @ - 1]]
  /\ owner'  = [k \in Keys |-> IF k \in gone THEN None ELSE owner[k]]
  /\ lapsed' = [k \in Keys |->
                  IF k \notin gone THEN lapsed[k]
                  ELSE lapsed[k] \cup (IF InUse(k) THEN {"lock"} ELSE {})
                                 \cup (IF data[k].state = "done" THEN {"result"} ELSE {})]
  /\ UNCHANGED <<pc, key, hash, answer>>

Step(r) == CheckAndLock(r) \/ StoreResult(r) \/ Reply(r) \/ DeleteLock(r)

Next ==
  \/ \E r \in Requests : \/ \E k \in Keys, h \in Hashes : Call(r, k, h)
                         \/ Step(r)
                         \/ Abort(r)
  \/ Restart
  \/ Tick

Spec == Init /\ [][Next]_vars

\* The event loop keeps running its requests, adapters answer, time passes.
FairSpec == Spec /\ WF_vars(Tick) /\ \A r \in Requests : WF_vars(Step(r))

-----------------------------------------------------------------------------

\* An expired entry is as good as gone.
slot == [k \in Keys |->
           LET v == Get(k) IN
           [state |-> CASE v.state = "absent" -> "free"
                        [] v.state = "locked" -> "held"
                        [] v.state = "done"   -> "done",
            run |-> IF v.state = "locked" THEN owner[k] ELSE v.run]]

phase == [r \in Requests |->
            CASE pc[r] = "check"   -> "waiting"
              [] pc[r] = "adapter" -> "working"
              [] pc[r] = "reply"   -> "saved"
              [] OTHER             -> pc[r]]

reply == [r \in Requests |-> answer[r].run]

Contract == INSTANCE IdempotencyContract
              WITH slot <- slot, phase <- phase, key <- key, hash <- hash,
                   reply <- reply, lapsed <- lapsed

\* The dict keeps the same contract as the shared store, restarts included:
\* lazy deletion never shows.
ContractSpec == Contract!Spec

-----------------------------------------------------------------------------

\* The parts of the inductive invariant on which the properties below rest.

\* A lock that still counts: one past its time, though in the dict, is not.
IsLocked(k) == Get(k).state = "locked"

\* What is not in the dict has no hash, no run and no time.
AbsentIsEmpty ==
  \A k \in Keys : data[k].state = "absent" => data[k] = Absent

\* A lock carries the key and the body hash of the request that set it.
LockHasOwner ==
  \A k \in Keys : IsLocked(k) =>
    /\ owner[k] \in Requests
    /\ pc[owner[k]] # "idle"
    /\ key[owner[k]] = k
    /\ hash[owner[k]] = data[k].hash

\* A result carries the key and the body hash of the request it came from, and
\* one past its time has been counted as lapsed though it is still in the dict.
ResultHasRun ==
  \A k \in Keys : data[k].state = "done" =>
    /\ pc[data[k].run] # "idle"
    /\ key[data[k].run] = k
    /\ hash[data[k].run] = data[k].hash
    /\ data[k].left = Expired => "result" \in lapsed[k]

\* Until a lock has run out, whoever is at the adapter owns the lock of its key.
WorkersOwnTheLock ==
  \A r \in Requests : pc[r] = "adapter" /\ "lock" \notin lapsed[key[r]] =>
    IsLocked(key[r]) /\ owner[key[r]] = r

\* Until something has run out, a response that was or will be given is cached.
RepliesAreCached ==
  \A r \in Requests : pc[r] # "idle" /\ lapsed[key[r]] = {} =>
    /\ answer[r].code = "200" => /\ Get(key[r]).state = "done"
                                 /\ Get(key[r]).run = answer[r].run
    /\ pc[r] = "reply"        => /\ Get(key[r]).state = "done"
                                 /\ Get(key[r]).run = r

\* No answer is given before a request is answered.
AnswersComeLast ==
  \A r \in Requests : pc[r] # "ended" => answer[r] = NoAnswer

\* The inductive invariant.
IInv ==
  /\ TypeOK
  /\ AbsentIsEmpty
  /\ LockHasOwner
  /\ ResultHasRun
  /\ WorkersOwnTheLock
  /\ RepliesAreCached
  /\ AnswersComeLast

-----------------------------------------------------------------------------

\* Until a lock has run out under a request at work, no two requests with the
\* same key are at the adapter together, whatever restarts happen.
OneAtTheAdapter ==
  \A k \in Keys : "lock" \notin lapsed[k] =>
    \A r, s \in Requests :
      key[r] = k /\ key[s] = k /\ pc[r] = "adapter" /\ pc[s] = "adapter" => r = s

\* While nothing has run out on a key and no restart has lost its result, every
\* 200 answered for it carries the response of one and the same run.
AllRepliesAgree ==
  \A k \in Keys : lapsed[k] = {} =>
    \A r, s \in Requests :
      key[r] = k /\ key[s] = k /\ answer[r].code = "200" /\ answer[s].code = "200"
        => answer[r].run = answer[s].run

\* A key locked by a request that dies becomes free again: nobody stays locked
\* out, though no timer runs and the entry is deleted only when looked at.
LocksAreReleased ==
  \A k \in Keys : Get(k).state = "locked" ~> Get(k).state # "locked"
=============================================================================
