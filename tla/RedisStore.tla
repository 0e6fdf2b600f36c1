----------------------------- MODULE RedisStore -----------------------------
(***************************************************************************)
(* RedisIdempotencyStore (demo_adapter/compute/idempotency.py): the        *)
(* requests of any number of API processes share one Redis.  Every await   *)
(* on the Redis client is a step of its own, so the commands of concurrent *)
(* requests interleave.  Time is counted in ticks by the `left' field of   *)
(* an entry; owner, lapsed and contended are history variables.            *)
(***************************************************************************)
EXTENDS Naturals

CONSTANTS Requests,          \* HTTP requests that carry an Idempotency-Key
          Keys,              \* cache keys
          Hashes,            \* body hashes
          LOCK_TTL_SECONDS,  \* ticks a LOCKED entry lives
          TTL,               \* ticks a DONE entry lives (IDEMPOTENCY_TTL_SECONDS)
          None               \* no request, no key, no hash

ASSUME TTLAssumption ==
  LOCK_TTL_SECONDS \in Nat \ {0} /\ TTL \in Nat \ {0}

ASSUME NoneAssumption ==
  None \notin Requests /\ None \notin Keys /\ None \notin Hashes

VARIABLES store,     \* store[k]: the value of Redis key k and its time to live
          pc,        \* pc[r]: the next await of request r
          key,       \* key[r]: its cache_key
          hash,      \* hash[r]: its body_hash
          dirty,     \* requests whose WATCHed key changed since the WATCH
          answer,    \* answer[r]: what the client got
          owner,     \* owner[k]: the request that set the LOCKED value of k
          lapsed,    \* lapsed[k]: "lock" if a lock of k ran out under a request
                     \*   at work, "result" if a DONE entry of k ran out
          contended  \* requests whose key was LOCKED at some time of their check

vars == <<store, pc, key, hash, dirty, answer, owner, lapsed, contended>>

-----------------------------------------------------------------------------

Absent     == [state |-> "absent", hash |-> None, run |-> None, left |-> 0]
\* Mutant of LOCKED: SET without EX.
LOCKEDForGood(h) == [state |-> "locked", hash |-> h, run |-> None, left |-> 0]

LOCKED(h)  == [state |-> "locked", hash |-> h, run |-> None, left |-> LOCK_TTL_SECONDS]
DONE(h, r) == [state |-> "done", hash |-> h, run |-> r, left |-> TTL]

Entry == [state : {"absent", "locked", "done"},
          hash  : Hashes \cup {None},
          run   : Requests \cup {None},
          left  : Nat]

\* Steps of check_and_lock, of store_result and of delete_lock.
Checking == {"setnx", "get", "setnx_again"}
Storing  == {"store_watch", "store_get", "store_exec"}
Deleting == {"delete_watch", "delete_get", "delete_exec"}
Watched  == {"store_get", "store_exec", "delete_get", "delete_exec"}
Working  == {"adapter"} \cup Storing \cup Deleting
PC       == {"idle", "reply", "ended"} \cup Checking \cup Working

Codes  == {"none", "200", "409", "422", "500", "lost"}
Answer == [code : Codes, run : Requests \cup {None}]
NoAnswer == [code |-> "none", run |-> None]

TypeOK ==
  /\ store     \in [Keys -> Entry]
  /\ pc        \in [Requests -> PC]
  /\ key       \in [Requests -> Keys \cup {None}]
  /\ hash      \in [Requests -> Hashes \cup {None}]
  /\ dirty     \subseteq Requests
  /\ answer    \in [Requests -> Answer]
  /\ owner     \in [Keys -> Requests \cup {None}]
  /\ lapsed    \in [Keys -> SUBSET {"lock", "result"}]
  /\ contended \subseteq Requests
  /\ \A r \in Requests : pc[r] # "idle" => key[r] \in Keys /\ hash[r] \in Hashes

Init ==
  /\ store     = [k \in Keys |-> Absent]
  /\ pc        = [r \in Requests |-> "idle"]
  /\ key       = [r \in Requests |-> None]
  /\ hash      = [r \in Requests |-> None]
  /\ dirty     = {}
  /\ answer    = [r \in Requests |-> NoAnswer]
  /\ owner     = [k \in Keys |-> None]
  /\ lapsed    = [k \in Keys |-> {}]
  /\ contended = {}

-----------------------------------------------------------------------------

IsLocked(k)     == store[k].state = "locked"
LockedBy(k, h)  == IsLocked(k) /\ store[k].hash = h

\* The watchers whose EXEC fails once the keys of K have changed.
Dirtied(K) == dirty \cup {r \in Requests : pc[r] \in Watched /\ key[r] \in K}

Goto(r, label) ==
  /\ pc' = [pc EXCEPT ![r] = label]
  /\ UNCHANGED <<store, key, hash, dirty, answer, owner, lapsed, contended>>

\* The request is answered and its connection goes back to the pool.
Finish(r, code, run) ==
  /\ pc'     = [pc EXCEPT ![r] = "ended"]
  /\ answer' = [answer EXCEPT ![r] = [code |-> code, run |-> run]]

\* Mutant of Call: the body hash is forgotten.
CallUnhashed(r, k, h) ==
  /\ pc[r] = "idle"
  /\ pc'        = [pc EXCEPT ![r] = "setnx"]
  /\ key'       = [key EXCEPT ![r] = k]
  /\ contended' = IF IsLocked(k) THEN contended \cup {r} ELSE contended
  /\ UNCHANGED <<store, hash, dirty, answer, owner, lapsed>>

\* A request with a key enters check_and_lock.
Call(r, k, h) ==
  /\ pc[r] = "idle"
  /\ pc'        = [pc EXCEPT ![r] = "setnx"]
  /\ key'       = [key EXCEPT ![r] = k]
  /\ hash'      = [hash EXCEPT ![r] = h]
  /\ contended' = IF IsLocked(k) THEN contended \cup {r} ELSE contended
  /\ UNCHANGED <<store, dirty, answer, owner, lapsed>>

\* Mutant of SetNX: a plain SET, without NX.
SetAlways(r, otherwise) ==
  /\ store' = [store EXCEPT ![key[r]] = LOCKED(hash[r])]
  /\ owner' = [owner EXCEPT ![key[r]] = r]
  /\ dirty' = Dirtied({key[r]})
  /\ pc' = [pc EXCEPT ![r] = "adapter"]
  /\ UNCHANGED <<key, hash, answer, lapsed, contended>>

\* SET rkey LOCKED:hash NX EX: "proceed" if the key was absent.
SetNX(r, otherwise) ==
  LET k == key[r] IN
  \/ /\ store[k] = Absent
     /\ store' = [store EXCEPT ![k] = LOCKED(hash[r])]
     /\ owner' = [owner EXCEPT ![k] = r]
     /\ dirty' = Dirtied({k})
     /\ contended' = contended \cup
                       {s \in Requests \ {r} : pc[s] \in Checking /\ key[s] = k}
     /\ pc' = [pc EXCEPT ![r] = "adapter"]
     /\ UNCHANGED <<key, hash, answer, lapsed>>
  \/ /\ store[k] # Absent
     /\ otherwise

CheckSetNX(r) ==
  /\ pc[r] = "setnx"
  /\ SetNX(r, Goto(r, "get"))

Refuse(r, code, run) ==
  /\ Finish(r, code, run)
  /\ UNCHANGED <<store, key, hash, dirty, owner, lapsed, contended>>

\* Mutant of CheckGet: the body hash of a cached response is not compared.
CheckGetAnyBody(r) ==
  LET v == store[key[r]] IN
  /\ pc[r] = "get"
  /\ \/ v.state = "absent" /\ Goto(r, "setnx_again")
     \/ v.state = "locked" /\ Refuse(r, "409", None)
     \/ v.state = "done" /\ Refuse(r, "200", v.run)

\* Mutant of CheckGet: no second try when the key has expired after SET NX.
CheckGetOnce(r) ==
  LET v == store[key[r]] IN
  /\ pc[r] = "get"
  /\ \/ v.state \in {"absent", "locked"} /\ Refuse(r, "409", None)
     \/ v.state = "done" /\ v.hash # hash[r] /\ Refuse(r, "422", None)
     \/ v.state = "done" /\ v.hash = hash[r] /\ Refuse(r, "200", v.run)

\* GET rkey, and the answer its value calls for.
CheckGet(r) ==
  LET v == store[key[r]] IN
  /\ pc[r] = "get"
  /\ \/ v.state = "absent" /\ Goto(r, "setnx_again")
     \/ v.state = "locked" /\ Refuse(r, "409", None)
     \/ v.state = "done" /\ v.hash # hash[r] /\ Refuse(r, "422", None)
     \/ v.state = "done" /\ v.hash = hash[r] /\ Refuse(r, "200", v.run)

\* Mutant of CheckSetNXAgain: the outcome of the second SET NX is not looked at.
CheckSetNXAgainUnchecked(r) ==
  /\ pc[r] = "setnx_again"
  /\ SetNX(r, Goto(r, "adapter"))

\* The key expired between SET NX and GET; try once more.
CheckSetNXAgain(r) ==
  /\ pc[r] = "setnx_again"
  /\ SetNX(r, Refuse(r, "409", None))

-----------------------------------------------------------------------------

AdapterReturns(r) == pc[r] = "adapter" /\ Goto(r, "store_watch")
AdapterRaises(r)  == pc[r] = "adapter" /\ Goto(r, "delete_watch")

Watch(r, from, to) ==
  /\ pc[r] = from
  /\ pc'    = [pc EXCEPT ![r] = to]
  /\ dirty' = dirty \ {r}
  /\ UNCHANGED <<store, key, hash, answer, owner, lapsed, contended>>

\* Mutant of Exec: without WATCH, EXEC is always applied.
ExecUnwatched(r, value) ==
  /\ store' = [store EXCEPT ![key[r]] = value]
  /\ owner' = [owner EXCEPT ![key[r]] = None]
  /\ dirty' = Dirtied({key[r]}) \ {r}

\* EXEC: applied unless the watched key changed; a WatchError is swallowed.
Exec(r, value) ==
  LET k == key[r] IN
  \/ /\ r \notin dirty
     /\ store' = [store EXCEPT ![k] = value]
     /\ owner' = [owner EXCEPT ![k] = None]
     /\ dirty' = Dirtied({k}) \ {r}
  \/ /\ r \in dirty
     /\ dirty' = dirty \ {r}
     /\ UNCHANGED <<store, owner>>

StoreWatch(r) == Watch(r, "store_watch", "store_get")

\* Mutant of StoreGet: the expected value is built wrongly and never matches.
StoreGetNever(r) ==
  /\ pc[r] = "store_get"
  /\ Goto(r, "reply")

\* Mutant of StoreGet: waits for the lock instead of giving up.
StoreGetRetries(r) ==
  /\ pc[r] = "store_get"
  /\ Goto(r, IF LockedBy(key[r], hash[r]) THEN "store_exec" ELSE "store_watch")

\* Only a lock with our own hash is turned into DONE.
StoreGet(r) ==
  /\ pc[r] = "store_get"
  /\ Goto(r, IF LockedBy(key[r], hash[r]) THEN "store_exec" ELSE "reply")

StoreExec(r) ==
  /\ pc[r] = "store_exec"
  /\ Exec(r, DONE(hash[r], r))
  /\ pc' = [pc EXCEPT ![r] = "reply"]
  /\ UNCHANGED <<key, hash, answer, lapsed, contended>>

\* The adapter's own response is returned, whatever store_result did.
Reply(r) ==
  /\ pc[r] = "reply"
  /\ Refuse(r, "200", r)

DeleteWatch(r) == Watch(r, "delete_watch", "delete_get")

\* Mutant of DeleteGet: whatever is there is deleted.
DeleteGetAnything(r) ==
  /\ pc[r] = "delete_get"
  /\ Goto(r, "delete_exec")

\* Any LOCKED value is deleted, whoever set it.
DeleteGet(r) ==
  /\ pc[r] = "delete_get"
  /\ \/ IsLocked(key[r]) /\ Goto(r, "delete_exec")
     \/ ~IsLocked(key[r]) /\ Refuse(r, "500", None)

DeleteExec(r) ==
  /\ pc[r] = "delete_exec"
  /\ Exec(r, Absent)
  /\ Finish(r, "500", None)
  /\ UNCHANGED <<key, hash, lapsed, contended>>

\* The request dies at an await: its process stops, or the client raises.
Abort(r) ==
  /\ pc[r] \notin {"idle", "ended"}
  /\ Finish(r, "lost", None)
  /\ UNCHANGED <<store, key, hash, dirty, owner, lapsed, contended>>

-----------------------------------------------------------------------------

InUse(k) == IsLocked(k) /\ \E r \in Requests : owner[k] = r /\ pc[r] \in Working

\* One tick of Redis's clock: entries whose time is up disappear, and those
\* without a time to live stay as they are.
Tick ==
  LET gone == {k \in Keys : store[k].left = 1} IN
  /\ \E k \in Keys : store[k] # Absent
  /\ store' = [k \in Keys |->
                 IF k \in gone THEN Absent
                 ELSE IF store[k].left = 0 THEN store[k]
                 ELSE [store[k] EXCEPT !.left = @ - 1]]
  /\ owner'  = [k \in Keys |-> IF k \in gone THEN None ELSE owner[k]]
  /\ dirty'  = Dirtied(gone)
  /\ lapsed' = [k \in Keys |->
                  IF k \notin gone THEN lapsed[k]
                  ELSE lapsed[k] \cup (IF InUse(k) THEN {"lock"} ELSE {})
                                 \cup (IF store[k].state = "done" THEN {"result"} ELSE {})]
  /\ UNCHANGED <<pc, key, hash, answer, contended>>

\* The steps of a request that its process keeps taking once it has arrived.
Step(r) ==
  \/ CheckSetNX(r) \/ CheckGet(r) \/ CheckSetNXAgain(r)
  \/ AdapterReturns(r) \/ AdapterRaises(r)
  \/ StoreWatch(r) \/ StoreGet(r) \/ StoreExec(r) \/ Reply(r)
  \/ DeleteWatch(r) \/ DeleteGet(r) \/ DeleteExec(r)

Next ==
  \/ \E r \in Requests : \/ \E k \in Keys, h \in Hashes : Call(r, k, h)
                         \/ Step(r)
                         \/ Abort(r)
  \/ Tick

Spec == Init /\ [][Next]_vars

\* Event loops keep running their requests, adapters answer, time passes.
FairSpec == Spec /\ WF_vars(Tick) /\ \A r \in Requests : WF_vars(Step(r))

-----------------------------------------------------------------------------

\* The lock of a key is free, held by a request, or done with its response.
slot == [k \in Keys |->
           [state |-> CASE store[k].state = "absent" -> "free"
                        [] store[k].state = "locked" -> "held"
                        [] store[k].state = "done"   -> "done",
            run |-> IF IsLocked(k) THEN owner[k] ELSE store[k].run]]

phase == [r \in Requests |->
            CASE pc[r] \in Checking -> "waiting"
              [] pc[r] \in Working  -> "working"
              [] pc[r] = "reply"    -> "saved"
              [] OTHER              -> pc[r]]

reply == [r \in Requests |-> answer[r].run]

Contract == INSTANCE IdempotencyContract
              WITH slot <- slot, phase <- phase, key <- key, hash <- hash,
                   reply <- reply, lapsed <- lapsed

\* The multi-command store keeps the contract: every step of a request or of
\* the clock is a step of the contract or changes nothing the contract sees.
ContractSpec == Contract!Spec

-----------------------------------------------------------------------------

\* The parts of the inductive invariant on which the properties below rest.

\* An entry lives as long as it is there, and a missing one is Absent.
EntriesLive ==
  \A k \in Keys : IF store[k].state = "absent" THEN store[k] = Absent
                                               ELSE store[k].left > 0

\* A lock carries the key and the body hash of the request that set it.
LockHasOwner ==
  \A k \in Keys : IsLocked(k) =>
    /\ owner[k] \in Requests
    /\ pc[owner[k]] # "idle"
    /\ key[owner[k]] = k
    /\ hash[owner[k]] = store[k].hash

\* A result carries the key and the body hash of the request it came from.
ResultHasRun ==
  \A k \in Keys : store[k].state = "done" =>
    /\ store[k].run \in Requests
    /\ pc[store[k].run] # "idle"
    /\ key[store[k].run] = k
    /\ hash[store[k].run] = store[k].hash

\* Until a lock has run out, who is at work on a key owns its lock, and nothing
\* has touched it behind a WATCH.
WorkersOwnTheLock ==
  \A r \in Requests : pc[r] \in Working /\ "lock" \notin lapsed[key[r]] =>
    /\ IsLocked(key[r])
    /\ owner[key[r]] = r
    /\ pc[r] \in Watched => r \notin dirty

\* An EXEC that will be applied finds the lock that GET has seen.
ExecFindsTheLock ==
  \A r \in Requests \ dirty :
    /\ pc[r] = "store_exec"  => LockedBy(key[r], hash[r])
    /\ pc[r] = "delete_exec" => IsLocked(key[r])

\* Whoever meets a lock during its check, or a value at its second SET NX, was
\* in contention.
CheckersWereContended ==
  \A r \in Requests \ contended :
    /\ pc[r] \in Checking => ~IsLocked(key[r])
    /\ pc[r] = "setnx_again" => store[key[r]].state = "absent"

\* Until something has run out, a response that was or will be given is cached.
RepliesAreCached ==
  \A r \in Requests : pc[r] # "idle" /\ lapsed[key[r]] = {} =>
    /\ answer[r].code = "200" => /\ store[key[r]].state = "done"
                                 /\ store[key[r]].run = answer[r].run
    /\ pc[r] = "reply"        => /\ store[key[r]].state = "done"
                                 /\ store[key[r]].run = r

\* Until a lock has run out under a request at work, no two requests with the
\* same key are at the adapter together.
OneAtTheAdapter ==
  \A k \in Keys : "lock" \notin lapsed[k] =>
    \A r, s \in Requests :
      key[r] = k /\ key[s] = k /\ pc[r] \in Working /\ pc[s] \in Working => r = s

\* While nothing has run out on a key, every 200 answered for it carries the
\* response of one and the same run of the adapter.
AllRepliesAgree ==
  \A k \in Keys : lapsed[k] = {} =>
    \A r, s \in Requests :
      key[r] = k /\ key[s] = k /\ answer[r].code = "200" /\ answer[s].code = "200"
        => answer[r].run = answer[s].run

\* A replayed response was produced for the same key and the same body, even
\* after locks have been taken over.
HitReplaysSameBody ==
  \A r \in Requests : answer[r].code = "200" =>
    LET s == answer[r].run IN key[s] = key[r] /\ hash[s] = hash[r]

\* A 409 tells the truth: the key was locked by another request at some time
\* during the check, though no single command of the check need have seen it.
ConflictMeansContention ==
  \A r \in Requests : answer[r].code = "409" => r \in contended

\* No answer is given before a request is answered.
AnswersComeLast ==
  \A r \in Requests : pc[r] # "ended" => answer[r] = NoAnswer

\* The run of a 200 is a request that has been made.
AnswersHaveRun ==
  \A r \in Requests : answer[r].code = "200" =>
    answer[r].run \in Requests /\ pc[answer[r].run] # "idle"

\* The inductive invariant.
IInv ==
  /\ TypeOK
  /\ EntriesLive
  /\ LockHasOwner
  /\ ResultHasRun
  /\ WorkersOwnTheLock
  /\ ExecFindsTheLock
  /\ CheckersWereContended
  /\ RepliesAreCached
  /\ AnswersComeLast
  /\ AnswersHaveRun
  /\ HitReplaysSameBody
  /\ ConflictMeansContention

\* A completed entry is never replaced or removed before its time is up.
DoneIsFinal ==
  [][\A k \in Keys : store[k].state = "done" /\ store[k].left > 1
       => store'[k].state = "done" /\ store'[k].run = store[k].run]_vars

\* No lock is left behind, also when the request that took it has died.
LocksAreReleased == \A k \in Keys : IsLocked(k) ~> ~IsLocked(k)

\* Every request that arrives is answered or lost: no step waits for another.
EveryRequestEnds == \A r \in Requests : pc[r] = "setnx" ~> pc[r] = "ended"

\* The docstring of store_result: "Write DONE only if we still own the lock".
DoneIsWrittenByTheOwner ==
  [][\A k \in Keys : store'[k].state = "done" /\ store[k].state # "done"
       => store'[k].run = owner[k]]_vars
=============================================================================
