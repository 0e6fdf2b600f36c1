-------------------------- MODULE RedisStoreProofs --------------------------
(***************************************************************************)
(* Proofs about RedisStore, for any number of requests, keys and hashes    *)
(* and any times to live: its inductive invariant, its safety properties,  *)
(* and that it implements IdempotencyContract.                             *)
(***************************************************************************)
EXTENDS RedisStore, TLAPS

\* The values the commands write are entries.
LEMMA EntryTypes ==
  /\ Absent \in Entry
  /\ \A h \in Hashes : LOCKED(h) \in Entry
  /\ \A h \in Hashes, r \in Requests : DONE(h, r) \in Entry
BY TTLAssumption DEF Absent, LOCKED, DONE, Entry

\* The clock ages an entry or removes it.
LEMMA AgedEntry ==
  ASSUME NEW v \in Entry, v.left \notin {0, 1}
  PROVE  /\ [v EXCEPT !.left = @ - 1] \in Entry
         /\ [v EXCEPT !.left = @ - 1].left = v.left - 1
         /\ [v EXCEPT !.left = @ - 1].state = v.state
         /\ [v EXCEPT !.left = @ - 1].hash = v.hash
         /\ [v EXCEPT !.left = @ - 1].run = v.run
BY DEF Entry

\* Every step of a request or of the clock keeps the types.
LEMMA TypeInductive == TypeOK /\ [Next]_vars => TypeOK'
<1> SUFFICES ASSUME TypeOK, [Next]_vars PROVE TypeOK'
  OBVIOUS
<1> USE DEF TypeOK
<1>1. ASSUME NEW r \in Requests, NEW k \in Keys, NEW h \in Hashes, Call(r, k, h)
      PROVE  TypeOK'
  <2>1. "setnx" \in PC
    BY DEF PC, Checking
  <2>2. \A s \in Requests : pc'[s] # "idle" => key'[s] \in Keys /\ hash'[s] \in Hashes
    BY <1>1 DEF Call
  <2> QED
    BY <1>1, <2>1, <2>2 DEF Call
<1>2. ASSUME NEW r \in Requests, CheckSetNX(r) \/ CheckSetNXAgain(r)
      PROVE  TypeOK'
  <2>1. "get" \in PC /\ "adapter" \in PC /\ "ended" \in PC
    BY DEF PC, Checking, Working
  <2>2. [code |-> "409", run |-> None] \in Answer
    BY DEF Answer, Codes
  <2>3. pc[r] # "idle"
    BY <1>2 DEF CheckSetNX, CheckSetNXAgain
  <2>4. CASE store[key[r]] = Absent
    BY <1>2, <2>1, <2>3, <2>4, EntryTypes DEF CheckSetNX, CheckSetNXAgain, SetNX, Dirtied
  <2>5. CASE store[key[r]] # Absent
    BY <1>2, <2>1, <2>2, <2>3, <2>5
       DEF CheckSetNX, CheckSetNXAgain, SetNX, Goto, Refuse, Finish
  <2> QED
    BY <2>4, <2>5
<1>3. ASSUME NEW r \in Requests, CheckGet(r)
      PROVE  TypeOK'
  <2>1. "setnx_again" \in PC /\ "ended" \in PC
    BY DEF PC, Checking
  <2>2. store[key[r]].run \in Requests \cup {None}
    BY <1>3 DEF CheckGet, Entry
  <2>3. \A code \in Codes, run \in Requests \cup {None} :
          [code |-> code, run |-> run] \in Answer
    BY DEF Answer
  <2>4. CASE store[key[r]].state = "absent"
    BY <1>3, <2>1, <2>4 DEF CheckGet, Goto
  <2>5. CASE store[key[r]].state # "absent"
    <3>1. \E code \in Codes, run \in Requests \cup {None} : Refuse(r, code, run)
      BY <1>3, <2>2, <2>5 DEF CheckGet, Codes
    <3> QED
      BY <1>3, <2>1, <2>3, <3>1 DEF CheckGet, Refuse, Finish
  <2> QED
    BY <2>4, <2>5
<1>4. ASSUME NEW r \in Requests, AdapterReturns(r) \/ AdapterRaises(r)
      PROVE  TypeOK'
  BY <1>4 DEF AdapterReturns, AdapterRaises, Goto, PC, Working, Storing, Deleting
<1>5. ASSUME NEW r \in Requests, StoreWatch(r) \/ DeleteWatch(r)
      PROVE  TypeOK'
  BY <1>5 DEF StoreWatch, DeleteWatch, Watch, PC, Working, Storing, Deleting
<1>6. ASSUME NEW r \in Requests, StoreGet(r)
      PROVE  TypeOK'
  BY <1>6 DEF StoreGet, Goto, PC, Working, Storing
<1>7. ASSUME NEW r \in Requests, StoreExec(r)
      PROVE  TypeOK'
  <2>1. "reply" \in PC /\ pc[r] # "idle"
    BY <1>7 DEF StoreExec, PC
  <2> QED
    BY <1>7, <2>1, EntryTypes DEF StoreExec, Exec, Dirtied
<1>8. ASSUME NEW r \in Requests, Reply(r)
      PROVE  TypeOK'
  BY <1>8 DEF Reply, Refuse, Finish, PC, Answer, Codes
<1>9. ASSUME NEW r \in Requests, DeleteGet(r)
      PROVE  TypeOK'
  BY <1>9 DEF DeleteGet, Goto, Refuse, Finish, PC, Working, Deleting, Answer, Codes
<1>10. ASSUME NEW r \in Requests, DeleteExec(r)
       PROVE  TypeOK'
  <2>1. "ended" \in PC /\ pc[r] # "idle"
    BY <1>10 DEF DeleteExec, PC
  <2>2. [code |-> "500", run |-> None] \in Answer
    BY DEF Answer, Codes
  <2> QED
    BY <1>10, <2>1, <2>2, EntryTypes DEF DeleteExec, Exec, Finish, Dirtied
<1>11. ASSUME NEW r \in Requests, Abort(r)
       PROVE  TypeOK'
  BY <1>11 DEF Abort, Finish, PC, Answer, Codes
<1>12. CASE Tick
  <2>1. store' \in [Keys -> Entry]
    BY <1>12, EntryTypes, AgedEntry DEF Tick
  <2>2. ASSUME NEW k \in Keys
        PROVE  lapsed'[k] \in SUBSET {"lock", "result"}
    BY <1>12 DEF Tick
  <2>3. lapsed' = [k \in Keys |-> lapsed'[k]]
    BY <1>12 DEF Tick
  <2>4. lapsed' \in [Keys -> SUBSET {"lock", "result"}]
    BY <2>2, <2>3
  <2> QED
    BY <1>12, <2>1, <2>4 DEF Tick, Dirtied
<1>13. CASE UNCHANGED vars
  BY <1>13 DEF vars
<1> QED
  BY <1>1, <1>2, <1>3, <1>4, <1>5, <1>6, <1>7, <1>8, <1>9, <1>10, <1>11, <1>12,
     <1>13 DEF Next, Step

\* The type invariant holds in every reachable state.
THEOREM TypeCorrect == Spec => []TypeOK
<1>1. Init => TypeOK
  BY EntryTypes DEF Init, TypeOK, PC, Answer, Codes, NoAnswer
<1>2. QED
  BY <1>1, TypeInductive, PTL DEF Spec

-----------------------------------------------------------------------------

\* The inductive invariant is preserved.  In every case the parts that only
\* follow the step itself come first; a part that rests on other parts of the
\* invariant has a step of its own.
LEMMA InvariantInductive == IInv /\ [Next]_vars => IInv'
<1> SUFFICES ASSUME IInv, [Next]_vars PROVE IInv'
  OBVIOUS
<1> USE NoneAssumption, TTLAssumption
        DEF IInv, TypeOK, IsLocked, LockedBy, Absent, LOCKED, DONE, NoAnswer,
            Checking, Storing, Deleting, Working, Watched
<1>0. TypeOK'
  BY TypeInductive
<1>1. ASSUME NEW r \in Requests, NEW k \in Keys, NEW h \in Hashes, Call(r, k, h)
      PROVE  IInv'
  <2>1. EntriesLive' /\ LockHasOwner' /\ ResultHasRun'
    BY <1>0, <1>1 DEF Call, EntriesLive, LockHasOwner, ResultHasRun
  <2>2. WorkersOwnTheLock' /\ ExecFindsTheLock' /\ CheckersWereContended'
    BY <1>0, <1>1 DEF Call, WorkersOwnTheLock, ExecFindsTheLock, CheckersWereContended
  <2>3. AnswersComeLast' /\ AnswersHaveRun' /\ ConflictMeansContention'
    BY <1>0, <1>1 DEF Call, AnswersComeLast, AnswersHaveRun, ConflictMeansContention
  \* And it is not the run of anybody's answer.
  <2>4. HitReplaysSameBody'
    BY <1>0, <1>1 DEF Call, HitReplaysSameBody, AnswersComeLast, AnswersHaveRun
  \* A request that has not yet arrived has no answer.
  <2>5. RepliesAreCached'
    BY <1>0, <1>1 DEF Call, RepliesAreCached, AnswersComeLast
  <2> QED
    BY <1>0, <2>1, <2>2, <2>3, <2>4, <2>5
<1>2. ASSUME NEW r \in Requests, CheckSetNX(r)
      PROVE  IInv'
  <2>1. EntriesLive' /\ LockHasOwner' /\ ResultHasRun'
    BY SMTT(30), <1>0, <1>2 DEF CheckSetNX, SetNX, Goto, Dirtied, EntriesLive, LockHasOwner, ResultHasRun
  <2>2. WorkersOwnTheLock' /\ ExecFindsTheLock' /\ CheckersWereContended'
    BY <1>0, <1>2 DEF CheckSetNX, SetNX, Goto, Dirtied, WorkersOwnTheLock, ExecFindsTheLock,
       CheckersWereContended
  <2>3. /\ AnswersComeLast' /\ AnswersHaveRun' /\ HitReplaysSameBody'
        /\ ConflictMeansContention' /\ RepliesAreCached'
    BY <1>0, <1>2 DEF CheckSetNX, SetNX, Goto, Dirtied, AnswersComeLast, AnswersHaveRun,
       HitReplaysSameBody, ConflictMeansContention, RepliesAreCached
  <2> QED
    BY <1>0, <2>1, <2>2, <2>3
<1>3. ASSUME NEW r \in Requests, CheckGet(r)
      PROVE  IInv'
  <2>1. EntriesLive' /\ LockHasOwner' /\ ResultHasRun'
    BY <1>0, <1>3 DEF CheckGet, Goto, Refuse, Finish, EntriesLive, LockHasOwner, ResultHasRun
  <2>2. WorkersOwnTheLock' /\ ExecFindsTheLock' /\ CheckersWereContended'
    BY <1>0, <1>3 DEF CheckGet, Goto, Refuse, Finish, WorkersOwnTheLock, ExecFindsTheLock,
       CheckersWereContended
  <2>3. AnswersComeLast' /\ RepliesAreCached'
    BY <1>0, <1>3 DEF CheckGet, Goto, Refuse, Finish, AnswersComeLast, RepliesAreCached
  \* The replayed entry names a request that was made.
  <2>4. AnswersHaveRun'
    BY <1>0, <1>3 DEF CheckGet, Goto, Refuse, Finish, AnswersHaveRun, ResultHasRun
  \* And it carries that request's key and hash.
  <2>5. HitReplaysSameBody'
    BY <1>0, <1>3 DEF CheckGet, Goto, Refuse, Finish, HitReplaysSameBody, ResultHasRun
  \* The lock just seen makes the conflict true.
  <2>6. ConflictMeansContention'
    BY <1>0, <1>3 DEF CheckGet, Goto, Refuse, Finish, ConflictMeansContention, CheckersWereContended
  <2> QED
    BY <1>0, <2>1, <2>2, <2>3, <2>4, <2>5, <2>6
<1>4. ASSUME NEW r \in Requests, CheckSetNXAgain(r)
      PROVE  IInv'
  <2>1. EntriesLive' /\ LockHasOwner' /\ ResultHasRun'
    BY <1>0, <1>4 DEF CheckSetNXAgain, SetNX, Refuse, Finish, Dirtied, EntriesLive, LockHasOwner,
       ResultHasRun
  <2>2. WorkersOwnTheLock' /\ ExecFindsTheLock' /\ CheckersWereContended'
    BY <1>0, <1>4 DEF CheckSetNXAgain, SetNX, Refuse, Finish, Dirtied, WorkersOwnTheLock,
       ExecFindsTheLock, CheckersWereContended
  <2>3. AnswersComeLast' /\ AnswersHaveRun' /\ HitReplaysSameBody' /\ RepliesAreCached'
    BY <1>0, <1>4 DEF CheckSetNXAgain, SetNX, Refuse, Finish, Dirtied, AnswersComeLast,
       AnswersHaveRun, HitReplaysSameBody, RepliesAreCached
  \* The value just met appeared during the check.
  <2>4. ConflictMeansContention'
    BY <1>0, <1>4 DEF CheckSetNXAgain, SetNX, Refuse, Finish, Dirtied, ConflictMeansContention,
       CheckersWereContended, EntriesLive
  <2> QED
    BY <1>0, <2>1, <2>2, <2>3, <2>4
<1>5. ASSUME NEW r \in Requests, AdapterReturns(r) \/ AdapterRaises(r)
      PROVE  IInv'
  <2>1. EntriesLive' /\ LockHasOwner' /\ ResultHasRun'
    BY <1>0, <1>5 DEF AdapterReturns, AdapterRaises, Goto, EntriesLive, LockHasOwner, ResultHasRun
  <2>2. WorkersOwnTheLock' /\ ExecFindsTheLock' /\ CheckersWereContended'
    BY <1>0, <1>5 DEF AdapterReturns, AdapterRaises, Goto, WorkersOwnTheLock, ExecFindsTheLock,
       CheckersWereContended
  <2>3. /\ AnswersComeLast' /\ AnswersHaveRun' /\ HitReplaysSameBody'
        /\ ConflictMeansContention' /\ RepliesAreCached'
    BY <1>0, <1>5 DEF AdapterReturns, AdapterRaises, Goto, AnswersComeLast, AnswersHaveRun,
       HitReplaysSameBody, ConflictMeansContention, RepliesAreCached
  <2> QED
    BY <1>0, <2>1, <2>2, <2>3
<1>6. ASSUME NEW r \in Requests, StoreWatch(r) \/ DeleteWatch(r)
      PROVE  IInv'
  <2>1. EntriesLive' /\ LockHasOwner' /\ ResultHasRun'
    BY <1>0, <1>6 DEF StoreWatch, DeleteWatch, Watch, EntriesLive, LockHasOwner, ResultHasRun
  <2>2. WorkersOwnTheLock' /\ ExecFindsTheLock' /\ CheckersWereContended'
    BY <1>0, <1>6 DEF StoreWatch, DeleteWatch, Watch, WorkersOwnTheLock, ExecFindsTheLock,
       CheckersWereContended
  <2>3. /\ AnswersComeLast' /\ AnswersHaveRun' /\ HitReplaysSameBody'
        /\ ConflictMeansContention' /\ RepliesAreCached'
    BY <1>0, <1>6 DEF StoreWatch, DeleteWatch, Watch, AnswersComeLast, AnswersHaveRun,
       HitReplaysSameBody, ConflictMeansContention, RepliesAreCached
  <2> QED
    BY <1>0, <2>1, <2>2, <2>3
<1>7. ASSUME NEW r \in Requests, StoreGet(r)
      PROVE  IInv'
  <2>1. EntriesLive' /\ LockHasOwner' /\ ResultHasRun'
    BY <1>0, <1>7 DEF StoreGet, Goto, EntriesLive, LockHasOwner, ResultHasRun
  <2>2. WorkersOwnTheLock' /\ ExecFindsTheLock' /\ CheckersWereContended'
    BY <1>0, <1>7 DEF StoreGet, Goto, WorkersOwnTheLock, ExecFindsTheLock, CheckersWereContended
  <2>3. /\ AnswersComeLast' /\ AnswersHaveRun'
        /\ HitReplaysSameBody' /\ ConflictMeansContention'
    BY <1>0, <1>7 DEF StoreGet, Goto, AnswersComeLast, AnswersHaveRun, HitReplaysSameBody,
       ConflictMeansContention
  \* A worker that lost its lock belongs to a key with a lapsed lock.
  <2>4. RepliesAreCached'
    BY <1>0, <1>7 DEF StoreGet, Goto, RepliesAreCached, WorkersOwnTheLock, LockHasOwner
  <2> QED
    BY <1>0, <2>1, <2>2, <2>3, <2>4
<1>8. ASSUME NEW r \in Requests, StoreExec(r)
      PROVE  IInv'
  <2>1. EntriesLive' /\ LockHasOwner' /\ ResultHasRun'
    BY <1>0, <1>8 DEF StoreExec, Exec, Dirtied, EntriesLive, LockHasOwner, ResultHasRun
  <2>2. WorkersOwnTheLock' /\ ExecFindsTheLock'
    BY <1>0, <1>8 DEF StoreExec, Exec, Dirtied, WorkersOwnTheLock, ExecFindsTheLock
  <2>3. /\ AnswersComeLast' /\ AnswersHaveRun'
        /\ HitReplaysSameBody' /\ ConflictMeansContention'
    BY <1>0, <1>8 DEF StoreExec, Exec, Dirtied, AnswersComeLast, AnswersHaveRun, HitReplaysSameBody,
       ConflictMeansContention
  \* EXEC replaces a lock, so it makes no key appear.
  <2>4. CheckersWereContended'
    BY <1>0, <1>8 DEF StoreExec, Exec, Dirtied, CheckersWereContended, ExecFindsTheLock
  \* Without a lapsed lock the EXEC is applied, and nothing was cached before it.
  <2>5. RepliesAreCached'
    BY <1>0, <1>8 DEF StoreExec, Exec, Dirtied, RepliesAreCached, WorkersOwnTheLock,
       ExecFindsTheLock
  <2> QED
    BY <1>0, <2>1, <2>2, <2>3, <2>4, <2>5
<1>9. ASSUME NEW r \in Requests, Reply(r)
      PROVE  IInv'
  <2>1. EntriesLive' /\ LockHasOwner' /\ ResultHasRun'
    BY <1>0, <1>9 DEF Reply, Refuse, Finish, EntriesLive, LockHasOwner, ResultHasRun
  <2>2. WorkersOwnTheLock' /\ ExecFindsTheLock' /\ CheckersWereContended'
    BY <1>0, <1>9 DEF Reply, Refuse, Finish, WorkersOwnTheLock, ExecFindsTheLock,
       CheckersWereContended
  <2>3. /\ AnswersComeLast' /\ AnswersHaveRun' /\ HitReplaysSameBody'
        /\ ConflictMeansContention' /\ RepliesAreCached'
    BY <1>0, <1>9 DEF Reply, Refuse, Finish, AnswersComeLast, AnswersHaveRun, HitReplaysSameBody,
       ConflictMeansContention, RepliesAreCached
  <2> QED
    BY <1>0, <2>1, <2>2, <2>3
<1>10. ASSUME NEW r \in Requests, DeleteGet(r)
       PROVE  IInv'
  <2>1. EntriesLive' /\ LockHasOwner' /\ ResultHasRun'
    BY <1>0, <1>10 DEF DeleteGet, Goto, Refuse, Finish, EntriesLive, LockHasOwner, ResultHasRun
  <2>2. WorkersOwnTheLock' /\ ExecFindsTheLock' /\ CheckersWereContended'
    BY <1>0, <1>10 DEF DeleteGet, Goto, Refuse, Finish, WorkersOwnTheLock, ExecFindsTheLock,
       CheckersWereContended
  <2>3. /\ AnswersComeLast' /\ AnswersHaveRun' /\ HitReplaysSameBody'
        /\ ConflictMeansContention' /\ RepliesAreCached'
    BY <1>0, <1>10 DEF DeleteGet, Goto, Refuse, Finish, AnswersComeLast, AnswersHaveRun,
       HitReplaysSameBody, ConflictMeansContention, RepliesAreCached
  <2> QED
    BY <1>0, <2>1, <2>2, <2>3
<1>11. ASSUME NEW r \in Requests, DeleteExec(r)
       PROVE  IInv'
  <2>1. EntriesLive' /\ LockHasOwner' /\ ResultHasRun'
    BY <1>0, <1>11 DEF DeleteExec, Exec, Finish, Dirtied, EntriesLive, LockHasOwner, ResultHasRun
  <2>2. WorkersOwnTheLock' /\ ExecFindsTheLock' /\ CheckersWereContended'
    BY <1>0, <1>11 DEF DeleteExec, Exec, Finish, Dirtied, WorkersOwnTheLock, ExecFindsTheLock,
       CheckersWereContended
  <2>3. /\ AnswersComeLast' /\ AnswersHaveRun'
        /\ HitReplaysSameBody' /\ ConflictMeansContention'
    BY <1>0, <1>11 DEF DeleteExec, Exec, Finish, Dirtied, AnswersComeLast, AnswersHaveRun,
       HitReplaysSameBody, ConflictMeansContention
  \* EXEC removes a lock, never a cached response.
  <2>4. RepliesAreCached'
    BY <1>0, <1>11 DEF DeleteExec, Exec, Finish, Dirtied, RepliesAreCached, ExecFindsTheLock
  <2> QED
    BY <1>0, <2>1, <2>2, <2>3, <2>4
<1>12. ASSUME NEW r \in Requests, Abort(r)
       PROVE  IInv'
  <2>1. EntriesLive' /\ LockHasOwner' /\ ResultHasRun'
    BY <1>0, <1>12 DEF Abort, Finish, EntriesLive, LockHasOwner, ResultHasRun
  <2>2. WorkersOwnTheLock' /\ ExecFindsTheLock' /\ CheckersWereContended'
    BY <1>0, <1>12 DEF Abort, Finish, WorkersOwnTheLock, ExecFindsTheLock, CheckersWereContended
  <2>3. /\ AnswersComeLast' /\ AnswersHaveRun' /\ HitReplaysSameBody'
        /\ ConflictMeansContention' /\ RepliesAreCached'
    BY <1>0, <1>12 DEF Abort, Finish, AnswersComeLast, AnswersHaveRun, HitReplaysSameBody,
       ConflictMeansContention, RepliesAreCached
  <2> QED
    BY <1>0, <2>1, <2>2, <2>3
<1>13. CASE Tick
  <2>1. ASSUME NEW k \in Keys, store[k].state = "absent"
        PROVE  store'[k] = Absent /\ lapsed'[k] = lapsed[k] /\ owner'[k] = owner[k]
    BY <1>13, <2>1 DEF Tick, EntriesLive
  <2>2. ASSUME NEW k \in Keys, store[k].state # "absent", store[k].left = 1
        PROVE  /\ store'[k] = Absent
               /\ lapsed'[k] = lapsed[k] \cup (IF InUse(k) THEN {"lock"} ELSE {})
                                 \cup (IF store[k].state = "done" THEN {"result"} ELSE {})
               /\ \A r \in Requests : key[r] = k /\ pc[r] \in Watched => r \in dirty'
    BY <1>13, <2>2 DEF Tick, Dirtied
  <2>3. ASSUME NEW k \in Keys, store[k].state # "absent", store[k].left # 1
        PROVE  /\ store'[k].state = store[k].state /\ store'[k].hash = store[k].hash
               /\ store'[k].run = store[k].run     /\ store'[k].left > 0
               /\ lapsed'[k] = lapsed[k] /\ owner'[k] = owner[k]
    <3>1. store[k] \in Entry /\ store[k].left \in Nat /\ store[k].left \notin {0, 1}
      BY <2>3 DEF EntriesLive, Entry
    <3>2. store'[k] = [store[k] EXCEPT !.left = @ - 1]
      BY <1>13, <3>1 DEF Tick
    <3>3. store'[k].state = store[k].state /\ store'[k].hash = store[k].hash
          /\ store'[k].run = store[k].run /\ store'[k].left = store[k].left - 1
      BY <3>1, <3>2, AgedEntry
    <3>4. lapsed'[k] = lapsed[k] /\ owner'[k] = owner[k]
      BY <1>13, <2>3 DEF Tick
    <3> QED
      BY <3>1, <3>3, <3>4
  <2>4. /\ UNCHANGED <<pc, key, hash, answer, contended>>
        /\ dirty \subseteq dirty'
        /\ \A r \in dirty' : r \in dirty \/ (pc[r] \in Watched /\ store[key[r]].left = 1)
    BY <1>13 DEF Tick, Dirtied
  <2>5. EntriesLive'
    BY <1>0, <2>1, <2>2, <2>3 DEF EntriesLive
  <2>6. LockHasOwner' /\ ResultHasRun'
    BY <2>1, <2>2, <2>3, <2>4 DEF LockHasOwner, ResultHasRun
  <2>7. WorkersOwnTheLock'
    <3> SUFFICES ASSUME NEW r \in Requests, pc[r] \in Working, "lock" \notin lapsed'[key[r]]
                 PROVE  IsLocked(key[r])' /\ owner'[key[r]] = r
                        /\ (pc[r] \in Watched => r \notin dirty')
      BY <2>4 DEF WorkersOwnTheLock
    <3>1. key[r] \in Keys
      OBVIOUS
    <3>2. "lock" \notin lapsed[key[r]]
      BY <3>1, <2>1, <2>2, <2>3
    <3>3. IsLocked(key[r]) /\ owner[key[r]] = r /\ (pc[r] \in Watched => r \notin dirty)
      BY <3>2 DEF WorkersOwnTheLock
    <3>4. store[key[r]].left # 1
      BY <3>1, <3>3, <2>2 DEF InUse
    <3> QED
      BY <3>1, <3>3, <3>4, <2>3, <2>4
  <2>8. ExecFindsTheLock'
    BY <2>1, <2>2, <2>3, <2>4 DEF ExecFindsTheLock
  <2>9. CheckersWereContended'
    BY <2>1, <2>2, <2>3, <2>4 DEF CheckersWereContended
  <2>10. RepliesAreCached'
    <3> SUFFICES ASSUME NEW r \in Requests, pc[r] # "idle", lapsed'[key[r]] = {}
                 PROVE  /\ answer[r].code = "200" => /\ store'[key[r]].state = "done"
                                                     /\ store'[key[r]].run = answer[r].run
                        /\ pc[r] = "reply"        => /\ store'[key[r]].state = "done"
                                                     /\ store'[key[r]].run = r
      BY <2>4 DEF RepliesAreCached
    <3>1. key[r] \in Keys
      OBVIOUS
    <3>2. lapsed[key[r]] = {}
      BY <3>1, <2>1, <2>2, <2>3
    <3>3. store[key[r]].state = "done" => store[key[r]].left # 1
      BY <3>1, <2>2
    <3> QED
      BY <3>1, <3>2, <3>3, <2>3 DEF RepliesAreCached
  <2>11. AnswersComeLast' /\ AnswersHaveRun' /\ HitReplaysSameBody' /\ ConflictMeansContention'
    BY <2>4 DEF AnswersComeLast, AnswersHaveRun, HitReplaysSameBody, ConflictMeansContention
  <2> QED
    BY <1>0, <2>5, <2>6, <2>7, <2>8, <2>9, <2>10, <2>11
<1>14. CASE UNCHANGED vars
  BY <1>0, <1>14 DEF vars, EntriesLive, LockHasOwner, ResultHasRun, WorkersOwnTheLock,
     ExecFindsTheLock, CheckersWereContended, RepliesAreCached, AnswersComeLast, AnswersHaveRun,
     HitReplaysSameBody, ConflictMeansContention
<1> QED
  BY <1>1, <1>2, <1>3, <1>4, <1>5, <1>6, <1>7, <1>8, <1>9, <1>10, <1>11, <1>12, <1>13,
     <1>14 DEF Next, Step

\* The inductive invariant holds in every reachable state.
THEOREM InvariantCorrect == Spec => []IInv
<1>1. Init => IInv
  <2> SUFFICES ASSUME Init PROVE IInv
    OBVIOUS
  <2>1. TypeOK
    BY EntryTypes DEF Init, TypeOK, PC, Answer, Codes, NoAnswer
  <2>2. EntriesLive /\ LockHasOwner /\ ResultHasRun
    BY DEF Init, EntriesLive, LockHasOwner, ResultHasRun, IsLocked, Absent
  <2>3. WorkersOwnTheLock /\ ExecFindsTheLock /\ CheckersWereContended
    BY DEF Init, WorkersOwnTheLock, ExecFindsTheLock, CheckersWereContended,
           Working, Storing, Deleting, Checking
  <2>4. AnswersComeLast /\ AnswersHaveRun /\ HitReplaysSameBody /\ ConflictMeansContention
    BY DEF Init, NoAnswer, AnswersComeLast, AnswersHaveRun, HitReplaysSameBody,
           ConflictMeansContention
  <2>5. RepliesAreCached
    BY DEF Init, RepliesAreCached
  <2> QED
    BY <2>1, <2>2, <2>3, <2>4, <2>5 DEF IInv
<1>2. QED
  BY <1>1, InvariantInductive, PTL DEF Spec

-----------------------------------------------------------------------------

\* Mutual exclusion: while no lock of a key has run out under a request at work,
\* at most one request is at the adapter for it.  A worker owns the lock.
THEOREM OneAtTheAdapterCorrect == Spec => []OneAtTheAdapter
<1>1. IInv => OneAtTheAdapter
  BY DEF IInv, WorkersOwnTheLock, OneAtTheAdapter
<1>2. QED
  BY <1>1, InvariantCorrect, PTL

\* Exactly one response per key: while nothing of a key has run out, all its
\* 200 answers carry the response that is cached.
THEOREM AllRepliesAgreeCorrect == Spec => []AllRepliesAgree
<1>1. IInv => AllRepliesAgree
  BY DEF IInv, RepliesAreCached, AnswersComeLast, NoAnswer, AllRepliesAgree
<1>2. QED
  BY <1>1, InvariantCorrect, PTL

\* A replayed response always belongs to the same key and the same body.
THEOREM HitReplaysSameBodyCorrect == Spec => []HitReplaysSameBody
<1>1. IInv => HitReplaysSameBody
  BY DEF IInv
<1>2. QED
  BY <1>1, InvariantCorrect, PTL

\* A 409 is only answered to a request that was in contention.
THEOREM ConflictMeansContentionCorrect == Spec => []ConflictMeansContention
<1>1. IInv => ConflictMeansContention
  BY DEF IInv
<1>2. QED
  BY <1>1, InvariantCorrect, PTL

\* A completed entry stays until its time is up: an EXEC that is applied finds a
\* lock, and SET NX finds nothing.
THEOREM DoneIsFinalCorrect == Spec => DoneIsFinal
<1> DEFINE Kept == \A k \in Keys : store[k].state = "done" /\ store[k].left > 1
                     => store'[k].state = "done" /\ store'[k].run = store[k].run
<1>1. IInv /\ [Next]_vars => Kept
  <2> SUFFICES ASSUME IInv, [Next]_vars, NEW k \in Keys,
                      store[k].state = "done", store[k].left > 1
               PROVE  store'[k].state = "done" /\ store'[k].run = store[k].run
    OBVIOUS
  <2> USE DEF IInv, TypeOK
  <2>1. ASSUME NEW r \in Requests, CheckSetNX(r) \/ CheckSetNXAgain(r)
        PROVE  store'[k] = store[k]
    BY <2>1 DEF CheckSetNX, CheckSetNXAgain, SetNX, Goto, Refuse, Absent
  <2>2. ASSUME NEW r \in Requests, StoreExec(r) \/ DeleteExec(r)
        PROVE  store'[k] = store[k]
    BY <2>2 DEF StoreExec, DeleteExec, Exec, ExecFindsTheLock, LockedBy, IsLocked
  <2>3. CASE Tick
    <3>1. store[k] \in Entry /\ store[k].left \notin {0, 1}
      BY DEF Entry
    <3>2. store'[k] = [store[k] EXCEPT !.left = @ - 1]
      BY <2>3, <3>1 DEF Tick
    <3> QED
      BY <3>1, <3>2, AgedEntry
  <2>4. CASE UNCHANGED store
    BY <2>4
  <2>5. ASSUME NEW r \in Requests,
               \/ \E j \in Keys, h \in Hashes : Call(r, j, h)
               \/ CheckGet(r) \/ AdapterReturns(r) \/ AdapterRaises(r) \/ StoreWatch(r)
               \/ StoreGet(r) \/ Reply(r) \/ DeleteWatch(r) \/ DeleteGet(r) \/ Abort(r)
        PROVE  UNCHANGED store
    BY <2>5 DEF Call, CheckGet, AdapterReturns, AdapterRaises, StoreWatch, StoreGet, Reply,
                DeleteWatch, DeleteGet, Abort, Goto, Refuse, Watch
  <2> QED
    BY <2>1, <2>2, <2>3, <2>4, <2>5 DEF Next, Step, vars
<1>2. Spec => [][Kept]_vars
  BY <1>1, InvariantCorrect, PTL DEF Spec
<1>3. QED
  BY <1>2 DEF DoneIsFinal

-----------------------------------------------------------------------------
(***************************************************************************)
(* RedisStore implements IdempotencyContract: every command is a step of   *)
(* the contract under the mapping slot, phase, reply, or changes nothing   *)
(* that the contract sees.                                                 *)
(***************************************************************************)
\* The contract's slot of a key, case by case.
SlotValues ==
  /\ slot = [k \in Keys |-> slot[k]]
  /\ \A k \in Keys :
       /\ store[k].state = "absent" => slot[k] = Contract!Free
       /\ store[k].state = "locked" => slot[k] = Contract!Held(owner[k])
       /\ store[k].state = "done"   => slot[k] = Contract!Done(store[k].run)
       /\ store[k].state \in {"absent", "locked", "done"}
       /\ slot[k] \in Contract!Slot

\* The contract's phase and reply of a request, case by case.
PhaseValues ==
  /\ phase = [r \in Requests |-> phase[r]]
  /\ reply = [r \in Requests |-> answer[r].run]
  /\ \A r \in Requests :
       /\ pc[r] = "idle"     => phase[r] = "idle"
       /\ pc[r] \in Checking => phase[r] = "waiting"
       /\ pc[r] \in Working  => phase[r] = "working"
       /\ pc[r] = "reply"    => phase[r] = "saved"
       /\ pc[r] = "ended"    => phase[r] = "ended"

\* The mapping has these values in every state of the inductive invariant.
LEMMA MappedValues == IInv => SlotValues /\ PhaseValues
<1> SUFFICES ASSUME IInv PROVE SlotValues /\ PhaseValues
  OBVIOUS
<1> USE DEF IInv, TypeOK
<1>1. ASSUME NEW k \in Keys
      PROVE  /\ store[k].state = "absent" => slot[k] = Contract!Free
             /\ store[k].state = "locked" => slot[k] = Contract!Held(owner[k])
             /\ store[k].state = "done"   => slot[k] = Contract!Done(store[k].run)
             /\ store[k].state \in {"absent", "locked", "done"}
             /\ slot[k] \in Contract!Slot
  <2>1. store[k].state \in {"absent", "locked", "done"} /\ store[k].run \in Requests \cup {None}
    BY DEF Entry
  <2>2. store[k].state = "absent" => slot[k] = Contract!Free
    BY DEF slot, EntriesLive, Absent, IsLocked, Contract!Free
  <2>3. store[k].state = "locked" => slot[k] = Contract!Held(owner[k])
    BY DEF slot, IsLocked, Contract!Held
  <2>4. store[k].state = "done" => slot[k] = Contract!Done(store[k].run)
    BY DEF slot, IsLocked, Contract!Done
  <2>5. slot[k] \in Contract!Slot
    BY <2>1, <2>2, <2>3, <2>4 DEF Contract!Slot, Contract!Free, Contract!Held, Contract!Done
  <2> QED
    BY <2>1, <2>2, <2>3, <2>4, <2>5
<1>2. slot = [k \in Keys |-> slot[k]]
  BY DEF slot
<1>3. PhaseValues
  BY DEF PhaseValues, phase, reply, Checking, Working, Storing, Deleting
<1> QED
  BY <1>1, <1>2, <1>3 DEF SlotValues

\* The same in the state after a step.
LEMMA MappedValuesNext == IInv' => SlotValues' /\ PhaseValues'
BY MappedValues, PTL

\* The initial states of the store are those of the contract.
LEMMA RefinesInit == Init => Contract!Init
BY DEF Init, NoAnswer, Absent, slot, phase, reply, IsLocked, Checking, Working, Storing, Deleting,
       Contract!Init, Contract!Free

-----------------------------------------------------------------------------

\* A step that leaves a key's entry and owner alone leaves its slot alone.
LEMMA SlotKept ==
  ASSUME UNCHANGED <<store, owner>>
  PROVE  slot' = slot
BY DEF slot, IsLocked

\* A step between two awaits of the same phase is invisible to the contract.
LEMMA SilentStep ==
  ASSUME NEW r \in Requests, NEW label, pc \in [Requests -> PC],
         pc' = [pc EXCEPT ![r] = label],
         \/ pc[r] \in Checking /\ label \in Checking
         \/ pc[r] \in Working /\ label \in Working,
         UNCHANGED <<store, key, hash, answer, owner, lapsed>>
  PROVE  UNCHANGED Contract!vars
<1>1. phase' = phase
  BY DEF phase, Checking, Working, Storing, Deleting
<1>2. reply' = reply
  BY DEF reply
<1> QED
  BY <1>1, <1>2, SlotKept DEF Contract!vars

\* A request that ends without a 200 is refused or lost in the contract.
LEMMA EndStep ==
  ASSUME IInv, IInv', NEW r \in Requests, NEW code \in Codes,
         pc[r] \notin {"idle", "ended"}, Finish(r, code, None),
         UNCHANGED <<store, key, hash, owner, lapsed>>
  PROVE  Contract!End({r})
<1> USE DEF IInv, TypeOK, Finish
<1>1. PhaseValues /\ PhaseValues'
  BY MappedValues, MappedValuesNext
<1>2. phase[r] \in {"waiting", "working", "saved"}
  BY <1>1 DEF PhaseValues, PC, Checking, Working
<1>3. phase' = [s \in Requests |-> IF s \in {r} THEN "ended" ELSE phase[s]]
  BY DEF phase, Checking, Working, Storing, Deleting
<1>4. reply' = reply
  BY DEF reply, AnswersComeLast, NoAnswer
<1> QED
  BY <1>2, <1>3, <1>4, SlotKept DEF Contract!End

\* Where a worker's EXEC goes once a lock of its key has run out, or what it
\* finds at GET, the contract leaves open.
LEMMA StrayStep ==
  ASSUME IInv, IInv', NEW r \in Requests, NEW label \in {"reply", "ended"},
         pc[r] \in Working, "lock" \in lapsed[key[r]],
         pc' = [pc EXCEPT ![r] = label],
         \A k \in Keys \ {key[r]} : store'[k] = store[k] /\ owner'[k] = owner[k],
         \A s \in Requests : answer'[s].run = answer[s].run,
         UNCHANGED <<key, hash, lapsed>>
  PROVE  Contract!Stray(r)
<1> USE DEF IInv, TypeOK
<1>1. SlotValues /\ SlotValues' /\ PhaseValues /\ PhaseValues'
  BY MappedValues, MappedValuesNext
<1>2. key[r] \in Keys
  BY DEF Working, Storing, Deleting
<1>3. slot' = [slot EXCEPT ![key[r]] = slot'[key[r]]]
  <2>1. \A k \in Keys \ {key[r]} : slot'[k] = slot[k]
    BY DEF slot, IsLocked
  <2> QED
    BY <1>1, <1>2, <2>1 DEF SlotValues
<1>4. slot'[key[r]] \in Contract!Slot
  BY <1>1, <1>2 DEF SlotValues
<1>5. \E p \in {"saved", "ended"} : phase' = [phase EXCEPT ![r] = p]
  BY DEF phase, Checking, Working, Storing, Deleting
<1>6. phase[r] = "working" /\ reply' = reply
  BY <1>1 DEF PhaseValues
<1> QED
  BY <1>3, <1>4, <1>5, <1>6 DEF Contract!Stray

-----------------------------------------------------------------------------

\* A successful SET NX takes the free slot.
LEMMA AcquireStep ==
  ASSUME IInv, IInv', NEW r \in Requests, pc[r] \in Checking,
         store[key[r]] = Absent,
         store' = [store EXCEPT ![key[r]] = LOCKED(hash[r])],
         owner' = [owner EXCEPT ![key[r]] = r],
         pc' = [pc EXCEPT ![r] = "adapter"],
         UNCHANGED <<key, hash, answer, lapsed>>
  PROVE  Contract!Acquire(r)
<1> USE DEF IInv, TypeOK
<1>1. SlotValues /\ SlotValues' /\ PhaseValues /\ PhaseValues'
  BY MappedValues, MappedValuesNext
<1>2. key[r] \in Keys
  BY DEF Checking
<1>3. phase[r] = "waiting" /\ slot[key[r]] = Contract!Free
  BY <1>1, <1>2 DEF SlotValues, PhaseValues, Absent
<1>4. slot' = [slot EXCEPT ![key[r]] = Contract!Held(r)]
  <2>1. \A k \in Keys \ {key[r]} : slot'[k] = slot[k]
    BY DEF slot, IsLocked
  <2>2. store'[key[r]].state = "locked" /\ owner'[key[r]] = r
    BY <1>2 DEF LOCKED
  <2>3. slot'[key[r]] = Contract!Held(r)
    BY <1>1, <1>2, <2>2 DEF SlotValues
  <2>4. slot = [k \in Keys |-> slot[k]] /\ slot' = [k \in Keys |-> slot'[k]]
    BY <1>1 DEF SlotValues
  <2> QED
    BY ONLY <1>2, <2>1, <2>3, <2>4
<1>5. phase' = [phase EXCEPT ![r] = "working"] /\ reply' = reply
  BY DEF phase, reply, Checking, Working, Storing, Deleting
<1> QED
  BY <1>3, <1>4, <1>5 DEF Contract!Acquire

\* GET of a cached response with the same body replays it.
LEMMA ReplayStep ==
  ASSUME IInv, IInv', NEW r \in Requests, pc[r] = "get",
         store[key[r]].state = "done", store[key[r]].hash = hash[r],
         Refuse(r, "200", store[key[r]].run)
  PROVE  \E s \in Requests : Contract!Replay(r, s)
<1> USE DEF IInv, TypeOK, Refuse, Finish
<1>1. SlotValues /\ PhaseValues
  BY MappedValues
<1>2. key[r] \in Keys
  OBVIOUS
<1>3. PICK s \in Requests : s = store[key[r]].run /\ hash[s] = hash[r]
  BY <1>2 DEF ResultHasRun
<1>4. phase[r] = "waiting" /\ slot[key[r]] = Contract!Done(s)
  BY <1>1, <1>2, <1>3 DEF SlotValues, PhaseValues, Checking
<1>5. phase' = [phase EXCEPT ![r] = "ended"]
  BY DEF phase, Checking, Working, Storing, Deleting
<1>6. reply' = [reply EXCEPT ![r] = s]
  BY <1>3 DEF reply
<1>7. Contract!Replay(r, s)
  BY <1>3, <1>4, <1>5, <1>6, SlotKept DEF Contract!Replay
<1> QED
  BY <1>7

\* The adapter's own response is delivered.
LEMMA DeliverStep ==
  ASSUME IInv, NEW r \in Requests, Reply(r)
  PROVE  Contract!Deliver(r)
<1> USE DEF IInv, TypeOK, Reply, Refuse, Finish
<1>1. phase[r] = "saved"
  BY MappedValues DEF PhaseValues
<1>2. phase' = [phase EXCEPT ![r] = "ended"]
  BY DEF phase, Checking, Working, Storing, Deleting
<1>3. reply' = [reply EXCEPT ![r] = r]
  BY DEF reply
<1> QED
  BY <1>1, <1>2, <1>3, SlotKept DEF Contract!Deliver

\* A worker whose EXEC is applied, and who set the lock it replaces, completes
\* or releases the key; one whose lock has run out strays; one whose WATCH
\* failed has lost its lock.
LEMMA StoreExecStep ==
  ASSUME IInv, IInv', NEW r \in Requests, StoreExec(r)
  PROVE  Contract!Complete(r) \/ Contract!Stray(r)
<1> USE DEF IInv, TypeOK, StoreExec
<1>1. SlotValues /\ SlotValues' /\ PhaseValues
  BY MappedValues, MappedValuesNext
<1>2. key[r] \in Keys /\ pc[r] \in Working /\ pc[r] \in Watched
  BY DEF Working, Storing, Watched
<1>3. CASE "lock" \in lapsed[key[r]]
  BY <1>2, <1>3, StrayStep DEF Exec
<1>4. CASE "lock" \notin lapsed[key[r]]
  <2>1. IsLocked(key[r]) /\ owner[key[r]] = r /\ r \notin dirty
    BY <1>2, <1>4 DEF WorkersOwnTheLock
  <2>2. store' = [store EXCEPT ![key[r]] = DONE(hash[r], r)]
        /\ owner' = [owner EXCEPT ![key[r]] = None]
    BY <2>1 DEF Exec
  <2>3. phase[r] = "working" /\ slot[key[r]] = Contract!Held(r)
    BY <1>1, <1>2, <2>1 DEF SlotValues, PhaseValues, IsLocked
  <2>4. slot'[key[r]] = Contract!Done(r)
    BY <1>1, <1>2, <2>2 DEF SlotValues, DONE
  <2>5. \A k \in Keys \ {key[r]} : slot'[k] = slot[k]
    BY <2>2 DEF slot, IsLocked
  <2>6. slot' = [slot EXCEPT ![key[r]] = Contract!Done(r)]
    BY <1>1, <1>2, <2>4, <2>5 DEF SlotValues
  <2>7. phase' = [phase EXCEPT ![r] = "saved"] /\ reply' = reply
    BY DEF phase, reply, Checking, Working, Storing, Deleting
  <2> QED
    BY <2>3, <2>6, <2>7 DEF Contract!Complete
<1> QED
  BY <1>3, <1>4

\* The same for the lock that is deleted after a failure.
LEMMA DeleteExecStep ==
  ASSUME IInv, IInv', NEW r \in Requests, DeleteExec(r)
  PROVE  Contract!Release(r) \/ Contract!Stray(r)
<1> USE DEF IInv, TypeOK, DeleteExec, Finish
<1>1. SlotValues /\ SlotValues' /\ PhaseValues
  BY MappedValues, MappedValuesNext
<1>2. key[r] \in Keys /\ pc[r] \in Working /\ pc[r] \in Watched
  BY DEF Working, Deleting, Watched
<1>3. reply' = reply
  BY <1>2 DEF reply, AnswersComeLast, NoAnswer, Working, Storing, Deleting
<1>4. CASE "lock" \in lapsed[key[r]]
  <2>1. \A s \in Requests : answer'[s].run = answer[s].run
    BY <1>2 DEF AnswersComeLast, NoAnswer, Working, Storing, Deleting
  <2> QED
    BY <1>2, <1>4, <2>1, StrayStep DEF Exec
<1>5. CASE "lock" \notin lapsed[key[r]]
  <2>1. IsLocked(key[r]) /\ owner[key[r]] = r /\ r \notin dirty
    BY <1>2, <1>5 DEF WorkersOwnTheLock
  <2>2. store' = [store EXCEPT ![key[r]] = Absent]
        /\ owner' = [owner EXCEPT ![key[r]] = None]
    BY <2>1 DEF Exec
  <2>3. phase[r] = "working" /\ slot[key[r]] = Contract!Held(r)
    BY <1>1, <1>2, <2>1 DEF SlotValues, PhaseValues, IsLocked
  <2>4. slot'[key[r]] = Contract!Free
    BY <1>1, <1>2, <2>2 DEF SlotValues, Absent
  <2>5. \A k \in Keys \ {key[r]} : slot'[k] = slot[k]
    BY <2>2 DEF slot, IsLocked
  <2>6. slot' = [slot EXCEPT ![key[r]] = Contract!Free]
    BY <1>1, <1>2, <2>4, <2>5 DEF SlotValues
  <2>7. phase' = [phase EXCEPT ![r] = "ended"]
    BY DEF phase, Checking, Working, Storing, Deleting
  <2> QED
    BY <1>3, <2>3, <2>6, <2>7 DEF Contract!Release
<1> QED
  BY <1>4, <1>5

\* A tick removes the entries whose time is up and ages the others, which the
\* contract does not see.
LEMMA TickStep ==
  ASSUME IInv, IInv', Tick
  PROVE  \E K \in SUBSET Keys : Contract!Expire(K)
<1> DEFINE gone == {k \in Keys : store[k].left = 1}
<1> USE DEF IInv, TypeOK, Tick
<1>1. SlotValues /\ SlotValues' /\ PhaseValues
  BY MappedValues, MappedValuesNext
<1>2. \A k \in gone : slot'[k] = Contract!Free
  BY <1>1 DEF SlotValues, Absent
<1>3. \A k \in Keys \ gone : slot'[k] = slot[k]
  <2> SUFFICES ASSUME NEW k \in Keys \ gone PROVE slot'[k] = slot[k]
    OBVIOUS
  <2>1. store'[k].state = store[k].state /\ store'[k].run = store[k].run
    BY AgedEntry
  <2> QED
    BY <2>1 DEF slot, IsLocked
<1>4. slot' = [k \in Keys |-> IF k \in gone THEN Contract!Free ELSE slot[k]]
  BY <1>1, <1>2, <1>3 DEF SlotValues
<1>5. \A k \in Keys : /\ InUse(k) <=> Contract!InUse(k)
                      /\ store[k].state = "done" <=> slot[k].state = "done"
  <2> SUFFICES ASSUME NEW k \in Keys
               PROVE  /\ InUse(k) <=> Contract!InUse(k)
                      /\ store[k].state = "done" <=> slot[k].state = "done"
    OBVIOUS
  <2>1. \A r \in Requests : pc[r] \in Working <=> phase[r] = "working"
    BY <1>1 DEF PhaseValues, PC, Checking, Working, Storing, Deleting
  <2>2. CASE store[k].state = "locked"
    <3>1. slot[k].state = "held" /\ slot[k].run = owner[k] /\ owner[k] \in Requests
      BY <1>1, <2>2 DEF SlotValues, Contract!Held, LockHasOwner, IsLocked
    <3> QED
      BY <2>1, <2>2, <3>1 DEF InUse, Contract!InUse, IsLocked
  <2>3. CASE store[k].state \in {"absent", "done"}
    <3>1. slot[k].state = IF store[k].state = "done" THEN "done" ELSE "free"
      BY <1>1, <2>3 DEF SlotValues, Contract!Done, Contract!Free
    <3> QED
      BY <2>3, <3>1 DEF InUse, Contract!InUse, IsLocked
  <2> QED
    BY <1>1, <2>2, <2>3 DEF SlotValues
<1>6. lapsed' = Contract!Lapse(gone)
  BY <1>5 DEF Contract!Lapse
<1>7. phase' = phase /\ reply' = reply
  BY DEF phase, reply
<1>8. Contract!Expire(gone)
  BY <1>4, <1>6, <1>7 DEF Contract!Expire
<1> QED
  BY <1>8

-----------------------------------------------------------------------------

\* The arrival of a request is its arrival in the contract.
LEMMA CallStep ==
  ASSUME IInv, NEW r \in Requests, NEW k \in Keys, NEW h \in Hashes, Call(r, k, h)
  PROVE  Contract!Arrive(r, k, h)
<1> USE DEF IInv, TypeOK, Call
<1>1. phase[r] = "idle"
  BY MappedValues DEF PhaseValues
<1>2. phase' = [phase EXCEPT ![r] = "waiting"] /\ reply' = reply
  BY DEF phase, reply, Checking, Working, Storing, Deleting
<1> QED
  BY <1>1, <1>2, SlotKept DEF Contract!Arrive

\* Every step of the store is a step of the contract or a stutter.
LEMMA RefinesNext == IInv /\ IInv' /\ [Next]_vars => [Contract!Next]_Contract!vars
<1> SUFFICES ASSUME IInv, IInv', [Next]_vars PROVE [Contract!Next]_Contract!vars
  OBVIOUS
<1>0. pc \in [Requests -> PC]
  BY DEF IInv, TypeOK
<1>1. ASSUME NEW r \in Requests, NEW k \in Keys, NEW h \in Hashes, Call(r, k, h)
      PROVE  Contract!Next
  BY <1>1, CallStep DEF Contract!Next
<1>2. ASSUME NEW r \in Requests, Contract!End({r})
      PROVE  Contract!Next
  BY <1>2 DEF Contract!Next
<1>3. ASSUME NEW r \in Requests, CheckSetNX(r)
      PROVE  Contract!Next \/ UNCHANGED Contract!vars
  <2>1. CASE store[key[r]] = Absent
    BY <1>3, <2>1, AcquireStep DEF CheckSetNX, SetNX, Checking, Contract!Next
  <2>2. CASE store[key[r]] # Absent
    BY <1>0, <1>3, <2>2, SilentStep DEF CheckSetNX, SetNX, Goto, Checking
  <2> QED
    BY <2>1, <2>2
<1>4. ASSUME NEW r \in Requests, CheckSetNXAgain(r)
      PROVE  Contract!Next
  <2>1. CASE store[key[r]] = Absent
    BY <1>4, <2>1, AcquireStep DEF CheckSetNXAgain, SetNX, Checking, Contract!Next
  <2>2. CASE store[key[r]] # Absent
    BY <1>2, <1>4, <2>2, EndStep DEF CheckSetNXAgain, SetNX, Refuse, Codes
  <2> QED
    BY <2>1, <2>2
<1>5. ASSUME NEW r \in Requests, CheckGet(r)
      PROVE  Contract!Next \/ UNCHANGED Contract!vars
  <2>1. CASE store[key[r]].state = "absent"
    BY <1>0, <1>5, <2>1, SilentStep DEF CheckGet, Goto, Checking
  <2>2. CASE store[key[r]].state = "done" /\ store[key[r]].hash = hash[r]
    BY <1>5, <2>2, ReplayStep DEF CheckGet, Contract!Next
  <2>3. CASE /\ store[key[r]].state # "absent"
             /\ ~(store[key[r]].state = "done" /\ store[key[r]].hash = hash[r])
    BY <1>2, <1>5, <2>3, EndStep DEF CheckGet, Refuse, Codes
  <2> QED
    BY <2>1, <2>2, <2>3
<1>6. ASSUME NEW r \in Requests, AdapterReturns(r) \/ AdapterRaises(r)
      PROVE  UNCHANGED Contract!vars
  BY <1>0, <1>6, SilentStep DEF AdapterReturns, AdapterRaises, Goto, Working, Storing, Deleting
<1>7. ASSUME NEW r \in Requests, StoreWatch(r) \/ DeleteWatch(r)
      PROVE  UNCHANGED Contract!vars
  BY <1>0, <1>7, SilentStep DEF StoreWatch, DeleteWatch, Watch, Working, Storing, Deleting
<1>8. ASSUME NEW r \in Requests, StoreGet(r)
      PROVE  Contract!Next \/ UNCHANGED Contract!vars
  <2>1. pc[r] = "store_get" /\ pc[r] \in Working
    BY <1>8 DEF StoreGet, Working, Storing
  <2>2. CASE LockedBy(key[r], hash[r])
    BY <1>0, <1>8, <2>1, <2>2, SilentStep DEF StoreGet, Goto, Working, Storing
  <2>3. CASE ~LockedBy(key[r], hash[r])
    <3>1. "lock" \in lapsed[key[r]]
      BY <2>1, <2>3 DEF IInv, TypeOK, WorkersOwnTheLock, LockHasOwner, LockedBy
    <3> QED
      BY <1>8, <2>1, <2>3, <3>1, StrayStep DEF StoreGet, Goto, Contract!Next
  <2> QED
    BY <2>2, <2>3
<1>9. ASSUME NEW r \in Requests, StoreExec(r)
      PROVE  Contract!Next
  BY <1>9, StoreExecStep DEF Contract!Next
<1>10. ASSUME NEW r \in Requests, Reply(r)
       PROVE  Contract!Next
  BY <1>10, DeliverStep DEF Contract!Next
<1>11. ASSUME NEW r \in Requests, DeleteGet(r)
       PROVE  Contract!Next \/ UNCHANGED Contract!vars
  <2>1. CASE IsLocked(key[r])
    BY <1>0, <1>11, <2>1, SilentStep DEF DeleteGet, Goto, Working, Deleting
  <2>2. CASE ~IsLocked(key[r])
    BY <1>2, <1>11, <2>2, EndStep DEF DeleteGet, Refuse, Codes
  <2> QED
    BY <2>1, <2>2
<1>12. ASSUME NEW r \in Requests, DeleteExec(r)
       PROVE  Contract!Next
  BY <1>12, DeleteExecStep DEF Contract!Next
<1>13. ASSUME NEW r \in Requests, Abort(r)
       PROVE  Contract!Next
  BY <1>2, <1>13, EndStep DEF Abort, Codes
<1>14. CASE Tick
  BY <1>14, TickStep DEF Contract!Next
<1>15. CASE UNCHANGED vars
  BY <1>15 DEF vars, Contract!vars, slot, phase, reply, IsLocked
<1> QED
  BY <1>1, <1>3, <1>4, <1>5, <1>6, <1>7, <1>8, <1>9, <1>10, <1>11, <1>12, <1>13,
     <1>14, <1>15 DEF Next, Step

\* The Redis store keeps the contract, for any number of requests, keys and
\* hashes and any times to live.
THEOREM RefinementCorrect == Spec => ContractSpec
<1>1. IInv /\ [Next]_vars => [Contract!Next]_Contract!vars
  BY RefinesNext, InvariantInductive
<1>2. QED
  BY <1>1, RefinesInit, RefinesNext, InvariantCorrect, PTL DEF Spec, ContractSpec, Contract!Spec
=============================================================================
