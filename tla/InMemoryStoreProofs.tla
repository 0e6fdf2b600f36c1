-------------------------- MODULE InMemoryStoreProofs --------------------------
(***************************************************************************)
(* Proofs about InMemoryStore, for any number of requests, keys and hashes *)
(* and any times to live, zero included: its inductive invariant, its      *)
(* safety properties, and that it implements IdempotencyContract.          *)
(***************************************************************************)
EXTENDS InMemoryStore, TLAPS

\* The values the methods write are entries.
LEMMA EntryTypes ==
  /\ Absent \in Entry
  /\ \A h \in Hashes : LOCKED(h) \in Entry
  /\ \A h \in Hashes, r \in Requests : DONE(h, r) \in Entry
BY TTLAssumption DEF Absent, LOCKED, DONE, Entry

\* A tick takes one from the time of an entry, and keeps the rest of it.
LEMMA AgedEntry ==
  ASSUME NEW v \in Entry, v.left # Expired
  PROVE  /\ [v EXCEPT !.left = @ - 1] \in Entry
         /\ [v EXCEPT !.left = @ - 1].left = v.left - 1
         /\ [v EXCEPT !.left = @ - 1].state = v.state
         /\ [v EXCEPT !.left = @ - 1].hash = v.hash
         /\ [v EXCEPT !.left = @ - 1].run = v.run
BY DEF Entry, Expired

\* _get answers with the entry as it is, or with nothing.
LEMMA GetType ==
  ASSUME TypeOK, NEW k \in Keys
  PROVE  /\ Get(k) \in Entry
         /\ Get(k).state = "locked" => Get(k) = data[k] /\ data[k].left # Expired
         /\ Get(k).state = "done" => Get(k) = data[k] /\ data[k].left # Expired
         /\ data[k].left # Expired => Get(k) = data[k]
BY EntryTypes DEF TypeOK, Get, Absent, Expired

\* Every step of a request, a restart and a tick keep the types.
LEMMA TypeInductive == TypeOK /\ [Next]_vars => TypeOK'
<1> SUFFICES ASSUME TypeOK, [Next]_vars PROVE TypeOK'
  OBVIOUS
<1> USE DEF TypeOK
<1>1. \A code \in Codes, run \in Requests \cup {None} : [code |-> code, run |-> run] \in Answer
  BY DEF Answer
<1>2. ASSUME NEW r \in Requests, NEW k \in Keys, NEW h \in Hashes, Call(r, k, h)
      PROVE  TypeOK'
  BY <1>2 DEF Call, PC
<1>3. ASSUME NEW r \in Requests, CheckAndLock(r)
      PROVE  TypeOK'
  <2>1. key[r] \in Keys /\ hash[r] \in Hashes /\ pc[r] = "check"
    BY <1>3 DEF CheckAndLock
  <2>2. CASE Get(key[r]) = Absent
    <3>1. data' = [data EXCEPT ![key[r]] = LOCKED(hash[r])]
          /\ owner' = [owner EXCEPT ![key[r]] = r]
          /\ pc' = [pc EXCEPT ![r] = "adapter"] /\ UNCHANGED <<key, hash, answer, lapsed>>
      BY <1>3, <2>2 DEF CheckAndLock, Put, Absent
    <3> QED
      BY <2>1, <3>1, EntryTypes DEF PC, LOCKED
  <2>3. CASE Get(key[r]) # Absent
    <3>1. \E code \in Codes, run \in Requests \cup {None} : Finish(r, code, run)
      BY <1>3, <2>1, <2>3, GetType DEF CheckAndLock, Codes, Entry
    <3>2. UNCHANGED <<data, owner, key, hash, lapsed>>
      BY <1>3, <2>3 DEF CheckAndLock
    <3> QED
      BY <1>1, <2>1, <3>1, <3>2 DEF Finish, PC
  <2> QED
    BY <2>2, <2>3
<1>4. ASSUME NEW r \in Requests, StoreResult(r)
      PROVE  TypeOK'
  <2>1. key[r] \in Keys /\ hash[r] \in Hashes /\ pc[r] = "adapter"
    BY <1>4 DEF StoreResult
  <2>2. \E v \in {Get(key[r]), DONE(hash[r], r)} : data' = [data EXCEPT ![key[r]] = v]
    BY <1>4 DEF StoreResult, Put
  <2>3. \A v \in {Get(key[r]), DONE(hash[r], r)} :
          /\ v \in Entry
          /\ v.state # "absent" => v.hash \in Hashes
          /\ v.state = "done" => v.run \in Requests
    BY <2>1, EntryTypes, GetType DEF Get, DONE, Absent
  <2>4. data' \in [Keys -> Entry]
        /\ \A k \in Keys : /\ data'[k].state # "absent" => data'[k].hash \in Hashes
                           /\ data'[k].state = "done" => data'[k].run \in Requests
    BY <2>1, <2>2, <2>3
  <2> QED
    BY <1>4, <2>1, <2>4 DEF StoreResult, PC
<1>5. ASSUME NEW r \in Requests, Reply(r)
      PROVE  TypeOK'
  BY <1>1, <1>5 DEF Reply, Finish, PC, Codes
<1>6. ASSUME NEW r \in Requests, DeleteLock(r)
      PROVE  TypeOK'
  <2>1. key[r] \in Keys /\ pc[r] = "adapter"
    BY <1>6 DEF DeleteLock
  <2>2. \E v \in {Get(key[r]), Absent} : data' = [data EXCEPT ![key[r]] = v]
    BY <1>6 DEF DeleteLock, Put
  <2>3. \A v \in {Get(key[r]), Absent} :
          /\ v \in Entry
          /\ v.state # "absent" => v.hash \in Hashes
          /\ v.state = "done" => v.run \in Requests
    BY <2>1, EntryTypes, GetType DEF Get, Absent
  <2>4. data' \in [Keys -> Entry]
        /\ \A k \in Keys : /\ data'[k].state # "absent" => data'[k].hash \in Hashes
                           /\ data'[k].state = "done" => data'[k].run \in Requests
    BY <2>1, <2>2, <2>3
  <2> QED
    BY <1>1, <1>6, <2>1, <2>4 DEF DeleteLock, Finish, PC, Codes
<1>7. ASSUME NEW r \in Requests, Abort(r)
      PROVE  TypeOK'
  BY <1>1, <1>7 DEF Abort, Finish, PC, Codes
<1>8. CASE Restart
  <2>1. [code |-> "lost", run |-> None] \in Answer
    BY DEF Answer, Codes
  <2>2. pc' \in [Requests -> PC] /\ answer' \in [Requests -> Answer]
    BY <1>8, <2>1 DEF Restart, PC
  <2>3. lapsed' \in [Keys -> SUBSET {"lock", "result"}]
    BY <1>8 DEF Restart
  <2>4. \A r \in Requests : pc'[r] # "idle" => pc[r] # "idle"
    BY <1>8 DEF Restart
  <2> QED
    BY <1>8, <2>2, <2>3, <2>4, EntryTypes DEF Restart, Absent
<1>9. CASE Tick
  <2>1. ASSUME NEW k \in Keys
        PROVE  /\ data'[k] \in Entry
               /\ data'[k].state = data[k].state
               /\ data'[k].hash = data[k].hash
               /\ data'[k].run = data[k].run
               /\ lapsed'[k] \in SUBSET {"lock", "result"}
    BY <1>9, AgedEntry DEF Tick
  <2>2. data' = [k \in Keys |-> data'[k]] /\ lapsed' = [k \in Keys |-> lapsed'[k]]
    BY <1>9 DEF Tick
  <2>3. data' \in [Keys -> Entry] /\ lapsed' \in [Keys -> SUBSET {"lock", "result"}]
    BY <2>1, <2>2
  <2> QED
    BY <1>9, <2>1, <2>3 DEF Tick
<1>10. CASE UNCHANGED vars
  BY <1>10 DEF vars
<1> QED
  BY <1>2, <1>3, <1>4, <1>5, <1>6, <1>7, <1>8, <1>9, <1>10 DEF Next, Step

\* The type invariant holds in every reachable state.
THEOREM TypeCorrect == Spec => []TypeOK
<1>1. Init => TypeOK
  BY EntryTypes DEF Init, TypeOK, PC, Answer, Codes, NoAnswer, Absent
<1>2. QED
  BY <1>1, TypeInductive, PTL DEF Spec

-----------------------------------------------------------------------------

\* The inductive invariant is preserved.  In every case the parts that only
\* follow the step itself come first; a part that rests on other parts of the
\* invariant has a step of its own.
LEMMA InvariantInductive == IInv /\ [Next]_vars => IInv'
<1> SUFFICES ASSUME IInv, [Next]_vars PROVE IInv'
  OBVIOUS
<1> USE NoneAssumption, TTLAssumption
        DEF IInv, TypeOK, IsLocked, Get, Absent, LOCKED, DONE, Expired, NoAnswer
<1>0. TypeOK'
  BY TypeInductive
<1>1. ASSUME NEW r \in Requests, NEW k \in Keys, NEW h \in Hashes, Call(r, k, h)
      PROVE  IInv'
  <2>1. AbsentIsEmpty' /\ LockHasOwner' /\ ResultHasRun'
    BY <1>0, <1>1 DEF Call, AbsentIsEmpty, LockHasOwner, ResultHasRun
  <2>2. WorkersOwnTheLock' /\ AnswersComeLast'
    BY <1>0, <1>1 DEF Call, WorkersOwnTheLock, AnswersComeLast
  \* A request that has not yet arrived has no answer.
  <2>3. RepliesAreCached'
    BY <1>0, <1>1 DEF Call, RepliesAreCached, AnswersComeLast
  <2> QED
    BY <1>0, <2>1, <2>2, <2>3
<1>2. ASSUME NEW r \in Requests, CheckAndLock(r)
      PROVE  IInv'
  <2>1. AbsentIsEmpty' /\ LockHasOwner' /\ ResultHasRun'
    BY <1>0, <1>2 DEF CheckAndLock, Put, Finish, AbsentIsEmpty, LockHasOwner, ResultHasRun
  <2>2. WorkersOwnTheLock' /\ AnswersComeLast'
    BY <1>0, <1>2 DEF CheckAndLock, Put, Finish, WorkersOwnTheLock, AnswersComeLast
  \* The key that is taken was free, so nobody had a response of it; a response
  \* that is replayed is the cached one.
  <2>3. RepliesAreCached'
    BY <1>0, <1>2 DEF CheckAndLock, Put, Finish, RepliesAreCached, AnswersComeLast
  <2> QED
    BY <1>0, <2>1, <2>2, <2>3
<1>3. ASSUME NEW r \in Requests, StoreResult(r)
      PROVE  IInv'
  <2>1. AbsentIsEmpty' /\ LockHasOwner' /\ ResultHasRun'
    BY <1>0, <1>3 DEF StoreResult, Put, AbsentIsEmpty, LockHasOwner, ResultHasRun
  <2>2. WorkersOwnTheLock' /\ AnswersComeLast'
    BY <1>0, <1>3 DEF StoreResult, Put, WorkersOwnTheLock, AnswersComeLast
  \* Without a lapsed lock the result is kept, and nothing was cached before it.
  <2>3. RepliesAreCached'
    BY <1>0, <1>3 DEF StoreResult, Put, RepliesAreCached, WorkersOwnTheLock, LockHasOwner,
       AnswersComeLast
  <2> QED
    BY <1>0, <2>1, <2>2, <2>3
<1>4. ASSUME NEW r \in Requests, Reply(r)
      PROVE  IInv'
  <2>1. AbsentIsEmpty' /\ LockHasOwner' /\ ResultHasRun'
    BY <1>0, <1>4 DEF Reply, Finish, AbsentIsEmpty, LockHasOwner, ResultHasRun
  <2>2. WorkersOwnTheLock' /\ AnswersComeLast' /\ RepliesAreCached'
    BY <1>0, <1>4 DEF Reply, Finish, WorkersOwnTheLock, AnswersComeLast, RepliesAreCached
  <2> QED
    BY <1>0, <2>1, <2>2
<1>5. ASSUME NEW r \in Requests, DeleteLock(r)
      PROVE  IInv'
  <2>1. AbsentIsEmpty' /\ LockHasOwner' /\ ResultHasRun'
    BY <1>0, <1>5 DEF DeleteLock, Put, Finish, AbsentIsEmpty, LockHasOwner, ResultHasRun
  <2>2. WorkersOwnTheLock' /\ AnswersComeLast'
    BY <1>0, <1>5 DEF DeleteLock, Put, Finish, WorkersOwnTheLock, AnswersComeLast
  \* A cached response is not a lock, and stays.
  <2>3. RepliesAreCached'
    BY <1>0, <1>5 DEF DeleteLock, Put, Finish, RepliesAreCached
  <2> QED
    BY <1>0, <2>1, <2>2, <2>3
<1>6. ASSUME NEW r \in Requests, Abort(r)
      PROVE  IInv'
  <2>1. AbsentIsEmpty' /\ LockHasOwner' /\ ResultHasRun'
    BY <1>0, <1>6 DEF Abort, Finish, AbsentIsEmpty, LockHasOwner, ResultHasRun
  <2>2. WorkersOwnTheLock' /\ AnswersComeLast' /\ RepliesAreCached'
    BY <1>0, <1>6 DEF Abort, Finish, WorkersOwnTheLock, AnswersComeLast, RepliesAreCached
  <2> QED
    BY <1>0, <2>1, <2>2
<1>7. CASE Restart
  <2>1. AbsentIsEmpty' /\ LockHasOwner' /\ ResultHasRun'
    BY <1>0, <1>7 DEF Restart, AbsentIsEmpty, LockHasOwner, ResultHasRun
  \* Nobody is at work, and nobody waits for an answer any more.
  <2>2. WorkersOwnTheLock' /\ AnswersComeLast'
    BY <1>0, <1>7 DEF Restart, WorkersOwnTheLock, AnswersComeLast
  \* A key whose response was given had it cached, and so has lapsed.
  <2>3. RepliesAreCached'
    <3> SUFFICES ASSUME NEW r \in Requests, pc'[r] # "idle", lapsed'[key[r]] = {}
                 PROVE  answer'[r].code # "200" /\ pc'[r] # "reply"
      BY <1>7 DEF Restart, RepliesAreCached
    <3>1. pc[r] # "idle" /\ pc'[r] # "reply"
      BY <1>7 DEF Restart
    <3>2. key[r] \in Keys
      BY <3>1
    <3>3. lapsed[key[r]] = {} /\ data[key[r]].state # "done"
      BY <1>7, <3>2 DEF Restart
    <3>4. answer[r].code # "200"
      BY <3>1, <3>3 DEF RepliesAreCached
    <3>5. answer'[r].code \in {"lost", answer[r].code}
      BY <1>7 DEF Restart
    <3> QED
      BY <3>1, <3>4, <3>5
  <2> QED
    BY <1>0, <2>1, <2>2, <2>3
<1>8. CASE Tick
  <2>1. ASSUME NEW k \in Keys, data[k] = Absent \/ data[k].left = Expired
        PROVE  data'[k] = data[k] /\ lapsed'[k] = lapsed[k] /\ owner'[k] = owner[k]
    BY <1>8, <2>1 DEF Tick
  <2>2. ASSUME NEW k \in Keys, data[k] # Absent, data[k].left = 0
        PROVE  /\ data'[k].left = Expired
               /\ data'[k].state = data[k].state /\ data'[k].hash = data[k].hash
               /\ data'[k].run = data[k].run
               /\ lapsed'[k] = lapsed[k] \cup (IF InUse(k) THEN {"lock"} ELSE {})
                                 \cup (IF data[k].state = "done" THEN {"result"} ELSE {})
    BY <1>8, <2>2, AgedEntry DEF Tick
  <2>3. ASSUME NEW k \in Keys, data[k] # Absent, data[k].left \notin {0, Expired}
        PROVE  /\ data'[k].left # Expired
               /\ data'[k].state = data[k].state /\ data'[k].hash = data[k].hash
               /\ data'[k].run = data[k].run
               /\ lapsed'[k] = lapsed[k] /\ owner'[k] = owner[k]
    <3>1. data[k] \in Entry /\ data[k].left - 1 # Expired
      BY <2>3 DEF Entry
    <3>2. data'[k] = [data[k] EXCEPT !.left = @ - 1]
      BY <1>8, <2>3 DEF Tick
    <3>3. lapsed'[k] = lapsed[k] /\ owner'[k] = owner[k]
      BY <1>8, <2>3 DEF Tick
    <3> QED
      BY <2>3, <3>1, <3>2, <3>3, AgedEntry
  <2>4. UNCHANGED <<pc, key, hash, answer>>
    BY <1>8 DEF Tick
  <2>5. AbsentIsEmpty'
    BY <1>0, <2>1, <2>2, <2>3 DEF AbsentIsEmpty
  <2>6. LockHasOwner'
    BY <2>1, <2>2, <2>3, <2>4 DEF LockHasOwner
  <2>7. ResultHasRun'
    BY <2>1, <2>2, <2>3, <2>4 DEF ResultHasRun
  \* A lock that ends under the request that owns it lapses.
  <2>8. WorkersOwnTheLock'
    BY <2>1, <2>2, <2>3, <2>4 DEF WorkersOwnTheLock, InUse
  <2>9. RepliesAreCached'
    <3> SUFFICES ASSUME NEW r \in Requests, pc[r] # "idle", lapsed'[key[r]] = {}
                 PROVE  /\ answer[r].code = "200" => /\ Get(key[r])'.state = "done"
                                                     /\ Get(key[r])'.run = answer[r].run
                        /\ pc[r] = "reply"        => /\ Get(key[r])'.state = "done"
                                                     /\ Get(key[r])'.run = r
      BY <2>4 DEF RepliesAreCached
    <3>1. key[r] \in Keys
      OBVIOUS
    <3>2. lapsed[key[r]] = {}
      BY <3>1, <2>1, <2>2, <2>3
    <3>3. Get(key[r]).state = "done" => /\ Get(key[r])'.state = "done"
                                        /\ Get(key[r])'.run = Get(key[r]).run
      BY <3>1, <2>1, <2>2, <2>3, <2>4
    <3> QED
      BY <3>2, <3>3 DEF RepliesAreCached
  <2>10. AnswersComeLast'
    BY <2>4 DEF AnswersComeLast
  <2> QED
    BY <1>0, <2>5, <2>6, <2>7, <2>8, <2>9, <2>10
<1>9. CASE UNCHANGED vars
  BY <1>0, <1>9 DEF vars, AbsentIsEmpty, LockHasOwner, ResultHasRun, WorkersOwnTheLock,
     RepliesAreCached, AnswersComeLast
<1> QED
  BY <1>1, <1>2, <1>3, <1>4, <1>5, <1>6, <1>7, <1>8, <1>9 DEF Next, Step

\* The inductive invariant holds in every reachable state.
THEOREM InvariantCorrect == Spec => []IInv
<1>1. Init => IInv
  <2> SUFFICES ASSUME Init PROVE IInv
    OBVIOUS
  <2>1. TypeOK
    BY EntryTypes DEF Init, TypeOK, PC, Answer, Codes, NoAnswer, Absent
  <2>2. AbsentIsEmpty /\ LockHasOwner /\ ResultHasRun
    BY DEF Init, AbsentIsEmpty, LockHasOwner, ResultHasRun, IsLocked, Get, Absent
  <2>3. WorkersOwnTheLock /\ RepliesAreCached /\ AnswersComeLast
    BY DEF Init, WorkersOwnTheLock, RepliesAreCached, AnswersComeLast
  <2> QED
    BY <2>1, <2>2, <2>3 DEF IInv
<1>2. QED
  BY <1>1, InvariantInductive, PTL DEF Spec

-----------------------------------------------------------------------------

\* Mutual exclusion: while no lock of a key has run out under a request at work,
\* at most one request is at the adapter for it, whatever restarts happen.  A
\* worker owns the lock, and a restart ends all workers.
THEOREM OneAtTheAdapterCorrect == Spec => []OneAtTheAdapter
<1>1. IInv => OneAtTheAdapter
  BY DEF IInv, WorkersOwnTheLock, OneAtTheAdapter
<1>2. QED
  BY <1>1, InvariantCorrect, PTL

\* Exactly one response per key: while nothing of a key has run out and no
\* restart has lost its result, all its 200 answers carry the cached response.
THEOREM AllRepliesAgreeCorrect == Spec => []AllRepliesAgree
<1>1. IInv => AllRepliesAgree
  BY DEF IInv, RepliesAreCached, AnswersComeLast, NoAnswer, AllRepliesAgree
<1>2. QED
  BY <1>1, InvariantCorrect, PTL

-----------------------------------------------------------------------------
(***************************************************************************)
(* InMemoryStore implements IdempotencyContract: every method is a step of *)
(* the contract under the mapping slot, phase, reply.  An expired entry    *)
(* that is still in the dict is a free slot, so the time at which a method *)
(* removes it never shows.                                                 *)
(***************************************************************************)
\* The contract's slot of a key, case by case.
SlotValues ==
  /\ slot = [k \in Keys |-> slot[k]]
  /\ \A k \in Keys :
       /\ Get(k).state = "absent" => slot[k] = Contract!Free
       /\ Get(k).state = "locked" => slot[k] = Contract!Held(owner[k])
       /\ Get(k).state = "done"   => slot[k] = Contract!Done(Get(k).run)
       /\ Get(k).state \in {"absent", "locked", "done"}
       /\ slot[k] \in Contract!Slot

\* The contract's phase and reply of a request, case by case.
PhaseValues ==
  /\ phase = [r \in Requests |-> phase[r]]
  /\ reply = [r \in Requests |-> answer[r].run]
  /\ \A r \in Requests :
       /\ pc[r] = "idle"    => phase[r] = "idle"
       /\ pc[r] = "check"   => phase[r] = "waiting"
       /\ pc[r] = "adapter" => phase[r] = "working"
       /\ pc[r] = "reply"   => phase[r] = "saved"
       /\ pc[r] = "ended"   => phase[r] = "ended"

\* The mapping has these values in every state of the inductive invariant.
LEMMA MappedValues == IInv => SlotValues /\ PhaseValues
<1> SUFFICES ASSUME IInv PROVE SlotValues /\ PhaseValues
  OBVIOUS
<1> USE DEF IInv
<1>1. ASSUME NEW k \in Keys
      PROVE  /\ Get(k).state = "absent" => slot[k] = Contract!Free
             /\ Get(k).state = "locked" => slot[k] = Contract!Held(owner[k])
             /\ Get(k).state = "done"   => slot[k] = Contract!Done(Get(k).run)
             /\ Get(k).state \in {"absent", "locked", "done"}
             /\ slot[k] \in Contract!Slot
  <2>1. Get(k).state \in {"absent", "locked", "done"} /\ Get(k).run \in Requests \cup {None}
    BY GetType DEF Entry
  <2>2. Get(k).state = "absent" => slot[k] = Contract!Free
    <3>1. Get(k).state = "absent" => Get(k).run = None
      BY DEF Get, Absent, AbsentIsEmpty
    <3> QED
      BY <3>1 DEF slot, Contract!Free
  <2>3. Get(k).state = "locked" => slot[k] = Contract!Held(owner[k])
    BY DEF slot, Contract!Held
  <2>4. Get(k).state = "done" => slot[k] = Contract!Done(Get(k).run)
    BY DEF slot, Contract!Done
  <2>5. owner[k] \in Requests \cup {None}
    BY DEF TypeOK
  <2>6. slot[k] \in Contract!Slot
    BY <2>1, <2>2, <2>3, <2>4, <2>5 DEF Contract!Slot, Contract!Free, Contract!Held, Contract!Done
  <2> QED
    BY <2>1, <2>2, <2>3, <2>4, <2>6
<1>2. slot = [k \in Keys |-> slot[k]]
  BY DEF slot
<1>3. PhaseValues
  BY DEF PhaseValues, phase, reply
<1> QED
  BY <1>1, <1>2, <1>3 DEF SlotValues

\* The same in the state after a step.
LEMMA MappedValuesNext == IInv' => SlotValues' /\ PhaseValues'
BY MappedValues, PTL

\* The initial states of the store are those of the contract.
LEMMA RefinesInit == Init => Contract!Init
BY DEF Init, NoAnswer, Absent, Get, slot, phase, reply, Contract!Init, Contract!Free

-----------------------------------------------------------------------------

\* A step that leaves a key's entry and owner alone leaves its slot alone.
LEMMA SlotKept ==
  ASSUME UNCHANGED <<data, owner>>
  PROVE  slot' = slot
BY DEF slot, Get

\* Writing one key changes the slot of that key only.
LEMMA OtherSlotsKept ==
  ASSUME IInv, IInv', NEW j \in Keys,
         \A k \in Keys \ {j} : data'[k] = data[k] /\ owner'[k] = owner[k]
  PROVE  slot' = [slot EXCEPT ![j] = slot'[j]]
<1>1. \A k \in Keys \ {j} : slot'[k] = slot[k]
  BY DEF slot, Get
<1>2. slot = [k \in Keys |-> slot[k]] /\ slot' = [k \in Keys |-> slot'[k]]
  BY MappedValues, MappedValuesNext DEF SlotValues
<1> QED
  BY <1>1, <1>2

\* A request that ends without a 200 is refused or lost in the contract.
LEMMA EndStep ==
  ASSUME IInv, NEW r \in Requests, NEW code \in Codes,
         pc[r] \in {"check", "adapter", "reply"}, Finish(r, code, None),
         UNCHANGED <<data, key, hash, owner, lapsed>>
  PROVE  Contract!End({r})
<1> USE DEF IInv, TypeOK, Finish
<1>1. phase[r] \in {"waiting", "working", "saved"}
  BY MappedValues DEF PhaseValues
<1>2. phase' = [s \in Requests |-> IF s \in {r} THEN "ended" ELSE phase[s]]
  BY DEF phase
<1>3. reply' = reply
  BY DEF reply, AnswersComeLast, NoAnswer
<1> QED
  BY <1>1, <1>2, <1>3, SlotKept DEF Contract!End

\* What a worker does once a lock of its key has run out the contract leaves open.
LEMMA StrayStep ==
  ASSUME IInv, IInv', NEW r \in Requests, NEW label \in {"reply", "ended"},
         pc[r] = "adapter", "lock" \in lapsed[key[r]],
         pc' = [pc EXCEPT ![r] = label],
         \A k \in Keys \ {key[r]} : data'[k] = data[k] /\ owner'[k] = owner[k],
         \A s \in Requests : answer'[s].run = answer[s].run,
         UNCHANGED <<key, hash, lapsed>>
  PROVE  Contract!Stray(r)
<1> USE DEF IInv, TypeOK
<1>1. SlotValues' /\ PhaseValues /\ PhaseValues'
  BY MappedValues, MappedValuesNext
<1>2. key[r] \in Keys
  OBVIOUS
<1>3. slot' = [slot EXCEPT ![key[r]] = slot'[key[r]]] /\ slot'[key[r]] \in Contract!Slot
  BY <1>1, <1>2, OtherSlotsKept DEF SlotValues
<1>4. \E p \in {"saved", "ended"} : phase' = [phase EXCEPT ![r] = p]
  BY DEF phase
<1>5. phase[r] = "working" /\ reply' = reply
  BY <1>1 DEF PhaseValues
<1> QED
  BY <1>3, <1>4, <1>5 DEF Contract!Stray

-----------------------------------------------------------------------------

\* check_and_lock takes the free slot, replays the response of the slot, or
\* refuses the request.
LEMMA CheckStep ==
  ASSUME IInv, IInv', NEW r \in Requests, CheckAndLock(r)
  PROVE  \/ Contract!Acquire(r)
         \/ \E s \in Requests : Contract!Replay(r, s)
         \/ Contract!End({r})
<1> USE DEF IInv, TypeOK, CheckAndLock
<1>1. SlotValues /\ SlotValues' /\ PhaseValues
  BY MappedValues, MappedValuesNext
<1>2. key[r] \in Keys /\ phase[r] = "waiting"
  BY <1>1 DEF PhaseValues
<1>3. CASE Get(key[r]) = Absent
  <2>1. /\ data' = [data EXCEPT ![key[r]] = LOCKED(hash[r])]
        /\ owner' = [owner EXCEPT ![key[r]] = r]
        /\ pc' = [pc EXCEPT ![r] = "adapter"]
        /\ UNCHANGED <<key, hash, answer, lapsed>>
    BY <1>3 DEF Put, Absent
  <2>2. slot[key[r]] = Contract!Free
    BY <1>1, <1>2, <1>3 DEF SlotValues, Absent
  <2>3. Get(key[r])'.state = "locked" /\ owner'[key[r]] = r
    BY <1>2, <2>1, TTLAssumption DEF Get, LOCKED, Expired
  <2>4. slot' = [slot EXCEPT ![key[r]] = Contract!Held(r)]
    BY <1>1, <1>2, <2>1, <2>3, OtherSlotsKept DEF SlotValues
  <2>5. phase' = [phase EXCEPT ![r] = "working"] /\ reply' = reply
    BY <2>1 DEF phase, reply
  <2> QED
    BY <1>2, <2>1, <2>2, <2>4, <2>5 DEF Contract!Acquire
<1>4. CASE Get(key[r]).state = "done" /\ Get(key[r]).hash = hash[r]
  <2>1. Finish(r, "200", Get(key[r]).run) /\ UNCHANGED <<data, owner, key, hash, lapsed>>
    BY <1>4 DEF Absent
  <2>2. PICK s \in Requests : s = Get(key[r]).run /\ hash[s] = hash[r]
    <3>1. Get(key[r]) = data[key[r]] /\ data[key[r]].state = "done"
      BY <1>2, <1>4, GetType
    <3> QED
      BY <1>2, <1>4, <3>1 DEF ResultHasRun
  <2>3. slot[key[r]] = Contract!Done(s)
    BY <1>1, <1>2, <1>4, <2>2 DEF SlotValues
  <2>4. phase' = [phase EXCEPT ![r] = "ended"]
    BY <2>1 DEF phase, Finish
  <2>5. reply' = [reply EXCEPT ![r] = s]
    BY <2>1, <2>2 DEF reply, Finish
  <2>6. Contract!Replay(r, s)
    BY <1>2, <2>1, <2>2, <2>3, <2>4, <2>5, SlotKept DEF Contract!Replay
  <2> QED
    BY <2>6
<1>5. CASE /\ Get(key[r]) # Absent
           /\ ~(Get(key[r]).state = "done" /\ Get(key[r]).hash = hash[r])
  <2>1. \E code \in Codes : Finish(r, code, None)
    BY <1>5 DEF Codes
  <2>2. UNCHANGED <<data, owner, key, hash, lapsed>>
    BY <1>5
  <2> QED
    BY <2>1, <2>2, EndStep
<1> QED
  BY <1>3, <1>4, <1>5

\* store_result completes the key that its request still holds, and strays once
\* a lock of the key has run out.
LEMMA StoreResultStep ==
  ASSUME IInv, IInv', NEW r \in Requests, StoreResult(r)
  PROVE  Contract!Complete(r) \/ Contract!Stray(r)
<1> USE DEF IInv, TypeOK, StoreResult, Put
<1>1. SlotValues /\ SlotValues' /\ PhaseValues
  BY MappedValues, MappedValuesNext
<1>2. key[r] \in Keys /\ pc[r] = "adapter"
  OBVIOUS
<1>3. CASE "lock" \in lapsed[key[r]]
  BY <1>2, <1>3, StrayStep
<1>4. CASE "lock" \notin lapsed[key[r]]
  <2>1. IsLocked(key[r]) /\ owner[key[r]] = r /\ data[key[r]].hash = hash[r]
    BY <1>2, <1>4 DEF WorkersOwnTheLock, LockHasOwner
  <2>2. Get(key[r]).state = "locked" /\ Get(key[r]).hash = hash[r]
    BY <1>2, <2>1, GetType DEF IsLocked
  <2>3. data' = [data EXCEPT ![key[r]] = DONE(hash[r], r)]
        /\ owner' = [owner EXCEPT ![key[r]] = None]
    BY <2>2
  <2>4. phase[r] = "working" /\ slot[key[r]] = Contract!Held(r)
    BY <1>1, <1>2, <2>1, <2>2 DEF SlotValues, PhaseValues
  <2>5. Get(key[r])'.state = "done" /\ Get(key[r])'.run = r
    BY <1>2, <2>3, TTLAssumption DEF Get, DONE, Expired
  <2>6. slot' = [slot EXCEPT ![key[r]] = Contract!Done(r)]
    BY <1>1, <1>2, <2>3, <2>5, OtherSlotsKept DEF SlotValues
  <2>7. phase' = [phase EXCEPT ![r] = "saved"] /\ reply' = reply
    BY DEF phase, reply
  <2> QED
    BY <2>4, <2>6, <2>7 DEF Contract!Complete
<1> QED
  BY <1>3, <1>4

\* The same for the lock that is deleted after a failure.
LEMMA DeleteLockStep ==
  ASSUME IInv, IInv', NEW r \in Requests, DeleteLock(r)
  PROVE  Contract!Release(r) \/ Contract!Stray(r)
<1> USE DEF IInv, TypeOK, DeleteLock, Put, Finish
<1>1. SlotValues /\ SlotValues' /\ PhaseValues
  BY MappedValues, MappedValuesNext
<1>2. key[r] \in Keys /\ pc[r] = "adapter"
  OBVIOUS
<1>3. \A s \in Requests : answer'[s].run = answer[s].run
  BY <1>2 DEF AnswersComeLast, NoAnswer
<1>4. CASE "lock" \in lapsed[key[r]]
  BY <1>2, <1>3, <1>4, StrayStep
<1>5. CASE "lock" \notin lapsed[key[r]]
  <2>1. Get(key[r]).state = "locked" /\ owner[key[r]] = r
    BY <1>2, <1>5 DEF WorkersOwnTheLock, IsLocked
  <2>2. data' = [data EXCEPT ![key[r]] = Absent]
        /\ owner' = [owner EXCEPT ![key[r]] = None]
    BY <2>1
  <2>3. phase[r] = "working" /\ slot[key[r]] = Contract!Held(r)
    BY <1>1, <1>2, <2>1 DEF SlotValues, PhaseValues
  <2>4. Get(key[r])'.state = "absent"
    BY <1>2, <2>2 DEF Get, Absent, Expired
  <2>5. slot' = [slot EXCEPT ![key[r]] = Contract!Free]
    BY <1>1, <1>2, <2>2, <2>4, OtherSlotsKept DEF SlotValues
  <2>6. phase' = [phase EXCEPT ![r] = "ended"]
    BY DEF phase
  <2>7. reply' = reply
    BY <1>3 DEF reply
  <2> QED
    BY <2>3, <2>5, <2>6, <2>7 DEF Contract!Release
<1> QED
  BY <1>4, <1>5

\* The adapter's own response is delivered.
LEMMA DeliverStep ==
  ASSUME IInv, NEW r \in Requests, Reply(r)
  PROVE  Contract!Deliver(r)
<1> USE DEF IInv, TypeOK, Reply, Finish
<1>1. phase[r] = "saved"
  BY MappedValues DEF PhaseValues
<1>2. phase' = [phase EXCEPT ![r] = "ended"]
  BY DEF phase
<1>3. reply' = [reply EXCEPT ![r] = r]
  BY DEF reply
<1> QED
  BY <1>1, <1>2, <1>3, SlotKept DEF Contract!Deliver

\* The arrival of a request is its arrival in the contract.
LEMMA CallStep ==
  ASSUME IInv, NEW r \in Requests, NEW k \in Keys, NEW h \in Hashes, Call(r, k, h)
  PROVE  Contract!Arrive(r, k, h)
<1> USE DEF IInv, TypeOK, Call
<1>1. phase[r] = "idle"
  BY MappedValues DEF PhaseValues
<1>2. phase' = [phase EXCEPT ![r] = "waiting"] /\ reply' = reply
  BY DEF phase, reply
<1> QED
  BY <1>1, <1>2, SlotKept DEF Contract!Arrive

-----------------------------------------------------------------------------

\* A restart empties every slot and ends every request.  A result past its time
\* that it removes from the dict has been counted as lapsed before.
LEMMA RestartStep ==
  ASSUME IInv, IInv', Restart
  PROVE  Contract!Restart
<1> USE DEF IInv, TypeOK, Restart
<1>1. SlotValues /\ SlotValues' /\ PhaseValues
  BY MappedValues, MappedValuesNext
<1>2. slot' = [k \in Keys |-> Contract!Free]
  BY <1>1 DEF SlotValues, Get, Absent
<1>3. phase' = [r \in Requests |-> IF phase[r] = "idle" THEN "idle" ELSE "ended"]
  BY DEF phase, PC
<1>4. reply' = reply
  BY DEF reply, AnswersComeLast, NoAnswer
<1>5. lapsed' = [k \in Keys |-> lapsed[k] \cup
                                  (IF slot[k].state = "done" THEN {"result"} ELSE {})]
  <2> SUFFICES ASSUME NEW k \in Keys
               PROVE  lapsed'[k] = lapsed[k] \cup
                                     (IF slot[k].state = "done" THEN {"result"} ELSE {})
    OBVIOUS
  <2>1. CASE data[k].left # Expired
    <3>1. slot[k].state = "done" <=> data[k].state = "done"
      BY <1>1, <2>1, GetType DEF SlotValues, Contract!Free, Contract!Held, Contract!Done
    <3> QED
      BY <3>1
  <2>2. CASE data[k].left = Expired
    <3>1. slot[k].state # "done"
      BY <1>1, <2>2 DEF SlotValues, Get, Absent, Contract!Free
    <3>2. data[k].state = "done" => "result" \in lapsed[k]
      BY <2>2 DEF ResultHasRun
    <3> QED
      BY <3>1, <3>2
  <2> QED
    BY <2>1, <2>2
<1> QED
  BY <1>2, <1>3, <1>4, <1>5 DEF Contract!Restart

\* A tick frees the slots of the entries whose time is up and ages the others,
\* which the contract does not see.
LEMMA TickStep ==
  ASSUME IInv, IInv', Tick
  PROVE  \E K \in SUBSET Keys : Contract!Expire(K)
<1> DEFINE gone == {k \in Keys : data[k] # Absent /\ data[k].left = 0}
<1> USE DEF IInv, TypeOK, Tick
<1>1. SlotValues /\ SlotValues' /\ PhaseValues
  BY MappedValues, MappedValuesNext
<1>2. \A k \in gone : slot'[k] = Contract!Free
  <2> SUFFICES ASSUME NEW k \in gone PROVE Get(k)'.state = "absent"
    BY <1>1 DEF SlotValues
  <2>1. data'[k].left = Expired
    BY AgedEntry DEF Expired
  <2> QED
    BY <2>1 DEF Get, Absent
<1>3. \A k \in Keys \ gone : slot'[k] = slot[k]
  <2> SUFFICES ASSUME NEW k \in Keys \ gone PROVE slot'[k] = slot[k]
    OBVIOUS
  <2>1. CASE data[k] = Absent \/ data[k].left = Expired
    BY <2>1 DEF slot, Get
  <2>2. CASE data[k] # Absent /\ data[k].left # Expired
    <3>1. data[k] \in Entry /\ data[k].left \notin {0, Expired}
      BY <2>2
    <3>2. data'[k].left # Expired /\ data'[k].state = data[k].state /\ data'[k].run = data[k].run
      BY <2>2, <3>1, AgedEntry DEF Entry, Expired
    <3> QED
      BY <2>2, <3>2 DEF slot, Get
  <2> QED
    BY <2>1, <2>2
<1>4. slot' = [k \in Keys |-> IF k \in gone THEN Contract!Free ELSE slot[k]]
  BY <1>1, <1>2, <1>3 DEF SlotValues
<1>5. \A k \in gone : /\ InUse(k) <=> Contract!InUse(k)
                      /\ data[k].state = "done" <=> slot[k].state = "done"
  <2> SUFFICES ASSUME NEW k \in gone
               PROVE  /\ InUse(k) <=> Contract!InUse(k)
                      /\ data[k].state = "done" <=> slot[k].state = "done"
    OBVIOUS
  <2>1. \A r \in Requests : pc[r] = "adapter" <=> phase[r] = "working"
    BY <1>1 DEF PhaseValues, PC
  <2>2. Get(k) = data[k]
    BY DEF Get, Expired
  <2>3. CASE data[k].state = "locked"
    <3>1. slot[k].state = "held" /\ slot[k].run = owner[k] /\ owner[k] \in Requests
      BY <1>1, <2>2, <2>3 DEF SlotValues, Contract!Held, LockHasOwner, IsLocked
    <3> QED
      BY <2>1, <2>3, <3>1 DEF InUse, Contract!InUse
  <2>4. CASE data[k].state \in {"absent", "done"}
    <3>1. slot[k].state = IF data[k].state = "done" THEN "done" ELSE "free"
      BY <1>1, <2>2, <2>4 DEF SlotValues, Contract!Done, Contract!Free
    <3> QED
      BY <2>4, <3>1 DEF InUse, Contract!InUse
  <2> QED
    BY <1>1, <2>2, <2>3, <2>4 DEF SlotValues
<1>6. lapsed' = Contract!Lapse(gone)
  BY <1>5 DEF Contract!Lapse
<1>7. phase' = phase /\ reply' = reply
  BY DEF phase, reply
<1>8. Contract!Expire(gone)
  BY <1>4, <1>6, <1>7 DEF Contract!Expire
<1> QED
  BY <1>8

-----------------------------------------------------------------------------

\* Every step of the store is a step of the contract or a stutter.
LEMMA RefinesNext == IInv /\ IInv' /\ [Next]_vars => [Contract!Next]_Contract!vars
<1> SUFFICES ASSUME IInv, IInv', [Next]_vars PROVE [Contract!Next]_Contract!vars
  OBVIOUS
<1>1. ASSUME NEW r \in Requests, NEW k \in Keys, NEW h \in Hashes, Call(r, k, h)
      PROVE  Contract!Next
  BY <1>1, CallStep DEF Contract!Next
<1>2. ASSUME NEW r \in Requests, Contract!End({r})
      PROVE  Contract!Next
  BY <1>2 DEF Contract!Next
<1>3. ASSUME NEW r \in Requests, CheckAndLock(r)
      PROVE  Contract!Next
  BY <1>2, <1>3, CheckStep DEF Contract!Next
<1>4. ASSUME NEW r \in Requests, StoreResult(r)
      PROVE  Contract!Next
  BY <1>4, StoreResultStep DEF Contract!Next
<1>5. ASSUME NEW r \in Requests, Reply(r)
      PROVE  Contract!Next
  BY <1>5, DeliverStep DEF Contract!Next
<1>6. ASSUME NEW r \in Requests, DeleteLock(r)
      PROVE  Contract!Next
  BY <1>6, DeleteLockStep DEF Contract!Next
<1>7. ASSUME NEW r \in Requests, Abort(r)
      PROVE  Contract!Next
  BY <1>2, <1>7, EndStep DEF Abort, Codes
<1>8. CASE Restart
  BY <1>8, RestartStep DEF Contract!Next
<1>9. CASE Tick
  BY <1>9, TickStep DEF Contract!Next
<1>10. CASE UNCHANGED vars
  BY <1>10 DEF vars, Contract!vars, slot, phase, reply, Get
<1> QED
  BY <1>1, <1>3, <1>4, <1>5, <1>6, <1>7, <1>8, <1>9, <1>10 DEF Next, Step

\* The store in one process keeps the contract, for any number of requests, keys
\* and hashes and any times to live, whatever restarts happen.
THEOREM RefinementCorrect == Spec => ContractSpec
<1>1. IInv /\ [Next]_vars => [Contract!Next]_Contract!vars
  BY RefinesNext, InvariantInductive
<1>2. QED
  BY <1>1, RefinesInit, RefinesNext, InvariantCorrect, PTL DEF Spec, ContractSpec, Contract!Spec
================================================================================
