# Verification of the IRI facility API demo adapters

The repository holds seven demo adapters for the IRI facility API (facility, status, account, compute,
filesystem, storage, task), two idempotency stores for the compute routes, and the seeded state that the
read-only adapters serve. This directory models all of them but the canned answers of the compute adapter, checks
them with TLC, and proves with TLAPS what both idempotency stores, the task queue, the generator of events and
incidents and the adapters that serve them promise, for instances of any size. File names are relative to `src/demo_adapter/`.

## 1. Inventory

| Part | State | Operations | Interacts with | What is hard | What makes it correct |
|---|---|---|---|---|---|
| Redis idempotency store, `compute/idempotency.py` 83-163 | one Redis key per (user, Idempotency-Key, operation): `LOCKED:<body hash>` or `DONE:<json>`, each with a time to live | `check_and_lock`, `store_result`, `delete_lock` | the compute routes call it around the adapter; several API processes share the Redis | every Redis command is an await, so requests interleave between commands; locks run out; requests die | one request at a time at the adapter, one response per key, no response replayed for another body, no key locked forever |
| In-memory idempotency store, same file 24-77 | a dict in the process | the same | the same, one process | lazy expiry, restart | the same contract |
| Task queue, `task/adapter.py` | a class-level list of task objects | `get_task`, `get_tasks`, `put_task`, `delete_task`, each of which first runs `process_tasks` | `on_task` (upstream) calls the configured filesystem adapter | the list is replaced at the end of a walk that may have been suspended; status changes by age only; nobody drives the queue | a command runs once and in its turn, a submitted task is not lost and ends, a canceled task stays canceled, an id names one task |
| Filesystem adapter and sandbox, `filesystem/` | a directory tree with links | 18 operations, most of them a subprocess | called by `on_task` | links, retries, operations that fail after having changed something, commands cut short by a crash or a timeout | the sandbox stays, a retry does no harm and finishes what was cut short, errors are contained, a round trip through an archive rebuilds the tree |
| The seed, `state.py` 42-428, `common.py` 9-14 | sites, resources, capabilities, locations, endpoints, projects, allocations, written down at import | none | all read-only adapters | objects refer to each other across domains, some relations on both sides | whatever is named is found, once; both sides agree |
| Demo events and incidents, `state.py` 430-480 | two lists that refer to each other, generated once at import | the generator loop | the status adapter reads the lists | order of closing and opening incidents, time boundaries | links agree, outages are explained, incidents do not overlap |
| Storage resolver, `storage/adapter.py` | none (reads the seed) | `get_locations`, `get_access_endpoints` | seed; the projects of the account domain | expansion over projects, filters, and their order | filters divide the locations, no project's are missing, given twice or given for another one |
| Status, facility and account adapters | none (read the seed) | list and get | seed, events and incidents | paging; answers of different domains about one thing | pages add up to the list; links lead to objects and back; allocations can be used |
| Compute adapter | none | canned answers | stands behind the idempotency stores | - | - |
| `common.py`, `combined.py` | none | paging, clock, mixin | all | - | - |

How they interact: a compute route asks its store for the key, calls the compute adapter if the store says
"proceed", and then stores the result or deletes the lock. A filesystem route puts a command on the task queue;
clients poll the task, and the polling itself executes the command by way of `on_task` and the filesystem
adapter. The facility, status, account and storage adapters answer from one `DemoState`, the seed and the
generated lists, which is complete when the module has been imported and never changes afterwards; storage looks
at the projects of account, and is keyed by the resources of status. The upstream API package (`app.*`: routes,
`on_task`, models, the cache key) is not in the repository; it is modelled only as far as the code here uses it,
and marked external, as are Redis, coreutils, GNU tar and asyncio.

The hazards, each at its line with the properties that cover it, are listed in `PROJECT.json`.

## 2. Modules

| Module | Models | Uses |
|---|---|---|
| `IdempotencyContract` | abstract: what a store promises, whatever backs it | - |
| `RedisStore` | `RedisIdempotencyStore`, command by command | implements `IdempotencyContract` |
| `RedisStoreProofs` | its inductive invariant, its safety theorems, and that it implements the contract | extends `RedisStore` |
| `InMemoryStore` | `InMemoryIdempotencyStore`, method by method | implements `IdempotencyContract` |
| `InMemoryStoreProofs` | its inductive invariant, its safety theorems, and that it implements the same contract | extends `InMemoryStore` |
| `TaskContract` | abstract: what the task API promises, whatever drives the queue | - |
| `Lists` | `Keep`: the elements at some places of a list, as a loop that drops the others or a list comprehension leaves them | - |
| `ListTheorems` | lemmas about `Keep`: order, members, and that it finds what another list holds; and about lists put together | extends `Lists` |
| `TaskQueue` | `DemoTaskQueue` and `TaskDemoAdapter` | implements `TaskContract`; uses `Lists` |
| `TaskQueueProofs` | lemmas about its lists, its two inductive invariants, safety theorems, and that it implements the contract when calls do not overlap | extends `TaskQueue`, `ListTheorems` |
| `Paths` | paths below the sandbox, and `realpath` | - |
| `PathTheorems` | lemmas about paths; that `realpath` ends; where paths lead after links have changed | extends `Paths`, `ListTheorems` |
| `Filesystem` | `FilesystemDemoAdapter` and `PathSandbox` | extends `Paths` |
| `FilesystemProofs` | what each operation keeps, leaves when it raises and does when it is repeated; its inductive invariant and safety theorems | extends `Filesystem`, `PathTheorems` |
| `DemoSeed` | the event and incident generator of `DemoState` | - |
| `DemoSeedProofs` | its inductive invariant and safety theorems | extends `DemoSeed` |
| `DemoWorld` | the constants that `DemoState` writes down | - |
| `DemoApi` | the facility, status, account and storage adapters and a client's session with them | composes `DemoWorld` and an instance of `DemoSeed`; uses `Lists` |
| `DemoApiProofs` | that it implements `DemoSeed`, the invariants of a session, and its theorems on links, pages, answers, locations and allocations | extends `DemoApi`, `ListTheorems`; an instance of `DemoSeedProofs` |
| `MC*` | model-checking instances: symmetry, paths | the module of their name |

Definitions whose comment begins "Mutant of" are not part of the models. Each is the form that a named
definition would have after a plausible mistake; put in the definition's place, it must make a property fail
(section 5).

### RedisStore

`store[k]` is the value of a Redis key with its remaining time to live, `pc[r]` the next await of a request. One
action is what runs between two awaits: `CheckSetNX`, `CheckGet` and `CheckSetNXAgain` are the three commands of
`check_and_lock`; `StoreWatch`, `StoreGet` and `StoreExec` those of `store_result`; `DeleteWatch`, `DeleteGet` and
`DeleteExec` those of `delete_lock`. `dirty` is what Redis remembers for WATCH: the requests whose watched key has
changed. `AdapterReturns`, `AdapterRaises` and `Reply` are the route around the store; `Abort` is a request that
dies at any await, with its process or by an exception of the Redis client; `Tick` is Redis's clock. The hash and
the response are atomic values; the response is named by the request whose adapter call produced it. `owner`,
`lapsed` and `contended` are history variables: no action looks at them.

### InMemoryStore

The same requests, but no method awaits, so `CheckAndLock`, `StoreResult` and `DeleteLock` are whole method
calls. Expired entries stay in `data` (`left = Expired`) until `_get` looks at them, and the comparison of `_get`
is strict, so an entry lives one tick longer than its time. `Restart` empties the dict and ends the requests in
flight.

### IdempotencyContract

A slot per key (free, held, done) and a phase per request. It lets requests `Acquire` a free key, `Complete` or
`Release` a held one, and `Replay` a completed one to a request with the same body. Time (`Expire`), `Restart`
and the death of requests (`End`) may intervene at any point. When a lock runs out under a request at work, the
key is marked in `lapsed`; for such a key, and only for it, a worker may `Stray`. The route holds a lock for as
long as the adapter takes and the store has no way to extend it, so a stronger promise would not be true of
either store.

### TaskQueue

A task object is its place in the order of creation; `tasks` is `DemoTaskQueue.tasks`. Every call first walks the
list (`Walk`): old finished tasks are dropped, waiting ones activated, and due ones handed to `on_task`, which is
the only await. A call is therefore one step up to its first due task and one step per `OnTaskReturns`, and its
last step also replaces the list and does what the call was made for (`Finish`). `age` is the time since
`t.start`; `lag` is how far the `now` that the walk has read at its start has fallen behind. `Yields` says whether
the filesystem adapter behind `on_task` ever suspends: the demo one never does. What a walk keeps of a list is given
by `Keep` (in `Lists`) and the places it keeps, rather than by `SelectSeq`, whose definition in the standard module is recursive and
closed to the prover; `KeepIsSelectSeq` in `MCTaskQueue` has TLC compare the two on all short lists.

### TaskContract

A stage per task (unborn, waiting, running, completed, failed, canceled) and the set of tasks that can be looked
up. Tasks are accepted one after the other; their commands run one at a time, in the order of submission, each at
most once; a canceled task never runs again; what has not ended is listed. Time, ages, walks and the rebuilding of
the list are not in it. `TaskQueue` maps a task that is suspended in `on_task` to "running", and a step of the
queue that completes one task and starts the next to one step in which both move. It implements the contract only
with a filesystem adapter that never suspends; with one that does, `EndedIsFinal` is what remains. The order of
submission does not remain: a call that ends late can put back a list without a task that another call has since
created, and one that ends later still a list with it, so that a newer task runs while an older one waits unexecuted.
TLC shows it with five tasks and two overlapping calls.

### Filesystem

`fs` maps the paths that exist to directories, files and links. Each method is an operator that gives the set of
its outcomes on a tree (the tree it leaves, whether it raises, what it answers), so that properties can speak of
requests nobody has made yet. `validate_path` is `realpath`: every path is resolved before use. `realpath` of module
`Paths` is a walk: the first link in the path is replaced by where it leads, until there is none left, or the first
one is still being followed, which is a loop and stays in the path. An archive is a file whose body is the tree that tar packed. `Serve` is a request, `Restart` a new process, whose first request
writes the test file again. `Crash` is the process dying in the middle of a command, together with the command: the
operators that end in `Cut` give the trees that the command may leave, a part of the tree for `rm` and `mkdir -p`,
and a file that is cut short for the others (`Rest`, an archive of which only some members can be read). `rename`,
`symlink` and a single `mkdir` have no such intermediate trees. `rm` may also be given up by `run_command` at its
timeout, while the process goes on. The effects of the coreutils commands and of tar are modelled with the errors they
report and what they leave behind when they fail; where tar reads the archive that it writes, its outcome is left
open.

### DemoSeed

One action, `Iterate`, is one iteration of the loop, with the outcome of each `random()` call chosen freely.

### DemoWorld and DemoApi

`DemoWorld` holds the objects of the seed, reduced to their ids, what they name and what decides over locations: a
path is a template, a user and a project. `DemoApi` first lets an instance of `DemoSeed` generate (`Generate`, which
also draws the `resource_ids` of an incident); only then, as in the program, are requests served. A client is
followed through one session at a time: it opens the facility or a project and follows what an answer names
(`Follow`), reads a collection page by page, each page from where the last one ended, and opens what it has listed
(`Ask`, `NextPage`, `OpenListed`), or asks for locations (`Locate`). `Named` is what the answer for an id names, and
`Collection` the list in which an id of that kind is looked up. `find` and `find_by_id` belong to the upstream
models and are external.

## 3. Runs

| Run | Asks | Bounds |
|---|---|---|
| `redis_safety` | The safety properties, the inductive invariant and the contract | 3 requests, 1 key, 2 bodies, a lock of 1 tick, a result of 2 |
| `redis_liveness` | Is every lock released and every request answered, under fair scheduling? | 2 requests, times of 2 |
| `redis_owner` | Does `store_result` write only over its own lock? (no) | 2 requests |
| `memory` | Do lazy expiry and restart keep the same contract? Are keys of dead requests freed? | 3 requests, 1 key, 2 bodies |
| `queue_serial` | With the demo filesystem adapter: does the queue implement the task contract? At most once, nothing lost, every task ends | 2 users, 3 tasks |
| `queue_overlap` | What survives if the filesystem adapter suspends: what has ended stays so | 2 callers, 3 tasks |
| `queue_ids` | Does an id find its task? (no) | 1 caller, 3 tasks |
| `queue_lost` | Is a submitted task kept, if the filesystem adapter suspends? (no) | 2 callers, 2 tasks |
| `seed_safety` | Events and incidents agree, in relation, status and time | 2 resources, 6 iterations, gaps of 1 and 2 |
| `files_safety` | Sandbox, retries, what was cut short, errors, aliases, moves and archives | 3 requests, crashes or restarts, then any further ones that a property speaks of |
| `api` | Do the domains present one world: links, pages, locations, allocations? | 3 iterations on 2 reporting resources, 2 draws, pages of 1, 2 and all |
| `files_described` | Is a symlink described as a link? (no) | 3 requests or restarts |

Why these bounds suffice to show what is asked:

- Keys of the stores do not interact, so one key is enough; three requests on it give a holder, one that takes the
  key over after the lock has run out, and one that replays or is let through by the late first one. A lock of
  1 tick makes it run out at every point of its holder's work; a result of 2 ticks separates ageing from running
  out. The proofs of section 6 remove these bounds for both stores, except for liveness.
- `queue_serial` has one caller because calls cannot overlap when nothing suspends. Three tasks with
  `PurgeSecs = 1` are enough for one to be dropped while another is active and a third is submitted. `MaxLag`
  lets time pass within a walk; ages above `OldAge` are not told apart by any comparison. The proofs remove the bounds
  on tasks, callers, users and delays from all safety properties, here and in `queue_overlap`.
- `seed_safety`: six iterations hold two complete incidents of one resource (down, down, up) or interleaved ones
  of two resources. The proofs remove both bounds.
- `files_safety`: most properties quantify over all further requests from each tree that is reached, one or two
  of them, so that trees of three requests show sequences of up to five. `MaxDepth` cuts off trees deeper than 4,
  two levels more than any path in a request. A crash is only explored if another request follows within the
  bound, since all that can be seen of it is what requests find, and not
  within a `compress` that packs its own target, whose outcome is open anyway. The proofs remove the bounds on
  requests, depth, names and links.
- `api`: three iterations give an incident that is open, one that is closed with two events, and incidents of two
  resources side by side; the seed is the whole seed of the code. `Limits` has no 0, and `Questions` set the
  logical path and the intent one at a time; the property compares the answers with those for the other values.
  Two draws are enough for an incident that names its resource and one that does not. The proofs remove the bounds on
  iterations, draws, page sizes and questions.

`CHECK_DEADLOCK FALSE` is set everywhere but in `api` because the other models really stop: requests end and do
not come back, and numbers of tasks, iterations and file requests are bounded. In `api` the client can always leave.

**Fairness.** Liveness assumes that an event loop keeps running a request that has arrived, the adapter returning
or raising in the end (`WF(Step(r))`); that time passes (`WF(Tick)`); and for the queue that `on_task` returns and
that some client keeps polling (`WF(GetTasks)`). The last one is needed: nothing in the program runs the queue but
the calls themselves. `Abort`, `Restart`, `Cancelled`, and new requests get no fairness. No strong fairness is
used.

**What the runs show.** In short, for the properties that say more than their names:

- `OneAtTheAdapter`, `AllRepliesAgree`: the guarantee of the stores, with its real limit. It ends for a key when
  a lock has run out under a request at work (for the first), or when a lock or a result has run out (for the
  second), and `lapsed` records exactly that.
- `HitReplaysSameBody` holds without any such limit, though late workers do overwrite locks of others.
- `ConflictMeansContention`: a 409 is truthful even where the second SET NX fails without a look at the value.
- `DoneIsFinal`: neither a late `store_result` nor a late `delete_lock` replaces a completed entry.
- `EveryTaskEnds`, `AtMostOnce`: with clients that poll, every submitted task ends, and its command never runs twice.
- `RetryIsHarmless`: every operation but `symlink` may be submitted again after it has succeeded; a second
  `symlink` makes another link inside the directory the first one leads to, or a link to itself.
- `ContractSpec` of the queue: whatever the ages of tasks and the times of calls, users see a queue that serves one
  task after the other. `EndedIsFinal` also holds where calls overlap, where tasks can be lost, run twice and
  change their order: a task that has ended is never run again by a call that walks a stale list.
- `RetryFinishesTheJob`: after a crash in the middle of a command and a restart, or after the timeout of an `rm`, the
  same request leads to one of the trees it would have led to at once. Three cases are outside
  it: `extract`, which refuses the directory that it left; a path that led through a link which `rm` has removed;
  and a test file that a client has replaced by a link, through which the restart writes.
- `AnswersMatchLinks`, `LinksResolve`: the domains agree on what belongs to what, although each relation is computed
  twice. `AllocationsAreUsable`: the three domains that must agree for a project to store anything do.
- `ErrorsAreContained`: a failing request leaves at most a dangling link, an empty archive, or a directory with what
  could be read of the archive, all at its own target, or a part of what `rm` was to remove. Only `mv` of a link that
  leads back to itself is outside it: the link moves, and then cannot be described.

## 4. Disagreements between the code and what is said of it

1. `compute/idempotency.py:136`, run `redis_owner`. The docstring of `store_result` (line 127) says "Write DONE
   only if we still own the lock". The value names the body, not the request, so a request whose lock ran out
   completes the lock of another request with the same body.
2. `task/adapter.py:68`, run `queue_ids`. Ids are lengths of a list that shrinks when old tasks are dropped, so a
   new task can get the id of a listed one, and its submitter sees the other task's status and result.
3. `task/adapter.py:63`, run `queue_lost`. With a filesystem adapter that suspends, the walk that ends later puts
   back a list built before a task was submitted. The README (line 65) says that the domains can be replaced one
   by one.
4. `filesystem/sandbox.py:93`, run `files_described`. The comment says "Use lstat to not follow symlinks", but the
   path is resolved first and then `os.stat` is called: a link is always described as what it leads to.

Met while modelling and stated nowhere else: `view` answers an empty content for a missing file, because a pipe
has the status of its last command; `get_capabilities` ignores offset and limit, so that reading it page by page
never ends; an incident need not name the resource that its events are about; `compress` with compression "none"
always fails, because `-c` comes only with a compression option; `tail` with `skip_heading` passes the count twice, and the second one replaces the first.

## 5. Mutants

For every property of every passing run, `PROJECT.json` names a definition and a mutated form: a SET without NX
or EX, a hash forgotten or not compared, a WATCH left out, a status not looked at, an incident not closed, a link
not resolved, a slice off by one. Each makes TLC find that property violated, so each property depends on the code
it is about.

## 6. Proofs

What the theorems assume of the constants are the named assumptions of the modules, and no more: for the stores that
times to live are natural numbers (positive ones for Redis, whose EX demands it) and that the value which stands for
"nothing" is no request, key or hash; for the queue that delays and bounds are natural numbers, that callers are
finite in number and that there is a user; for the generator that it makes a natural number of iterations and that
its gaps are positive; for the adapters over it that the resources which the generator picks from and draws are
resources of the seed, that the number of iterations is natural and that a page size is an integer and not 0; for the
filesystem that the paths of requests are paths of names, that the test file is a single name (`sandbox.py` writes it
directly in the sandbox), and that the sandbox is not one of those names. The length of the test file's path matters:
below a directory, `RetryFinishesTheJob` would be false, for a `mkdir -p` that was cut short could have made the directory
which lets the restart write the file. The
theorems about calls of the queue that do not overlap have the hypothesis `~Yields`.

| Module | Theorem | States |
|---|---|---|
| `RedisStoreProofs` | `TypeCorrect`, `InvariantCorrect` | types, and the inductive invariant `IInv` |
| | `OneAtTheAdapterCorrect`, `AllRepliesAgreeCorrect`, `HitReplaysSameBodyCorrect`, `ConflictMeansContentionCorrect` | the four safety properties |
| | `DoneIsFinalCorrect` | the action property |
| | `RefinementCorrect` | `Spec => ContractSpec`: the store implements the contract |
| `InMemoryStoreProofs` | `TypeCorrect`, `InvariantCorrect`, `OneAtTheAdapterCorrect`, `AllRepliesAgreeCorrect` | types, `IInv`, the two safety properties |
| | `RefinementCorrect` | `Spec => ContractSpec`: the same contract |
| `TaskQueueProofs` | `TypeCorrect`, `InvariantCorrect` | types and `IInv`, however calls overlap |
| | `EndedIsFinalCorrect` | the action property, however calls overlap |
| | `SerialInvariantCorrect`, `AtMostOnceCorrect`, `NothingIsLostCorrect` | `SerialInv` and the two safety properties, if `~Yields` |
| | `RefinementCorrect` | `Spec => ContractSpec`, if `~Yields` |
| `PathTheorems` | `ResolutionEnds` | `realpath` ends, in a path without links or at a link that leads back to itself |
| | `ResolvedAgain` | a path that is resolved stays as it is, unless it leads into a loop: then it never gets rid of links |
| | `ResolvedWhenCleared` | where a path leads after links have gone from some place of the tree or have come to another |
| | `ResolvedWhenRedirected` | where a path that led into a loop leads after the link has moved onto another one |
| `FilesystemProofs` | `TypeCorrect` | types |
| | `TreeIsWellFormedCorrect`, `AliasesAgreeCorrect`, `MoveIsReversibleCorrect`, `RoundTripCorrect` | four of the safety properties |
| | `ErrorsAreContainedCorrect` | the fifth: what a request has changed when it raises |
| | `RetryIsHarmlessCorrect` | the sixth: what a request changes when it is made again |
| | `RetryFinishesTheJobCorrect` | the seventh: what a request that was cut short does when it is made again |
| `DemoSeedProofs` | `TypeCorrect`, `InvariantCorrect` | types and `IInv` |
| | `LinksAgreeCorrect`, `OutagesAreExplainedCorrect`, `IncidentsAreOutagesCorrect`, `IncidentSpansItsEventsCorrect`, `IncidentsDoNotOverlapCorrect` | the five safety properties |
| | `OrderCorrect`, `IdsAreUniqueCorrect` | `OrderInv`, which the adapters need, and its first part |
| `DemoApiProofs` | `SeedCorrect` | `Spec => SeedProofs!Spec`: for the generated world `DemoApi` implements `DemoSeed` |
| | `SessionCorrect`, `ReachCorrect`, `DrawsCorrect` | the invariants `SessionInv` of a client that reads pages, `ReachInv` of one that follows links, and `DrawsInv` of what incidents name |
| | `PagesAddUpCorrect`, `AnswersMatchLinksCorrect`, `LinksResolveCorrect`, `LocationsAddUpCorrect`, `AllocationsAreUsableCorrect` | the five safety properties |
| | `GeneratedLinksResolveCorrect` | what `LinksResolve` says, for all events and incidents, whether a client has opened them or not |

### RedisStore

Why `IInv` is needed: none of the four properties is inductive. `OneAtTheAdapter` holds because whoever is at work
still owns the lock and no other client has changed it behind its WATCH, until that lock has run out
(`WorkersOwnTheLock`). That is preserved by EXEC only because an EXEC that is applied finds what GET has seen
(`ExecFindsTheLock`). `AllRepliesAgree` needs that every response that was or will be given is the cached one
until something runs out (`RepliesAreCached`); `HitReplaysSameBody` that locks and results carry the key and the
hash of their request (`LockHasOwner`, `ResultHasRun`); `ConflictMeansContention` that a request which has not been
contended sees neither a lock nor a value (`CheckersWereContended`). The run `redis_safety` checks `IInv` too.

The refinement maps `LOCKED` to a slot held by `owner`, and the awaits of one phase to one phase of the contract,
so that WATCH, GET and failed commands change nothing there. The step that carries the argument is EXEC: if no
lock of the key has lapsed, the invariant says the worker owns the lock, and the step is `Complete` or `Release`;
otherwise it is `Stray`. The same split shows that a GET which no longer finds its lock is a `Stray`. `Tick` is
`Expire` of the keys whose time is up, and `InUse` has the same meaning on both sides.

### InMemoryStore

The invariant is that of the shared store without WATCH, and with lazy expiry instead: what counts is not the entry
in the dict but what `_get` would answer for it, so the parts speak of `Get(k)`. An entry that has run out but is
still in the dict must be known as lapsed (`ResultHasRun`), or the first `_get` that removes it would be a step in
which nothing runs out and a result disappears. `Restart` keeps the invariant because it ends all requests in
flight: nobody is left who would own a lock. In the refinement an entry past its time is a free slot, so that the
deletion in `_get` is invisible and only `Tick`, at the moment the time is over, is a step of the contract (`Expire`).

### TaskQueue

*Calls that overlap in any way.* `IInv` says that tasks are created one after the other (`BornInOrder`), that there is
room for the puts under way (`RoomForPuts`, without which the table of the model would overflow), that the list and
the lists of all calls under way are in the order of creation (`ListsAreInOrder`), and that they contain only tasks that exist
(`ListedAreBorn`). The proof goes by the effect of a walk: `WalkHasEffect` states what `Walk` does to the *sets* of
tasks on its lists, and from there on no proof looks at positions in a sequence again. That lemma rests on a few
facts about sequences (`KeepProperties` of `ListTheorems`, `ConcatLists`, `PartOfList`, `HeadIsFirst`) and on
`MinIsLeast`: a set of numbers has a minimum, by the well-foundedness of `<`. `WalksAreReady` collects the steps that walk, calls that
start and calls that go on, into two cases, so that each invariant is proved of one walk instead of five actions.
`EndedIsFinal` follows because no branch of the walk looks at a task that has ended but the one that drops it.

*Calls that do not overlap.* `AtMostOnce` and `NothingIsLost` are not inductive even then. A second execution is
excluded because on_task sets a terminal status before the walk goes on, so an active task outside of on_task has not
run yet (`RunsHaveStarted`). `NothingIsLost` needs that a list under construction will have what is open
(`CallsLoseNothing`), which holds because a walk never goes past an open task and then stops at one to execute
(`RunningIsFirst`): tasks that were submitted earlier are never behind in status, and never younger in the same status
(`OlderIsFurther`), so if the later one is due the earlier one is. For that, a walk that activates tasks with its own
old `now` must not make one older than a task it finds active (`ActiveSinceTheWalk`). In the refinement a step that
walks ends at most the task in on_task, starts at most the first that is open, and creates at most the next
(`MovesTo`); with `RunningIsFirst` and `NothingIsLost` after the step these are the clauses of the contract
(`MovesAreContractSteps`), and `Tick` is a stutter.

### DemoSeed

The five properties hold together or not at all, so `IInv` has them all, with three more parts: the incident that
`last_incidents` names is the latest one of its resource (`OpenIncidentIsLatest`), so that closing it cannot disturb an
earlier one; a resource that is down has one (`DownMeansOpen`), so that its next outage has an incident; and the clock is
ahead of every time written down (`ClockIsAhead`), which makes new incidents start after old ones end. The last one is
where positive gaps are needed. One lemma (`IterateEffect`) says what one iteration changes, for the two lists, and
each part of the invariant is proved from it. `OrderInv` is what a reader of the two lists relies on besides: ids are
unique, because the clock moves on before the next one is computed (`IdsAreDated`), and an incident lists its events in
the order of `self.events`. It is inductive with `TypeOK` alone.

### DemoApi

`SeedCorrect` shows that sessions leave the world alone, so all that is proved of `DemoSeed` holds of the world which
the adapters serve. `PagesAddUp` then needs that the world is complete before a session begins and frozen while it
lasts (`AnswersAreFrozen`): with the first conjuncts of `SessionInv`, the page that a client asks for is a slice of the
same collection that it began with, and it starts where the last one ended (`PagesConnect`). What `paginate_list` and
the slice of `list_sites` return is stated once each, for any list, offset and limit. A page is only empty when nothing
is left, because no limit is 0.

`AnswersMatchLinks` compares two lists that are computed differently: the events that name an incident, picked from
`self.events`, and the ids the incident holds. They have the same members by `LinksAgree`, and the same order because an
incident lists its events in the order of `self.events` (`EventsAreInOrder`). That two lists with the same members in the
same order are equal would be proved by induction; here it follows from the form of `Keep`, whose k-th element is the
k-th smallest place (`NthIsTheOrder`, `KeepIsLookup`). That an id leads to its event needs `IdsAreUnique` (`PlaceIsFound`).

`LinksResolve` is about whatever a client has opened. It is not inductive: that a link leads somewhere says nothing of
where the next one leads. `ReachInv` says that the client is at an id of some collection (`Known`), and came from one that
names it. It is preserved because all that a known object names is known, and names the object in turn where their
relation is in `TwoSided` (`NamedAreKnown`); and an id that is in a collection leads to one object (`KnownIsFound`). Both
are shown kind by kind, ten of them. For events and incidents they are what `GeneratedLinksResolve` says, whatever their number. For the
rest, `WorldNames` says in terms of sets what each answer names: the sites of the resources that have them, the
endpoints of a resource, each project with each capability. The lists behind these answers are `FlattenSeq` of others,
a recursive function over a prefix of the list; what it has in it, and that it repeats nothing if the lists have nothing
in common (`FlattenSeqProperties`), is an induction that is made once, over the set of prefixes for which it holds
(`CountUp`).

`LocationsAddUp` compares an answer with the answers to other questions, so all that is needed of a client is that it has
the answer to the question it asked (`LocateInv`). `LocationsProperties` says what the answer to any question has in it: a
location for each template of the resource that passes the filters and each project it is expanded over (`Passes`,
`Over`), none of them twice, since the templates of a resource differ in their paths, and the locations of one template
in their project. The filters look at one attribute each, so that the answer without a filter is the union of the
answers with its values; with `intent` it matters that a template is either for long term storage or for staging.

`AllocationsAreUsable` follows from `ReachInv`, by which the allocation is one of the account domain, and from the constants: a
project's name becomes one of the codes that the user may ask with (`UserProjectCodes`), and each capability has a resource with
a template that can be written and passes every filter on projects (`CapabilityIsServed`).

### Filesystem

*Resolution.* `realpath` is a recursive function over walks, and TLA+ gives it a meaning only if the recursion ends. A
link that is followed is open until the names behind it are reached, and an open link that comes first in the path again
ends the walk. So a walk with `n` names left either opens another of the finitely many links or goes on with fewer names
behind: `SettlesStep` is an induction over the links that are not open and, within it, over the names behind the
first link. `ResolutionEnds` then says that `Walks` gives the last walk, whatever links the tree has: dangling, looping, or
through one another.

*The tree.* `Inv` says that `fs` is well formed (`IsWellFormed`): there is a set W of trees, the world, such that every
node of `fs` and of every tree in W is a node of the right type whose members are a tree of W again or nothing. The
nesting of archives has no bound, so that a type of all archives would be defined by recursion over their depth; a
world that is closed under taking members does without. The members of an archive begin with a directory, if they include their top at all (`HasTop`), so that
unpacking puts no link at the target itself. An operation keeps it by adding to W the tree that it packs
(`WorldGrows`). Each operation, and each tree that it leaves when it is cut short, has a lemma that it keeps `IsSound`,
which adds to this that the tree is finite, has the sandbox and has a directory above whatever exists (`IsRooted`).
`TreeIsWellFormed` holds because `rm`, `mv` and `cp` resolve a path before they compare it with the sandbox.
Resolution gives a path that may still have a link in it, a loop, and this is why `rm` and `mv` look at what is above.

*Requests that nobody has made yet.* `AliasesAgree`, `MoveIsReversible` and `RoundTrip` hold in every well-formed tree, so
`Inv` implies them, and no further invariant is needed. In `AliasesAgree` a write keeps all links where they are
(`WriteKeepsLinks`), so that every name resolves as before. In `MoveIsReversible` the links of the tree that moved lead
where they did, and those that lead into it dangle until it is moved back: what must be shown is that neither path of the
move back goes through one of them (`MoveBack`). `RoundTrip` needs that everything between the target and a member is a
directory of the archive's (`UnpackedProperties`).

*What a request has changed when it raises.* `ErrorsAreContained` also holds in every well-formed tree. Most operations
check before they change, and then all that can raise is the description of the result (`file_to_model`). What `mkdir`,
`cp`, `mv`, `upload` and `extract` have made is neither a loop nor a dangling link, so that it can be described
(`PlainIsDescribed`); that leaves `symlink`, and `mv` of a loop. A file that is written must be the target itself: a
path that can be written is resolved at once, also where `cp` resolves it twice (`WritableIsResolved`, from
`ResolvedAgain`). A path that leads into a loop may differ at each resolution, but always has a link in it.

*A request that is made again.* For `RetryIsHarmless` the second request must be followed through the tree that the first
one left. What `mkdir`, `upload`, `cp` and `compress` make is no link, so that all paths resolve as before and the same
is written again. The other operations change links. `rm` takes some away, `extract` puts new ones below a directory
that is new, and `mv` does both: `ResolvedWhenCleared` says that a path leads where it did, or to the place that was
cleared, where nothing is left. One case of `mv` is outside that lemma: `rename` replaces a link at the target, which
other paths may have led through. If a file has replaced it, the path may now lead to the file, and the move would be one
onto itself. If a link that leads back to itself has replaced it, the path may come to the link at its new place, and
then goes on along the old loop, to the place that is now empty (`ResolvedWhenRedirected`); that it cannot end in the
new link depends on which link of the loop the first walk had opened first.

*A request that was cut short.* `RetryFinishesTheJob` compares the tree before the request with the one that a cut
has left, each as the next request finds it, after a restart has written the test file. It
needs no more than `Inv`. What `upload`, `cp` and `compress` have left is a file at their target. Either it is the
test file, and the restart has replaced it, so that the second request finds what the first one would have found; or it
is still there, all paths lead where they led (`WrittenBeforeRestart`), and it is written over (`WrittenOver`, `cpWritesOver`,
`compressWritesOver`). For `cp` it matters that a copy which was to go into a directory goes there again, and for `compress` that
the archive is not among what it packs. `mkdir -p` has made some of the directories above its target; the test file is none of them, or the request would not succeed after a
restart without a cut either. `rm` has removed a part of what it was to remove (`rmCutProperties`), and the restart
writes the test file again: below that, where it goes with the rest, or beside it, where nothing was removed; and what
`rm` leaves does not depend on how much there was left to remove (`rmGoesOn`).

**Checked before proved.** TLC has checked `IInv` of `InMemoryStore`, `DemoSeed` and `TaskQueue`, `SerialInv`, `OrderInv`,
`SessionInv`, `ReachInv`, `LocateInv`, `DrawsInv` and `GeneratedLinksResolve` on the instances of the runs with these formulas as INVARIANTs; the
runs list the properties that the invariants are for.
Proof attempts have corrected this project in two points: an earlier property, that overlapping calls still run commands
in the order of the list, turned out to be false with five tasks; and the test file was allowed any path, with which
`RetryFinishesTheJob` is false.

**Only model-checked**: liveness (`LocksAreReleased`, `EveryRequestEnds`, `EveryTaskEnds`), since the prover handles no fairness
or ENABLED here. All safety properties and refinements of the passing runs are proved. The four violations of section 4
are counterexamples of TLC.

## 7. Not modelled

- The upstream package: the routes, `on_task`, the models, how cache key and body hash are computed.
- The canned answers of the compute adapter: data without behaviour.
- In the read-only adapters: amounts, dates, names and descriptions of the seed, the filters on them, the 304 answers
  of `get_site`, `get_resources_for_endpoint`, and a limit of 0.
- The authentication mixin: comparisons with constants.
- In the filesystem: modes, owners and sizes, glob characters in `ls`, a full disk and size limits, the
  timeouts of commands other than `rm` (they end at once or have none), `match_pattern` of compress (its `--include` is not an option of GNU tar), division of files into lines.
- The in-memory store in several processes: each has its own dict, and nothing is promised across them.

## 8. Plan

The order is by what is most likely to be wrong and hardest to test.

| Step | Content | State |
|---|---|---|
| 1 | `IdempotencyContract`, `RedisStore`, its invariant, safety and refinement proofs | done |
| 2 | `InMemoryStore` against the same contract | done, proofs in step 6 |
| 3 | `TaskQueue`, with and without a suspending filesystem adapter, and `TaskContract`, which it implements without | done, proofs in step 7 |
| 4 | `DemoSeed`, `Filesystem` with crashes and retries | done, proofs in steps 8, 10 and 11 |
| 5 | `DemoWorld` and `DemoApi`: the read-only adapters over one world, in one run | done, proofs in step 9 |
| 6 | Proofs for `InMemoryStore`: an invariant like `IInv` without WATCH, the safety properties, `Spec => ContractSpec` | done |
| 7 | Proofs for `TaskQueue`: what holds however calls overlap; without suspension, that the list holds every live task, at most one execution, and `Spec => ContractSpec` | done |
| 8 | Proofs for `DemoSeed`: its properties for any number of iterations | done |
| 9 | Proofs for `DemoApi`: pages, answers and the links of what is generated, over a world of any size, from the theorems about `DemoSeed` | done |
| 10 | Proofs for `Filesystem`: `realpath` as a recursive function, types, `TreeIsWellFormed`, aliases, moves and archives for trees of any size | done |
| 11 | Proofs for `Filesystem`: `ErrorsAreContained` and `RetryIsHarmless` | done |
| 12 | Proofs for `Filesystem`: `RetryFinishesTheJob`, operation by operation, with a restart or without | done |
| 13 | Proofs for `DemoApi`: `LinksResolve` in the whole world, `LocationsAddUp`, `AllocationsAreUsable` | done |
