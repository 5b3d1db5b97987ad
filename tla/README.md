# A verification of small-idea

`small-idea` is a collection of C++ libraries and tools. This directory holds
TLA+ models of the parts that keep state in ways that are hard to test, the TLC
instances that check them, and TLAPS proofs. Every definition is translated from
the source; `PROJECT.json` names the lines.

## 1. Inventory

| Part | State | Operations | What is hard |
|---|---|---|---|
| Thread pool and futures, `utility/src/async.{h,cpp}`, `future.h` | queue of tasks, running flag, threads inside the condition variable, result and ready flag of each promise | Startup, Shutdown, Run, ExpectRun, the worker's loop | interleavings, lost notifications, data shared without the lock |
| Step executors, `utility/src/step_excutor.{h,cpp}` | a tree of stations (queue of steps, stack of guards), parallel executors and functions | Step, Rollback, SubStep, Guard, AddStep, destruction | undoing exactly what was done, on every path of destruction |
| Pipe, `lua_script_function/src/queue_allocator.{h,cpp}`; as templates `utility/src/data_pipe.h`, `ring_buffer.h` | a ring of records with two positions and two counters | write, read, and the ends of both | steps of two threads, the seam of the ring |
| Weak pointers, `utility/src/weak_obj_array.h`, `weak_obj_ptr.h` | slots with serial numbers, a free list, an index in each object | Set, Reset, copy, construction and destruction of objects | reuse of slots and addresses |
| Shared objects, `utility/src/shared_obj_array.h` | reference counts and free list in one word, pointers inside objects | AllocObj, copy, move, Release, AddRef, UnRef | destructors inside of assignments, growth |
| Block allocators, `utility/src/detail/alloc_internal.h`, `serial_allocator.h`, `stacked_allocator.h`, `particular_allocator.h` | a chain of blocks, the current one, its fill | Alloc, Dealloc, Swap, Reset, Dissolve | boundaries of blocks, what Reset and Dissolve leave |
| Ordered containers, `utility/src/detail/_tree.h`, `scope_set.h`, `scope_map.h`, in a `particular_allocator.h` | a red-black tree with a head that stands for nil, a pool of nodes with a free list | insert (with a hint, too), operator [], find, erase at an iterator, of a key, of a range, clear, iteration both ways | rebalancing, nodes that must not move, the ends |
| Vectors and buffers, `scope_vector.h`, `scope_buffer.h`, `small_obj_storage.h` | an array in a caller's storage | insert, erase, push | boundaries |
| Intrusive helpers, `compact_list.h`, `ref_count_set.h`, `com_obj_ptr.h`, `scope_guard.h`, `singleton.h` | links and counts | add, remove, release | self-assignment |
| Logging and formatting, `logger.*`, `to_string.h` | none worth a model | | |
| xlua, `xlua/src` | a global array of exported objects with serials, per-state caches of user data, a weak table in the Lua registry | push and load of plain and shared pointers, alloc and free of indices, casts, `__gc`, release of states | objects that die in C++ while Lua refers to them, the collector between two steps |
| Lua script functions, `small-idea/lua_script_function` | reference counted scripts | load, call | |
| gcf compiler, `gcf/maker` | a tree of scopes, a stack of open scopes, the merged file, values of constants | begin and end of declarations, inheritance, look-up | types used before they are complete, hidden names, walks over recursive types |
| gcf runtime, `gcf/test/gcf/src/gcf` | a buffer shared by a C# and a C++ side, registered processors, streams, tables | call, respond, register, serialise, load | calls that nest over one buffer, modules that are gone |
| Timer, `gcf/test/test_cpp/KGTimerImpl.h` | wheels of timers | add, remove, advance | cascading, callbacks that change the wheel |
| Lua 5.3.5, jsoncpp | vendored | | |

The parts depend on each other little: step executors wait for futures of the
pool and allocate from a serial allocator; containers use the allocators; xlua
embeds Lua. The correctness properties are listed with the modules below, the
hazards (each at its line, with the properties that cover it) in `PROJECT.json`.

## 2. Modules

### AsyncPool and TaskService

`TaskService` says what the interface promises, without threads: tasks are taken
at most once and in order, only an expected task nobody waits for is passed
over, a future is ready when its task has been worked. `AsyncPool` is the code:

- `pc[s]` is the next statement of thread `s`, a worker or a client. `running`,
  `tasks`, `mutex`, `sleepers` are `running_`, `tasks_`, `mutex_` and the threads
  inside `condition_.wait`; `up` is `s_TaskPool != nullptr`.
- `BeginRun`, `LockPush`, `Push`, `NotifyOne` are Run and AddTask; `TestRunning`,
  `CheckEmpty`, `Sleep`, `SpuriousWake`, `LockPop`, `PopTask`, `WriteResult`,
  `SetReady` are the loop of a worker down to `AssociatedState::SetValue`;
  `Startup`, `BeginShutdown`, `NotifyAll`, `Join` are the owner's calls.
- A task that is worked may itself call Run: workers stand in AddTask too.
- A notification with no sleeper is lost and a sleeper may wake for no reason, as
  the C++ condition variable allows.

Assumptions: the unsynchronised reads of `running_`, of `tasks_.empty()` and of
`ready_` are single loads and stores stay in program order, as in the MSVC x86
build the repository is set up for (the race itself is listed as a hazard);
clients do not call Run while the owner is inside Shutdown (nothing could make
that safe: the pool is deleted); Shutdown is called by the thread that called
Startup. `Startup` waits for nothing and the model lets the new workers run at once.

### StepStation

A tree of stations, parallel executors and functions and the recursive calls
that walk it. `stack` is the call stack of Step (`"step"`), Rollback (`"roll"`)
and destructors (`"kill"`); each frame remembers how far it has come, so that
one action is one statement's worth of work between two calls. `queue`, `done`
and `guards` are `head_..tail_`, `step_` and the guard stack of a station,
`list` the vector of a parallel executor. `LeafStep` answers any status, also
Idle for a future that is not ready. History variables record which guards were
called and in which order (`called`), what failed (`broken`), and what a
parallel executor let go at its end (`erased`).

`CallStep` covers StepFor and StepEnd, which are loops of Step. Assumptions: a
step belongs to one container, which is its only owner, so that nobody adds to a
parallel executor that has been destroyed (`Gone`); guards do not call back
into the tree; a station is not stepped any more once it has stopped, as the
comment `step_excutor.h:3` demands.

### QueueAllocator

The pipe, load by load and store by store where the other side may look:
`_count` of the ring is loaded and stored separately, and the pipe's own atomic
`_count` changes in one step. Positions count words, a record is a word with its
size and that many words of data. A word of the pool shows what it was last
written with, so that reading a word as a size that is none is seen. There is a
single ring, as the code cannot link a second (`queue_allocator.cpp:169`); a
failed assertion stops the program (`halted`).

### WeakObjArray

Slots, serial numbers and the free list of `WeakObjArray`, the `ObjectIndex` of
each object and the index and serial of each `WeakObjPtrBase`. An object is an
address and the `life` it has there: addresses are used again. `target` is the
object a pointer was made for, which the properties compare with what the
pointer yields.

`WeakRefs` is the abstract view: a weak pointer refers to a living object or to
none, and lets go when the object is destroyed. WeakObjArray implements it, with
what `Get` yields as the abstract reference.

### SharedObjArray

One word per slot is the negative count or the next free index, as in the code's
union. Slot `i` also stands for the `SharedObjPtr` member of the object in it, so
destroying an object may destroy others: `dying` is the stack of destructors and
`todo` the assignment that waits for them. When the array grows, the objects are
copied in order and each copy counts its member's reference (`Moved`); that such
counts are too large from then on is a finding, and the properties are what
remains true. Assumptions: a client copies from a variable of its own, not from a
pointer inside an object that the assignment may destroy and not from the
destination; constructors of objects do not allocate others.

### AllocChain

The chain of blocks of `AllocCtrlChain`, used as a `SerialAllocator` (`Reset`,
`Dissolve`) or as a `StackedAllocator` (`Dealloc`, in the order of scopes). `cur`
is the control inside the allocator, `chain` the nodes behind it, `empty` the list
of `empty_head_`. A node holds whatever control it was swapped with, so a control
says which block it is for, and the block lies in the memory of the node of the
same number. `live` is what the clients hold. Assumptions: sizes are positive,
`Align` is at most what operator new aligns to (else a node loses the difference
and is never found suitable again), and memory is given back in reverse order.

### ScopeTree and SortedSet

`ScopeTree` is the tree of `_tree.h` on the nodes of a pool: `node` maps an
address to its links, colour and element, address 0 is the head (nil, whose
links are the root and the two ends), `freeList` is the list of the
`particular_allocator`. A call of `scope_set` or `scope_map` is one action that
rewrites the nodes in the order of the code (`Insert_at` with its rotations, `erase`
with the successor linked into the place of the node and the balance after it, the
search for the place of a hint). A loop of the code is the function of one turn
(`InsertTurn`, `EraseTurn`), which leaves alone where the loop stops, and `Loop`
repeats it `Capacity + 1` times; that every loop has stopped by then is part of the
proofs. The recursion of `Erase` in `clear` is `Walked`, for trees a turn deeper with
every turn. Left and right are a parameter where the code is written twice.
`SortedSet` is what the user is promised: a set of bounded size, and with each
call the element found or led to and whether the set changed. Assumption: nothing
is inserted into a full tree.

### CrossCall

Calls between the C# program and the C++ library of the gcf tests, over the one
buffer both sides see. `mem` and `ds` are its words and its header, `station` the
mode and the positions of each side's swap buffer, `procs` the processors that are
registered, `stack` the responders in progress: a call runs the responder of the
other side on the same thread, and that one may call back and overwrite the buffer
before it answers. `Call` is BeginCall, the fields, EndCall and OnCall up to the
responder, `Return` the answer and what the requester reads of it, `CallNobody` a
call to a module that is not registered. The C# side is modelled with the
differences its sources have (its reader stops at the end of the buffer, its
writer prepares the header).

A message is a sequence of pieces, each what one Write puts into the stream: a
number, a length, or the text behind its length. What does not fit is left out by
the C++ side in silence, the content of a text whose length did fit as well. A C#
writer ends the program there (`GoesOn`), a C# reader where a number runs short;
but of a text it reads what is left of the buffer and goes on. A C++ reader leaves a
variable it cannot read as it is (`Junk`) and cuts a text at a NUL. So `ParamsAreOwn`
and `AnswerIsOwn` say what arrives but for two kinds of text (`Came`), and
`TextsArrive`, that everything does, is wrong. Calls that end the program are no
steps: what was sent by then reaches nobody.

### GcfContext

What the gcf compiler does with each declaration the parser accepts: the scopes
that are open (`stack`, the code's `_stackScope`), every element with its owner,
base, variables and whether its owner knows it by name (`elems`), and the merged
file (`merge`). Actions are the handlers of `Context.cpp` (`OnNsBegin` ...
`OnVariate`), look-up is that of `Scope.cpp` through what is inherited and through
the owners, `WalkFailures` is the recursion of the checks at the end of a
struct: it says which way of dying the walk can meet. Left out: values and
constants, attributes, descriptions, files that are included.

### ObjectBridge

How xlua shows objects to Lua. The first half is the global object array of
`detail/global.cpp`: slots, serial numbers, the free list, and the light user data
that Lua holds (`lights`), which names a slot and a serial. The second half is the
cache of shared pointers of `detail/state.h` and `xlua_state.*`: full user data
(`uds`), the cache by object (`cache`) and the weak table in the registry with the
reference lists of `luaL_ref` (`table`). Casts refine the recorded type. Lua's
collector (`lgc.c`) clears the weak entries of the user data it finds dead and calls
their `__gc` later, newest first, and the program runs in between; so
`PushSharedPtr` may happen between `Collect` and `Gc`, and then it answers nil, or
another object's user data once `luaL_ref` has given its reference out again
(`doubled`). `PushAnswersOwn` says what holds up to that point, `PushFinds` that a
push always answers the object's own, which it does not.

`Copy` makes an object from another, as a by-value push or load of an exported class
does too. The copy constructor of its index writes nothing (`xlua_def.h:135`), so the
index is whatever the memory held: the constant `Garbage` says which values that can
be. With a 0 among them `LightIsExact` is wrong; what is proved of the object
array is proved for copies that say "no slot" (`CopiesAreFresh`). An index outside of
the array is undefined behaviour and not followed. A collection inside of
`lua_newuserdata` is the same as one right before the push.

In the default build only a class for which `IsInternal` holds goes through the
object array, and as written that is no class (a finding, `traits.h:28`); the model
is of what the rest of the code does for a class that declares itself with
`XLUA_DECLARE_CLASS`.

## 3. Runs

| Run | Bounds | What it shows |
|---|---|---|
| `async` | 2 workers, 2 clients, 2 tasks of which 1 expected | no interleaving works a task twice, loses one, or shows half a result; nothing is left when Shutdown returns; TaskService is implemented; a queued task is taken as long as some worker is awake, or once a notification finds one asleep |
| `async_shutdown` | 1 worker, 1 client, 2 tasks | **violation**: the notification of Shutdown may be lost, and join waits for ever |
| `step` | 1 root, 2 stations with functions, 1 parallel executor, 2 guards, 1 Busy or Idle answer | undo is exact, in reverse order and complete on every path; StepEnd returns |
| `pipe_one` | ring of 11 words, 8 messages of 2 words, one thread | first in, first out, around the ring more than once |
| `pipe_two` | the same with a reader and a writer, 3 messages | **violation**: the message is counted before it is in the ring |
| `weak` | 3 addresses with 2 lives, 2 pointers, array growing by 2, 4 serials | a pointer yields its object exactly while that object lives; no slot is lost or shared; WeakRefs is implemented |
| `shared` | 2 variables, 4 slots, array growing by 2 | objects never die too soon, through nested destructors; the free list is exact |
| `alloc` | serial with a default pool of 5 or none, and stacked; blocks of 6, sizes 1, 4 and 7 rounded to 2; 3 nodes, 5 pieces | memory in use is apart and inside living blocks; every node and block is kept once; the stack finds its way back through the blocks |
| `scope_set` | 8 elements, a pool of 8; states that differ only in the addresses of nodes are one (`VIEW Shape`) | links, colours and order of every tree that calls can build; no element moves to another node; SortedSet is implemented |
| `cross_call` | a module on each side, 8 messages, 4 of which do not fit, buffer of 8 words, 5 calls, 3 deep | responders run with their own parameters, requesters get their own answer, whatever nests in between, but for a text at the end that did not fit and one with a NUL |
| `gcf_context` | 2 names, 4 declarations of which 3 scopes | bases are complete; only a member of an open struct puts a struct within itself; the merged file nests as the scopes did |
| `xlua` | 2 addresses, 2 objects, array growing by 1, 3 user data, copies without a slot | light user data leads to its own object or none; types are true and only refined; `__gc` finds its entry; an entry of the cache leads to its own user data, or to nil between the collector's two steps, until a reference is given out twice |

The bounds let each interesting case happen: two workers race at the queue while a third
party adds; an expected task is in front of and behind another; a station sits in a
station and in a parallel executor; the ring of 11 words leaves a gap of two words at
its end so that the mark is needed; the weak array grows twice and every slot and
address is used again; the shared array grows while its objects are linked, and
destructors nest four deep; three blocks are in the chain at once, of two sizes, and are
used again in another order; trees of eight elements have three levels below the root,
and meet every case of the balance that a valid tree has; requests and answers end
before, at and behind the last word of the buffer and a nested call overwrites all of
it; three scopes are enough for a struct in a struct that inherits and for a namespace
opened twice; with three user data one object is pushed again, or another gets its
reference, between the two steps of a collection. `MaxGuards`, `MaxWaits`, `MaxSent`,
`MaxSerial`, `MaxLife`, `MaxSlots`, `MaxNodes`, `MaxLive`, `Capacity`, `MaxCalls`,
`MaxDepth`, `MaxScopes`, `MaxDecls`, `MaxObjects` and `MaxUds` bound what would
otherwise grow without end; two guards are enough to tell an order. Deadlock is not
checked where the bounds or the user stop everything, or C# ends the program: in
`cross_call`, `gcf_context` and `xlua`. (A `gcf_context` state is also final when the
compiler has died.)

Every violation is listed under `findings` with the line of the repository it
contradicts. So are disagreements met while modelling which no run needs to show: the
pipe overwrites unread records when sizes are mixed (`queue_allocator.cpp:67`), growth
of the shared array leaks counts and the tail of its free list passes for an object
(`shared_obj_array.h:54`, `:20`), a struct may have a member of its own type
(`Utility.cpp:246`), no class counts as internal (`traits.h:28`), a text with a NUL is
cut (`SerBinary.cpp:66`), and xlua.Cast answers nil after it has cast light user data
(`xlua_state.cpp:148`; the model has the change of the type and leaves out the answer).
The claims the code does not keep are stated next to what it keeps, and TLC finds a
counterexample to each within the bounds of the run when it is added to the run's cfg:
`QueuedIsTaken` (a notify_one that finds nobody asleep while a worker is on its way into
the wait, `async.cpp:94`), `TextsArrive` (a text that C++ left out, or cut at a NUL,
`SerBinary.cpp:126`, `:66`), `PushFinds` (nil for a push between the collector's two
steps, `xlua_state.h:411`), `CountsAreExact` and `ValidHoldsObject`; and to
`LightIsExact` with `Garbage <- Zeroed` (a copy that gives back the slot of another
object, `xlua_def.h:135`). The runs state what holds all the same: `AwakePoolDrains`
speaks of a pool in which a worker is awake, `NotifiedPoolDrains` of one in which a
notification finds a worker asleep, `pipe_one` uses one size, `CountsSuffice` lets
counts be too large, `OverflowNeedsOpenMember`, `PushAnswersOwn`, `ParamsAreOwn` and
`AnswerIsOwn` name the condition under which things go wrong. Each property of a passing
run has a mutant: a plausible mistake in one action, defined next to it, that the run
detects.

Fairness. `AsyncPool`: a thread keeps executing (weak fairness), and a thread
that waits for the mutex gets it if it is free again and again (strong fairness,
what an operating system's mutex gives in practice); clients need not call
anything, and no spurious wake-up may be relied on. `StepStation`: the user of
StepEnd steps as long as the station has not stopped, calls under way proceed;
functions answer Busy or Idle at most `MaxWaits` times, that is, futures become
ready. No other run needs fairness.

## 4. Proofs

Each proof module proves for every value of the constants, from the assumptions
of the module it extends alone. Its inductive invariant is kept by one lemma per
action.

`ExecutorProofs` has two parts, which share no state. About `AsyncPool` it proves,
for every set of workers, clients and tasks:

- `Invariance`: `Spec => []IInv`;
- `TypeCorrect`, `AtMostOnce`, `ReadyIsComplete`, `QuiescenceAfterShutdown`: the
  invariants of run `async`;
- `NothingIsLost`: its action property;
- `ImplementsService`: the pool implements `TaskService`.

The inductive invariant adds to the checked ones what the code relies on without saying:
which statements may hold the mutex and that its holder is at one of them (`MutexInv`),
that sleepers are exactly the threads at the wait (`SleepInv`), where local variables
are set (`LocalInv`), that a task in the pool was issued (`IssuedInv`), that a task
being added has its future held (`HeldInv`), and what can be going on when there is no
pool, or while Shutdown joins (`DownInv`). Without the first, two threads could pop the
same task; without the last a worker could be left when `s_TaskPool` is deleted.

About `StepStation` it proves, for every tree of stations, parallel executors and
functions, `StationTypes` (the type invariant, which no run checks), `DestroyedEmpty`
(`DestroyedIsEmpty`), `UndoneInReverse` (`UndoInReverse`) and `UndoneExactly`
(`UndoIsExact`), that is every safety property of its runs. The invariant `StationInv`
says what is where (`HomeInv`) and who can be on the call stack with whom: each call was
made by the container of its step, but for a rollback just before the destruction of the
same step (`Nested`); no step is in two calls otherwise (`AtOnce`); below a call of Step
there are only calls of Step (`StepsBelow`), so that a function that adds steps to its
station cannot add to one that is rolled back or destroyed; who waits for the answer of
a step has it still (`ChildInv`); and a station that is destroyed has nothing in its
queue, or its own rollback is on top of it (`KillInv`). That a step to be called is in
no call yet needs no induction over the tree: its caller would be on the stack twice.
The lemmas `Calls`, `Returns`, `Continues`, `Undoes` and `Spends` say how the five
things that happen to the stack keep this, and every action is one or two of them.

`UndoneInReverse` relates the order in which guards were armed to the places of their
steps in the tree. The tree is spoken of through `Up` alone: what is above a step is a
line with one end (`AboveLinear`, `OneEnd`), so that a step is within at most one member
of a container (`OneMember`). The invariant `UndoInv` says that each caller on the stack
is above what it calls (`CallersAbove`); that of the steps of a station the completed
ones armed their guards before the one under way, each before the next, and what is left
of the queue has armed none (`Ordered`, `Latest`), also as seen from a step that was
taken out and is in a call (`ActiveInv`); that the function of a station is its first
step and armed what it did before the steps it added (`BodyInv`, `InnerLater`); that the
guards a station holds are its own, not yet called, with falling numbers (`GuardInv`);
and that a step that is in no container any more has nothing left or is being destroyed
(`TakenOut`). When a guard is called and another one waits in a station that is not on
the stack, `Climb` goes up from that station to the first container that is on it, where
`CalledInOrder` compares the two members by the invariant. `OrderGuards` and
`OrderHouses`, for arming a guard and for adding a step, are where the order is
established; all other actions only take away (`OrderSpends`, `LetGo`).

`UndoneExactly` says which guards have been called when the tree is gone. The property
speaks of the end alone; its invariant `ExactInv` has to decide earlier. The guards of a
station are *doomed* (`Doomed`) once something around it broke and everything between
the two that a parallel executor may still let go is above what broke; they are *spared*
(`Spared`) once something around it was let go in which nothing broke, or the root died
unbroken. Both stay once they hold (`DoomedStays`, `SparedStays`), and `GuardsExact`
says that a guard called is doomed, and one not called is still held or is spared. That
the calls do the right thing is `CallsExact`: a station is rolled back only if its
guards are doomed or it never armed any (`RollAt`), and one that is destroyed rolls
itself back and is doomed, or has nothing left, or is spared (`KillAt`). Five facts
support it: what broke is out of its container, or the container breaks with it
(`BrokenInv`), and is not stepped again; what was let go is out for good (`LetGoInv`); a
completed step did not break and has nothing but what the user added since (`DoneInv`),
which is why a station that did everything may be destroyed without a rollback; the
answer on top of the stack is that of the step it is taken for (`AnswerKept`, `Listed`),
which ties `Failed` to a broken step and `Completed` to an empty one; and the phase of
the root fits the stack (`PhaseInv`). At the end the root is empty, so nothing that was
ever in it has a guard left (`NothingHeld`), and every guard is on one side. `UndoExact`
and `StepKept` state what an action that undoes, or steps, has to show; `HousedExact`
and `GuardExact` are where fresh steps and guards come in. TLC found no counterexample
to `ExactInv` on the trees of run `step`, nor on those with two parallel executors,
before it was proved.

`ContainerProofs` has two parts as well. About `WeakObjArray` it proves, for every set
of addresses and pointers and any growth: `Invariance`, `TypeCorrect`, `Exact`
(`PointersAreExact`), `OneUse` (`SlotsHaveOneUse`) and `ImplementsWeakRefs` (the
refinement of `WeakRefs`), that is all of run `weak`. A pointer is exact because a
serial number is never given out twice: the invariant says that numbers in slots and in
pointers are at most the generator's, that a living object with an index has its own
slot and the slot points back, that the free list leads from free slots to free slots
and never twice to one, and that a pointer whose serial is still in its slot was made
for the object that has the slot now. For `OneUse` the free list has to reach every free
slot: `ListInv` says that any set that has its head and, with a slot, the next one, has
all of them, which a step changes by one slot; that the walk of the property is such a
set is shown at the end (see "Walks" below).

About `ScopeTree` it proves, for every set of elements and any size of the pool, all
of run `scope_set`: `TreeLinksAgree` (`LinksAgree`), `TreeIsRedBlack` (`RedBlack`),
`TreeIterationIsSorted` (`IterationIsSorted`), `TreeElementsStay` (`ElementsStay`) and
`TreeIsSortedSet` (the refinement of `SortedSet`). The invariant `TreeInv` says that
the nodes in use are a red-black search tree (`Sound`) and that the free list has the
others, each once (`Lists`). A tree is described without recursion, by what is under
each node: `Tree(n, U, D)` says that the nodes `U` of the pool `n` are linked both ways
and that there is a function `D` with `D[x]` the node `x` and what is under its two
children, smaller ones left and greater ones right. Black heights are a function `h` in
the same way (`Colored`). The argument has four layers:

- walks (`OutermostIs`, `SteppedIs`, `LboundIs`, `DescendIs`): where a loop that goes down
  or up ends, from the order of the keys alone;
- links (`RotateTree`, `LinkTree`, `CutOutTree`, `RenameTree`): a rotation, a new leaf, a
  node cut out and a successor in another's place each give a tree again, with the `D`
  that belongs to it; the code's order of assignments comes in where their effect is
  stated (`RotateIs`, `LinkIs`, `CutLeafIs`, `CutInnerIs`);
- balance: between two turns of `Insert_at` the tree is right but for one red pair
  (`Unrest`), between two turns of `erase` the ways through one node lack a black node
  (`Lacks`), and in both the nodes that are not under the place of the repair get fewer with
  every turn, which is why the loops end. Each turn keeps this or ends it (`InsertTurnIs`,
  `EraseTurnIs`, with the cases `Upward`, `Inward`, `Outward`, `StepUp`, `BorrowedIs`);
- calls (`InsertKeeps` and the like): each keeps `TreeInv` and adds one element or
  removes some, without touching the other nodes' elements. `ElementsStay` and the
  refinement follow from that.

That the sibling of a node that lacks a black one is never nil (`SiblingIs`) shows the
branch for it, `_tree.h:436`, to be dead. `RedBlack` and `LinksAgree` are stated with
walks of their own; that these compute what the invariant says is `HeightsAre` and
`OutermostIs`.

`ObjectBridgeProofs` proves, for every set of objects and any number of user data, all
of run `xlua`. The object array and the types need the assumption of that run, that
copies are made without a slot (`CopiesAreFresh`, stated in the theorems and not assumed
by the module): `Invariance`, `LightExact`, `InfoTrue` and `InfoRefined` begin with it.
Their invariant `IInv` has the same core for the slots as that of `WeakObjArray`
(`ObjInv`, `SlotInv`, `FreeInv`, `LightInv`; light user data carries the serial). The
cache does not depend on the array: `EntryFound` and `PushAnswered` (`PushAnswersOwn`)
hold for any `Garbage`, from the invariant `OwnersInv` alone. It says that a user data
owns a living object until it is finalised, and the cache entry of that object is its
own (`UdInv`, `EntryInv`): as long as the entry exists no second user data of the object
is made, which is why `Gc` need not test what it finds. For `PushAnswered` the
references into the weak table come in (`OwnInv`), up to the moment luaL_ref gives out
one that an entry still has (`doubled`): those given back are an enumeration that
`luaL_ref` takes from at one end, none of them is in the cache, no two entries of the
cache have one reference, and a value is under it from the push to the collection.

`GcfContextProofs` proves, for any names and any number of declarations, all of run
`gcf_context`: `InheritanceFinal` (`InheritedIsFinal`), `MergeFollows`
(`MergeFollowsScopes`) and `OverflowNeedsOpen` (`OverflowNeedsOpenMember`). Every
action either appends an element
owned by the innermost scope or changes the innermost scope only (`Grows`,
`Edits`); the invariant says that the open scopes stand on Global, which is never
closed, and that nothing inherits from an open scope. `MergeInv` says that scopes
are opened in the order of their numbers (`NestInv`), that each element is written at
most once and in its turn (`OrderInv`), that a namespace is open in the merged file as
long as its scope is (`NsInv`), and that the types of a namespace are written into it
and those of a struct are not (`TypeInv`).
`OverflowNeedsOpen` is about any path of members from a struct back to itself. Its
invariant `RankInv` says: as long as no member was declared with an open type, there
is a numbering of the closed structs in which each has only lower ones within it;
a struct that is closed gets a number above all the others.

`CrossCallProofs` proves, for a buffer of any size, any modules, any messages (such as
do not fit, too) and any depth of calls, `AnswersAreOwn` (`AnswerIsOwn`) and `ParamsOwn`
(`ParamsAreOwn`), that is all of run `cross_call`, with the two exceptions that `Came`
makes. The argument is that an answer, or a request, is written and read again without a
call in between, so that the invariant need not speak of the buffer at all, and that
both sides read from the front what the other has put there. For pieces of any number
and sizes, `PutsAll` says that each one that ends within the buffer stands behind the
sum of the sizes before it (`WordsOf`) and that no later one disturbs it, and
`GetsFitting` that a reader passes the same places as long as they fit. The first piece
that does not fit (`FirstShort`) can be met only by a C# reader that goes on; it is a
text, of which the reader takes what is left of the buffer, so that nothing with words
in it can come behind it (`ShortIsLast`). `Transfer` puts this together for requests and
answers of both sides.

`QueueAllocatorProofs` proves, for a ring of any size and messages of any sizes and
number, that a pipe used by one thread (`OneThread`, the case of run `pipe_one`)
keeps its counters (`CountsOfOneThread`). The invariant says how far the two counters are
apart at each place the thread can be.
`FifoOfOneThread` proves that such a pipe is first in, first out (`PipeIsFifo`) if all
messages have one size (`OneSize`); with two sizes it is not, see the findings. Its
invariant `FifoInv` sees the ring as a circle of as many slots as records fit: the
records in it lie in consecutive slots from the reader's to the writer's, either
`Flat` or `Wrapped` around a mark, and word for word as they were sent.

`AllocChainProofs` proves, for any alignment, block size, sizes asked for and number
of nodes, all five properties of run `alloc`, and `TypeCorrect`, the type
invariant, which no run spends time on any more. `NodesHaveRoom`
(`AllocSucceeds`) rests on the arithmetic of `AlignSize` (`AlignSizeBounds`,
`AlignSizeMono`, from Euclid's division) and on the fact that every node in the empty
list has nothing cut. `StackUnwinds` (`DeallocFindsTop`) and `StackComesBack`
(`UnusedStackIsFresh`) need the invariant `Tiled`: the buffers in use, oldest first,
fall into consecutive groups, one for each control from the bottom of the chain to the
current one, none of them empty; each group fills its block from the start to what is
cut from it without gaps, and the control at the bottom is the one without memory.
`TilePush`, `TileEnter` and `TilePop` say how allocation in the block, in another
block, and release change the groups. `BlocksKept` (`BlocksAreKept`) says of the two
lists of nodes, as sequences without repetition, that together they have every node and
every block once (`Kept`); `PiecesApart` (`LiveIsApart`) that what is handed out ends
before what is cut and that two pieces of one block do not overlap (`LiveInv`).

`SharedObjArrayProofs` proves, for any variables, any growth and any number of slots,
`TypeCorrect` (the type invariant, which no run checks), `EnoughCounted`
(`CountsSuffice`), `PointersLive` (`NoneDangles`) and `FreeListExact`
(`FreeListIsExact`), that is all of run `shared`. Its invariant says: the free list is
an enumeration of the free slots that follows their words (`Linked`); the word of an
object is 0 exactly from the moment its destructor begins, which happens once
(`DyingInv`); the references counted are at least the pointers (`CountInv`); and, for an
assignment to a pointer inside an object, that the objects on the way to it stay while
destructors run: there is a set of them in which each has a pointer to it, from a
variable or from another of the set, other than the one assigned to (`Anchors`, in
`TodoInv`). Without the last the destination of an assignment could be destroyed before
it takes its new index. `ReachableIsAnchored` gets that set from `Reachable`, which is
stated as the least closed set so that no induction is needed; `PointedTo` turns counts
into the fact that an object with a second pointer survives the loss of one. That the
counts after a growth still suffice is `MovedIsLess`. It is assumed that variables are
finitely many and are not numbers.

Walks. Three of these properties walk: along a free list, through a graph of
types, over the fields of a request. The walks are recursive functions on numbers, and
the induction theorems of the library cannot be cited by the provers, since they take
an operator. `Induct` (a set of numbers with 0 and with every successor is all of
them) is proved instead from the well-foundedness of `<`, by a smallest counterexample.
It gives, by `SumIs` and its like, the equations of the recursive function, and then
what the walk has seen after n steps.

Only model-checked: liveness (`AwakePoolDrains`, `NotifiedPoolDrains`,
`StepEndReturns`), which is out of the prover's reach.

## 5. Plan

Done: every module above, in this order: AsyncPool with TaskService and proofs,
StepStation, QueueAllocator, WeakObjArray, SharedObjArray, AllocChain, ScopeTree
with SortedSet, CrossCall, GcfContext, ObjectBridge, WeakRefs, and the proofs of
WeakObjArray, ObjectBridge, GcfContext, CrossCall, QueueAllocator,
AllocChain, SharedObjArray, StepStation and ScopeTree, for all safety properties of
their runs.

Left, in the order of what it would add:

1. Abstract specifications: a FIFO channel for the pipe of one thread; an undo log
   for StepStation.
2. Composition of StepStation with AsyncPool: a step that waits for a future of a
   pool that is shut down.
3. The values of constants in gcf's Context (a sum type with checks), and the
   life of xlua states with their references to Lua objects.

## 6. Not modelled

- Most of the repository by lines is vendored (Lua 5.3.5, jsoncpp), generated
  (the bison and flex output of gcf), text generation (the exporters of gcf and
  its table and JSON writers, which walk a finished tree and print), or templates
  that only compute types (the export templates of xlua, `to_string.h`). None of
  these keeps a state that a model could tell more about than the code does; the
  share of all lines that the models stand for is small for that reason.
- gcf: values and constants, attributes, files that include others; the text
  format and the tables of the runtime, which are read and written sequentially.
- xlua: values, raw and weak pointers, references to Lua tables and functions,
  states that are closed.
- Startup and Purge of the two object arrays; moves of trees and of allocation
  chains, which do not compile when used (`_tree.h:52`, `alloc_internal.h:121`).
- Vectors, buffers and intrusive helpers: sequential, one owner, short. Logging
  and formatting. Lua script functions, whose count is read uninitialised.
- The timer, which no program includes.
- xlua: the answer of `xlua.Cast`, Lua's emergency collection when memory runs out (it
  clears the weak table and leaves the `__gc` for later, as every collection does), a
  garbage index outside of the object array.
- gcf: the list of bases of a struct (`parser.y:169`) is reduced to one, and two checks of
  it (`Context.cpp:324`, `:330`) are left out: only error messages differ.
- Trees: the comparisons of an insertion with a hint that `operator []` cannot fail, since
  its hint is the lower bound (`_tree.h:614`, `:619`, `:622`, `:630`), and the erasure of
  the empty range at the end.
- Memory orders weaker than program order; serial numbers and ids that wrap.
