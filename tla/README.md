# TLA+ models of cpp-dsa

cpp-dsa is a collection of C++ programs: the low-latency building blocks of
`low_latency_chap_4` (a lock-free queue, a logger, a memory pool, a thread
launcher, non-blocking sockets), the threading examples of `concurrency`, the
data structures of `array`, `linkedlist`, `bst`, `avl_tree`, `heap`, `trees` and
`string`, and the algorithms of `algorithm_strategies`, `graph` and
`backtracking`.  Each file is a program of its own; the only code two of them share is
the class LFQueue, which `logger.cpp` repeats.

This directory holds TLA+ models of the parts that keep state, configurations
that check them with TLC, and proofs that TLAPS checks.  `PROJECT.json` lists
which definition stands for which lines.

## The system

| Component (source) | State | Operations | What makes it correct |
|---|---|---|---|
| LFQueue (`lfqueue.cpp`, `logger.cpp`) | a ring of slots, a write index, a read index, a count; the last three atomic, the slots not | write into the next slot, publish it; read the next slot, release it; size | one producer and one consumer never touch one slot together; what is read is what was written, in order; the count never goes below zero |
| Market data program (`lfqueue.cpp`) | an LFQueue, a loop counter | `main()` pushes ten updates and joins, `consumer()` reads until it finds nothing | order, no duplicate, no shared slot, and the join returns |
| Logger (`logger.cpp`) | an LFQueue, `running_`, the file, a thread | constructor, `pushValue()`, `flushQueue()` on its own thread, destructor | the file is what was logged, in order, and complete when closed; the destructor returns |
| Logger::log (`logger.cpp`) | a position in the format and in the arguments | one character or one argument at a time | aborts exactly when placeholders and arguments do not match |
| MemPool (`mempool.cpp`) | slots with a flag, a free count, the index of a free slot | `allocate()`, `deallocate()` | every legal call is served with a slot nobody holds, every illegal one aborts |
| Thread launcher (`multithread.cpp`) | two flags on the stack of a call, the handle | `createAndStartThread()`, the new thread's body | everything the body refers to still exists when it does; a null handle is a thread that is gone |
| Socket creation (`socket.cpp`) | the descriptors of sockets, server and `createSocket()`, the kernel's table | `createSocket()`, `connect()`, `listen()`, destructors | every descriptor is held once and closed once |
| TCP sockets and server (`socket.cpp`) | sockets, three buckets of ready ones, send and receive buffers, the kernel's queues and edge-triggered events | `poll()`, `sendAndRecv()`, `send()`, the callbacks | no bucket holds a deleted socket; no event is missed; what is sent is echoed |
| Condition variable (`condition_variable.cpp`) | the pass, a mutex, a condition variable | `chef()`, `waiter()` | no lost wakeup, dishes in order |
| Atomic and mutex counter (`atomic.cpp`, `mutex.cpp`) | a counter, a mutex | increments on several threads, joins, the print | no increment is lost |
| Search trees (`bst_adt.cpp`, `avl_tree_adt.cpp`) | a binary tree | `insert`, `del`, `search` | order, the right keys, balance |
| Linked list (`linkedlist_adt.cpp`) | nodes on a heap that several lists may reach | thirteen calls | no call reaches a deleted node or another list's |
| Array (`array_adt.cpp`) | a block of cells, a length | shifts, searches, merge, union, intersection | the right cells move |
| Circular list (`circular_ll.cpp`) | nodes on a heap, `head` | constructor, `insert`, `del`, `length` | the last node points at `head`, no node is lost |
| Heap (`heap_adt.cpp`) | an array | `create_heap`, `heap_sort` | order between parents and children, no element lost |
| Binary tree (`binary_tree.cpp`) | the tree, the queue of nodes to ask for, what was entered | `create_tree`, six walks | what is entered for a node becomes its child; each walk meets every node once in its order |
| Strings (`string_adt.cpp`) | a char array with a Nul | length, cases, words, reverse, equals | right up to the ends of the array |
| Greedy algorithms (`kruskal.cpp`, `prim.cpp`, `dijkstra.cpp`) | disjoint sets; `near`; `d` and what is selected | one call each | the sum of the best steps is best |
| Graph traversals (`graphs.cpp`) | a queue; a static array of visited vertices | `BFS`, `DFS` | every vertex that can be reached, once, in the right order |
| Backtracking (`permutations.py`, `rat_maze.py`, `sudoku.py`) | what is chosen or marked so far | one call each | every solution once; what was marked is unmarked |

How they interact: in LFQueue's two programs the threads share the queue
through three atomics and no lock.  The logger's destructor waits for the
queue, sets a flag and joins.  The launcher and the thread it starts share two
atomics and the caller's stack.  Server and clients share the kernel.  Chef and
waiter share a mutex and a condition variable.  All the rest is called from one
thread.

Hard behaviours: every interleaving of two threads without a lock (LFQueue,
Logger), an index fetched before a size that is tested after it (Logger), a
scan that is skipped in one case and repaired in another call (MemPool),
lifetimes on a stack across threads (launcher), edge-triggered events that are
reported once (sockets), spurious wakeups (condition variable), and long
sequences of calls on linked structures (lists, trees).

Not modelled, and why:

- `getIfaceIP()`, which looks up an address and changes nothing.
- `thread.cpp`: each worker prints one line under a mutex, the pattern of
  MutexCounter with nothing shared but the stream.
- `basics`, `intermediate features`, `array.cpp`: examples of the language that
  keep no state from one statement to the next.
- Benchmarks, printing, time stamps.  Within a modelled component what is left
  out is said at the head of its module.

## Modules

Abstract specifications, which name what users expect without the mechanism:

- `Fifo`: a channel that delivers what was sent, once, in order, and is closed
  only when empty.
- `Pool`: a set of slots; a legal call is served, an illegal one ends the
  program.
- `SeqList`: sequences, one per list object.  Its `Merge` says exactly what
  `merge` keeps and loses.
- `AtomicCounter`: the threads of `atomic.cpp`, each increment one step.

Models of the code:

- `LFQueue`: the class, as operators.  `store_`, `next_write_index_`,
  `next_read_index_`, `num_elements_` are the members.  Publishing and
  counting are two operators, because `updateWriteIndex()` and
  `updateReadIndex()` touch two atomics one after the other.
- `Logger` EXTENDS LFQueue: `mpc` and `lpc` say where the main thread and the
  logger thread are; there is one action per access to something shared
  (`PushWrite`, `PushAdvance`, `PushCount` are the three halves of a
  `pushValue()`; `FlushFetch` and `FlushSize` are the two operands of the for's
  condition, in the order in which the code evaluates them).  `pushed` is a
  history variable.  The whole destructor is there: `Drain`, `Stop`, `Join`.
- `LogFormat`: the walk of `log()` over the format string and the arguments, from
  both to what is pushed and whether the call returns.  The walk is a function of
  the number of rounds (`Walking`), and one round of it `WalkRound`.
- `MarketData` EXTENDS LFQueue: `main()` and `consumer()` of `lfqueue.cpp`,
  with the same split of the updates.  A sleep only lets time pass.
- `MemPool`: each call is one action, with every ASSERT; a pointer is an index
  that may lie outside the vector.
- `ThreadStart`, `MCThreadStart`: `alive[k]` says whether what call k has on the
  stack still exists; `Thread(k)` is the body of the lambda, `Main` the function
  and its caller.  The MC module has the three calls of `main()`.
- `TCPEcho`: `Poll`, `Accept`, `AcceptEnds`, `ServeBegins`, `Serve`,
  `ServeEnds` are the server's loop, `Connect`, `ClientSendAndRecv`,
  `ClientClose` the clients, `Push` a message the server's owner stages.  The
  kernel (byte queues, accept queue, `edge`) is external and modelled by what
  the calls show of it: `accept()` may fail with connections still queued
  (`AcceptEnds`), `epoll_add()` may fail for an accepted socket (`unwatched`), and
  a send is taken as far as there is room (`Accepted`, `WireCap`).
- `SocketSetup`: how sockets and server come by their descriptors.  `TryAddress`
  is one round of `createSocket()`'s loop with each way it can end, `Listen` and
  `Listening` are `TCPServer::listen()` before and after it, `Connect` and
  `Connected` a client's `connect()`.  The kernel's table of descriptors is
  external.
- `TCPProgram` composes the two: any calls of SocketSetup first, and TCPEcho from
  the moment in which a server is up.
- `Threads` composes the four programs whose threads end by themselves,
  MarketData, ThreadStart, Kitchen and MutexCounter: a behaviour is a run of one
  of them (`program`), with that program's fairness.
- `Kitchen`: `chef()` and `waiter()`.  A wait releases the mutex and sleeps in
  one step, and may end by a notification or spuriously.
- `MutexCounter`: `++count_` is `Load` and `Store`, under `mtx_`.
- `BinTree`, `BST`, `AVL`: trees as values, the operations as recursion on the
  subtree a pointer reaches.  A function of the code that calls itself is a TLA+
  function of the number of levels its tree may have (`AVLTree_dels[n]` for
  `AVLTree::del` on trees of n levels), because the proofs cannot use a RECURSIVE
  operator.
- `BinaryTree`: `create_tree` is a dialogue, so it has one action per number
  that is entered (`EnterRoot`, `EnterLeft`, `EnterRight`); between two of them
  lies what the code does up to the next `cin`.  A node is the path that leads
  to it.  The walks are the code's recursions, as functions on the places of the
  tree, and its loop, as a function of the number of rounds.
- `SearchTrees` composes the four: one object of any of the three programs, and
  every call its caller may make.
- `Nodes`: the heap of nodes that both lists are made of, and their loops.  The
  pointers of a loop are a function of the number of rounds (`Rounds`), which are
  never more than there are nodes; `Path` is what a walk to the end meets.
- `LinkedList` EXTENDS Nodes: `live` is the set of allocated addresses, `given`
  the list objects whose nodes another one has taken over.  The loops that relink
  nodes (`reverse`, `merge`) are written with the code's pointers, a round of the
  code for each of `Rounds`.
- `CircularList`: the same heap with a ring on it.  `Round` is the loop of
  `length()`, and would also show a ring that is broken.
- `Lists` composes the two: the list objects of one program or the ring of the
  other, and `SeqList` for both.
- `Structures` composes Lists, SearchTrees and MemPool in the same way: a
  behaviour uses one of them (`structure`).
- `Array`: the calls that change an array.  `ArrayOps` EXTENDS it by the searches
  and the calls on two arrays, `Heap` has the two loops of `heap_adt.cpp`.  A loop
  that changes nothing but its own variables is a function of the number of
  rounds (`Searching`, `Merging`, `Rising`, `Sinking`), and one round of it a
  definition of its own (`SearchRound`, `MergeRound`, `InsertRound`, `DelRound`).
  A round after the last changes nothing, so a loop may be given more rounds than
  it makes.
- `Ordering` EXTENDS ArrayOps by the heap, and states what both are for
  (`OrderKept`).  Its variables are the arrays that calls build and a text written
  character by character, which `Heap` reads as an array of numbers.
- `Texts` EXTENDS Ordering by the functions that read a text character by
  character, and states what they are for: `LogFormat` reads it as a format
  (`AnswersFormat`), `Strings` as a string when a Nul is behind it
  (`StringsAtTheirEnds`).
- `SpanningTree`: `kruskal()` gives the set of all results it may have, because
  the order of equal weights in a `priority_queue` is open; `prim()` gives the
  edges in the order in which they are added.
- `ShortestPath`: `dijkstra()` reads its variable `u` without a value in a round
  in which no open vertex can be reached; the result is the set of all arrays
  for `u` any index of the vectors.  Sums wrap around at `IntMax`.
- `GraphSearch`: `BFS()` is the loop over its queue, `DFS()` gets and returns
  what is visited, which is the static array when a second call gets what the
  first returned.
- `Strings`: the functions on sequences of character codes with a Nul; the byte
  in front of the array, which `count_word` reads, is a parameter.
- `Backtracking`: each call of a helper gets and returns what it marks and takes
  back.  The side of a sudoku box is a parameter; it is three in the code.
- `Algorithms` composes what computes a result from its input and keeps nothing.
  Its variables are the inputs: the arrays and the text of `Texts`, which it
  EXTENDS, a graph drawn edge by edge, a maze opened cell by cell, a sudoku board
  with one clue after the other.  So TLC meets every input up to the bounds and
  checks each function on it against a definition of its own.  `permute` reads
  the text as its list.

Proofs: `LoggerProof`, `MarketDataProof`, `TCPProof`, `ProgramsProof` (of
ThreadStart, Kitchen, MutexCounter and MemPool, four programs that share no
names), `ArraysProof` (of Array, Ordering and Texts), `TreesProof` (of
SearchTrees) and `ListsProof` (of Lists).  The last three rest on `Basics`, facts about numbers,
finite sets and sequences that know nothing of the repository.

Operators named `Mut...` are small plausible bugs.  None is used by a
specification: in place of the definition they stand before, each makes TLC
report the property it is listed with, which shows that the property depends on
the code.

## Runs

`tlc -config <cfg> <module>`; sizes are distinct states.

| Run | Module, cfg | States | Checks |
|---|---|---|---|
| `logger` | Logger | 12864 | `IInv`, `NoDataRace`, `AssertHolds`, `ClosedComplete`, `ImplementsFifo` (with its fairness), `DestructorReturns` |
| `threads` | Threads | 3799 | `IInv`, `LeftoverCounted`, `ImplementsFifo`, `BothReturnIfRun` of lfqueue.cpp; `LauncherInv`, `NoThreadOutlivesMain`, `MainEndsIfRun` of multithread.cpp; `KitchenInv`, `NoLostWakeup`, `EveryDishServedIfRun` of condition_variable.cpp; `CounterInv`, `ExactCount`, `ImplementsAtomic` of mutex.cpp |
| `tcp_echo` | TCPProgram, TCPEcho | 173804 | `ProgramInv`, `NoForgottenBytes`, `EchoFaithful`, `DescriptorsHeld`, `EchoArrives` |
| `structures` | Structures | 237356 | `NodesLinked`, `PositionsKept`, `ImplementsSeqList` of the lists; `SearchTree`, `Balanced`, `OneKeyPerCall`, `PresentIsDeleted`, `WalksAgree` of the trees; `PoolInv`, `ImplementsPool` of the pool |
| `algorithms` | Algorithms | 84700 | `OrderKept`, `AnswersFormat`, `StringsAtTheirEnds`, `GreedyIsBest`, `SearchesFindAll`, `CallsByPosition` |

And what the repository says of itself and the code does not do:

| Run | Module, cfg | Violated |
|---|---|---|
| `market_data_drained` | MarketData, MarketDataDrained | `DrainedWhenDone`: `main()` waits "until the consumer thread has fully drained the queue" (`lfqueue.cpp:141`) |
| `thread_start_args` | MCThreadStart, ThreadStartArgs | `FuncFindsArguments`: "Runs addNumbers(10, 32) on the new thread." (`multithread.cpp:92`) |
| `trees_absent` | SearchTrees, TreesAbsent | `AbsentKept`: "Find the node / If it is a leaf node, just delete it" (`bst_adt.cpp:116`) |
| `trees_height` | SearchTrees, TreesHeight | `HeightFromZero`: "height of tree: start at 0" (`trees.txt:13`) |
| `lists_loop` | Lists, ListsLoop | `OnlyLoopsFound`: "Returns true if linkedlist is a loop" (`linkedlist_adt.cpp:262`) |
| `lists_merge` | Lists, ListsMerge | `MergeKeepsAll`: "Add the remaining elements of the other list" (`linkedlist_adt.cpp:219`) |
| `kruskal_cycle` | Algorithms, Kruskal | `NoCycleTaken`: "check cycle, if no cycle combine" (`kruskal.cpp:67`) |

`IInv` (`ProgramInv` in `tcp_echo`, and `LauncherInv`, `KitchenInv`, `CounterInv`,
`PoolInv` of the programs that are proved about together) is the inductive invariant of a component, a
conjunction of named parts with one type invariant among them; it is what the
proofs below rest on.

What they show, beyond what the names say:

- `logger`: the queue works without a lock as long as its callers keep one slot
  free, although the element becomes visible before it is counted.  The
  destructor closes a complete file although it looks at the count only.
- `threads`, `market_data_drained`: lfqueue.cpp never miscounts or reorders an
  update, and `main()` returns.  It does not read all updates: `consumer()`
  leaves at the first empty moment (`lfqueue.cpp:93`).  That happens at the
  nominal times of the sleeps too: seven updates are read when it looks after
  3.4 s, and the eighth is pushed at 3.5 s.  `main()` says that it waits until the
  queue is drained, and `consumer()` prints that it is; `LeftoverCounted` says
  that the count tells what is left.
- `threads`, `thread_start_args`: the protocol of the two flags in
  multithread.cpp is right.  The arguments are another matter: the body refers to
  `func`, `args` and `name` by reference and says `running` before it uses them
  (`multithread.cpp:46-48`), so `main()` may end the full expression that owns
  `string("counter")` while `countSlowly` goes on reading its label.  The
  comments of `main()` say that the call runs with these arguments on the new
  thread; the counterexample is a thread that reads a temporary after its end.
- `tcp_echo`: an edge reported before or after a socket is registered is never
  lost, because `poll()` puts a new socket into the receive bucket at once.  All
  that an open connection has sent comes back in the end, with two exceptions
  that `EchoArrives` names because the code makes them.  The accept loop ends at
  any failure of `accept()` (`socket.cpp:361`), also with connections in the
  queue, and the edge of the listener has been reported by then: they wait until
  another client connects (`Stranded`).  And nobody looks at the result of
  `epoll_add()` (`socket.cpp:370`): a socket it fails for is read once, in the
  round that accepted it, and what comes later never (`Unheard`).
- `tcp_echo`, `EchoFaithful`: the kernel of the run takes all of c1's bytes and
  of c2's only two at a time, so that a reply to c2 is often sent in part and
  the rest dropped (`socket.cpp:263`).  What arrives is in order and once in
  either case; that all of it arrives is claimed of c1 only (`Roomy`).
- `tcp_echo`, `DescriptorsHeld`: whichever address cannot be bound and however
  often `connect()` and `listen()` are called, each open descriptor has one
  variable that will close it; and `listen()` comes back with a listener that has
  an address, or aborts.  It may come back with a server nobody can reach, since
  the results of `::listen()` and `epoll_add()` are not looked at
  (`socket.cpp:144, 322`).
- `structures`, `trees_absent`: `OneKeyPerCall` asks at every tree what the next
  call would do for each argument: `insert` adds that value and loses none.  A
  value that is present is the one `del` takes out.  One that is not may cost the
  leaf its search ends at, a neighbour of the value in order, because `del` tests
  for a leaf before it compares (`bst_adt.cpp:135`, `avl_tree_adt.cpp:156`); the
  tree stays ordered and balanced even so.  The comment of `del` speaks of the
  node that was found, and `trees_absent` shows that another one is deleted.
- `structures`, `WalksAgree`: the answers to `create_tree` come in pairs that
  belong to the nodes in the order in which these were entered, which is also
  the order of `level_order`; the other walks are told apart by how two nodes
  lie to each other, and `count` and `height` agree with them.  `height` is the
  number of levels, 1 for the root alone; the notes let it start at 0
  (`trees_height`).
- `structures`, `lists_loop`, `lists_merge`: a ring stays closed whichever node
  goes, `head` included.  `is_loop` is right about every list but those of one
  node: both pointers are null after the first round, and are compared before
  they are tested (`linkedlist_adt.cpp:274`).  `merge` is right up to the end of
  the shorter list; of what is then left of the other one it keeps the last
  element only, because `curr` stays where it is (`linkedlist_adt.cpp:248`).
  SeqList's `Merge` names exactly the elements that are kept, so the refinement
  fails if one more or one less is lost.
- `algorithms`: `heap_sort` sorts everything but the first two elements, which
  may be in the wrong order, because the loop of `del` does not compare a left
  child in the last place.  `count_word` is right for text that begins and ends
  with a word and up to two too high otherwise.  `dijkstra` is right for every
  vertex that can be reached, whatever `u` holds; of the others it says nothing.
  `permute` finds nothing in a list that repeats an element.  A second `DFS`
  visits only what the first has left.
- `kruskal_cycle`: `Find` stops at the first entry that is not positive, so a
  vertex whose parent is vertex 0 passes for a root.  Vertex 0 becomes a parent
  when an edge names it second.  Of the edges {0, 1}, {1, 2}, {2, 0} all three
  are taken, although the comment says that a cycle is checked for
  (`kruskal.cpp:67`).  `algorithms` shows that `kruskal` is right for edges that
  name the smaller vertex first, as those of `main()` do.

Bounds, and why they are enough:

- `NumElems = 3`, `MaxBacklog = 2`, `MaxLog = 6` (Logger): the ring is filled as
  far as allowed, and both indices go around twice.  Two elements tell apart
  what was overwritten.  `MaxLog` only bounds the histories; the proofs hold for
  every value of the three.
- MarketData has the program's own sizes, 64 slots and 10 updates; proved for
  every number of updates smaller than the ring.
- `NumElems = 5` (MemPool), the size `main()` uses, two objects, and pointers one
  place before and behind the vector; proved for every size.
- Three threads (ThreadStart), the three calls of `main()`; proved for any
  number.
- Two clients of two bytes, one push, one client that may leave (TCPEcho):
  a client that connects while the other is served, leaves with bytes under
  way, or sends before it is accepted.  `WireCap` is 5 for c1, as much as its
  connection ever has unread here, as in `main()`, and 2 for c2: less than one
  reply to both its bytes, so that sends are taken whole, in part and not at all.
- Three descriptors, two addresses (TCPProgram): server and two clients need
  four, so every call also meets a full table; a second address is tried after
  the first was given up.
- The five dishes of `chef()`.
- Three threads of two increments (MutexCounter): every order in which one
  increment can come between the halves of another.
- Seven keys in a BST: all shapes a replacement can come from.  Twelve in an AVL
  tree: the smallest tree in which one deletion rotates at two levels.
  `MaxHeight = 7`, at which a caller stops inserting: a BST of seven keys has no
  more levels, so only an insert that would change nothing is left out, and
  AVL trees of twelve keys stay below it.  Proved for any keys and any
  `MaxHeight`.
- Two values and six nodes (BinaryTree): every shape in which a level is left
  open on one side and goes on on the other, with values repeated.
- Four nodes, two lists, two values (Lists): two lists of two nodes can be
  merged, with ties; three nodes have a middle one; a ring has a node that is
  neither the first, the last nor next to both.
- Two arrays of three cells over three values (Algorithms): all orders and ties.
- Texts of up to seven characters over space, `%`, `A` and `a` (Algorithms): two
  words with two spaces between them and one at either end; three pairs of `%`,
  with one argument more or less than fits; for `Heap` all arrays of seven
  elements, the length in the code, over four values; for `permute` four
  elements.
- Four vertices, two weights, one edge between two vertices in either direction
  (Algorithms): cycles of three and four edges, ties, vertices that cannot be
  reached, and a second tree to be joined.  `IntMax = 7` is more than the weight
  of any path and little enough for a sum with it to wrap around.
- A maze of three rows (Algorithms): ways that turn back towards where they came
  from, and 512 mazes; its cells are also the graphs of nine vertices for `BFS`
  and `DFS`.
- Boxes of two rows and up to four clues in the lower half of the board
  (Algorithms): the solver, which starts at the top, meets them last and has to
  take back what it filled in, and four clues are enough for boards that cannot
  be filled.  All 288 full boards are known, so both answers can be checked.

Deadlock is checked except in `algorithms` and `kruskal_cycle` (an input that is
as big as they get is only computed with) and `structures`, `lists_loop` and
`lists_merge` (the heap may be used up, and the lists taken over).  The other
programs end in a step that changes nothing, such as `Terminated`.

What is assumed of callers, because the code does: the logger's callers leave
one slot free (`pushValue()` does not look; when they get exactly one ring ahead
the ring looks empty and the destructor waits for ever); `poll()` is called
twice in a row only before a client has sent, as in `main()`; an array has room
for an `insert` and an element for a `left_shift`; `sorted_insert` is given a
value with a smaller first element in the list; `merge` gets two sorted lists
that are not empty; a list that was concatenated or merged into another one is
not used again; the only node of a ring is never deleted (`del` frees it and
leaves `head` at it, `circular_ll.cpp:104`); `prim` gets a connected graph of at
least two vertices, since its first `v` has no value otherwise; a string ends
with a Nul; the clues of a sudoku do not contradict each other directly; a
server with connected clients does not call `listen()` again, since only the
listener is registered with the new epoll descriptor (`socket.cpp:316`).

Behaviour of the code that the models have and no property forbids: bytes the
kernel does not take are dropped (`socket.cpp:263`); a failed `accept()` or
`epoll_add()` cuts clients off (see `EchoArrives`); a client that only closes stays in `sockets_`
for ever (`socket.cpp:230`); data the server stages on its own waits until the
client sends something, because `EPOLLOUT` is never asked for
(`socket.cpp:300`).  Undefined behaviour that is left out: the loop that clears
`selected` writes one place behind it (`prim.cpp:18`), and `reverse` of a string
ends without the value it promises (`string_adt.cpp:54`).  The seven rows and
columns of `graphs.cpp` are a parameter.

### Fairness

Every thread is an operating-system thread: weak fairness for each of them
(`Logger`, `MarketData`, `ThreadStart`, `MutexCounter`; in `Threads` each program
keeps its own).  `MutexCounter` needs
no more: a worker may be passed over at the lock only as often as the others
still have to take it.  `Kitchen` has strong fairness for `ChefLock`, since
spurious wakeups may make the waiter take the mutex for ever; spurious wakeups
themselves have none, and every dish is served without them.  In `TCPEcho` the
server's loop goes on and a connected client goes on reading; nobody is obliged
to connect, send or close.  The data structures need none.

## Proofs

`tlapm <module>` checks them.

- `LoggerProof!TypeCorrect` and `AssertNeverFires`: for any callers, an overrun
  ring included.  The invariant is TypeOK with `FlushTested`: between the size
  test and the decrement only the producer touches the count, and it only
  raises it.
- `LoggerProof!QueueInvariant`: `Spec => []IInv` when `MaxBacklog < NumElems`,
  for every ring size, element set and length.  None of the properties is
  inductive by itself; IInv says in addition that the distance between the
  indices is the backlog (`IndicesAgree`), that the count lags behind it by what
  either thread is in the middle of (`CountAgrees`), that a slot stays free
  (`RoomLeft`), that every unread element lies in its slot (`SlotsHoldBacklog`,
  `PushInFlight`), that what `flushQueue()` fetched stays true while it is used
  (`FlushInFlight`), and how the threads' phases relate (`Phases`).  `InvStep`
  has one step per action and one per conjunct it can disturb; the arithmetic of
  the ring comes first, without `%` in the proofs that use it.
- `NoRace`, `ClosedFileComplete`: from IInv.
- `LoggerImplementsFifo`: every step of the two threads is a step of the channel
  or none.
- `ProgramsProof!PoolInvariant`: the free count is the number of free slots and
  the index names one, for every size.  The scan is a CHOOSE of the number of
  steps, and `ScanFindsFree` proves that it ends when a slot is free.
- `ProgramsProof!MemPoolImplementsPool`: `PoolSpec => ImplementsPool`.

- `MarketDataProof!MarketDataInvariant`, `LeftoverIsCounted`,
  `MarketDataImplementsFifo`: when `NumUpdates < NumElems`, as 10 < 64 in the
  program.  The indices then never come round, so IInv can say that they are
  the numbers of updates themselves (`Counted`); with `InOrder` and `Fetched`
  it says where every update lies and that what `consumer()` tested is still
  true when it uses it.
- `ProgramsProof!LauncherInvariant`, `ThreadsAreJoined`: for any number of
  calls, any of which may fail.  `LauncherInv` adds to `FlagsAlive` and `NullMeansReaped`
  which handles exist at each of `main()`'s points (`MainPhases`) and what a set
  flag tells about its thread (`FlagsTell`).
- `TCPProof!BucketsInvariant`, `BytesNotForgotten`, `EchoIsFaithful`: of TCPEcho
  alone, for any set of clients, leaving at any time.  Since an edge is reported
  once, `NoForgottenBytes` needs `UnsentUnread` beside it, and both need that the
  buckets hold live sockets only.  `EchoFaithful` is not inductive: a byte that
  was sent may be in `up`, staged, in `down` or read, and only all four in that
  order (`Way`) stay as they are when it moves on.  `Echoes` says that `Way` rises
  and that no byte is missing from it; that none gets lost on the way to the
  kernel needs a bound of what may still be added to `down`, which is `Load`.
  `Roomy(c)` says that the kernel's buffer has room for that much, two bytes for
  each that is sent and one for each push.  It is a premise of the part on
  completeness only: that the bytes are in order and once is proved for kernels
  of any size.
- `TCPProof!ProgramInvariant`, `DescriptorsAreHeld`, `ProgramIsFaithful`: the same
  of the program from its first `socket()` on, for any clients, descriptors and
  number of addresses.  `HeldOnce` compares sets of holders; `SetupInv` says it
  variable by variable (`OpenIsHeld`, `HeldApart`), with the phase in which
  `createSocket()` holds a descriptor that its caller has not got yet (`Phases`),
  and keeps the listener's address over the calls in between (`ListenerHeld`).
- `ProgramsProof!KitchenInvariant`, `WakeupNotLost`: for any number of dishes and
  of spurious wakeups.
- `ProgramsProof!CounterInvariant`, `CountIsExact`: for any number of threads
  and iterations.  `CounterInv` ties `count_` to the set of the iterations done
  (`CountIsDone`) and what a thread has loaded to `count_` while it is between
  load and store (`LoadedIsCount`); the set is a subset of threads times
  iterations, and a cardinality argument gives the sum that `main()` prints.
- `ProgramsProof!MutexImplementsAtomic`: `AtomicSteps`, the safety part of
  `ImplementsAtomic`; `AtomicProgress` is the rest of it.

- `ArraysProof!ArrayInvariant`, `CallsAreByPosition`: for any capacity.  That the
  elements are values somebody stored (`ArrayInv`) is not one of the run's
  properties; with the lemmas of `Basics` on what `InsertAt`, `RemoveAt` and
  `Reverse` do to each place, it gives what every shift does to the sequence.
- `ArraysProof!OrderKeptHolds`: for any number of arrays of any capacity and
  texts of any length.  That the inputs have their types (`ArrayInv`, and `text` a
  sequence of `Codes`) is inductive; the rest says what the loops return, from an
  invariant of each by induction over its rounds:
  - `binary_search` (`SearchInv`): `low` and `high` are within one cell of the array,
    no cell before `low` or behind `high` holds the value, and what is between them
    shrinks with each round, so that as many rounds as there are cells are enough.
  - `merge`, `array_union` and `array_intersect`: what has been appended is sorted and
    no bigger than what is left of either array (`Ordered`).  How often a value has
    been appended is what both arrays have passed of it together (`MergeSums`), or
    the larger or the smaller of the two (`Larger`, `Smaller`).  The last two need
    that the arrays are in step (`InStep`): a value of which one array has passed
    fewer copies is below all that is left of that array, so it cannot catch up.
  - `insert` (`HeapBut`): while the element rises, the cells are a heap but for the
    one it is in, whose children stay below its parent.
  - `del` (`HeapOver`): the element that sinks is the only one its children may be
    above, and they stay below its parent.  Since the loop does not compare a left
    child at n - 1, what is left is a heap but for its last cell, which is still no
    bigger than the root (`HeapButLast`) as long as there are three.  That is enough
    for the next `del` to take out a biggest element, and shows why the last two may
    be in the wrong order.  `SortedFrom` says what is behind the heap.
- `ArraysProof!AnswersFormatHolds`: for formats of any length.  It follows from
  `LogIs`, which is of any format, whatever its characters, and any arguments.
  `WalkInv` says that where the walk is, an even number of percents of the same run
  is in front of it (`Even`), that it has taken as many arguments as there are
  places in front of it, and that what it has pushed is what these characters
  mean, one behind the other (`Joins`).  The next character is then no percent, or
  the first of two, or a place (`AtCharacter`, `AtTwoPercents`, `AtPlace`).  A round
  takes one character or more until the walk ends (`WalkEnds`); when an argument is
  missing, all that is behind that place means nothing (`MorePlaces`).
- `ArraysProof!StringsEndHolds`: for texts of any length, and any byte in front of
  the array.  `WordsEnd` compares, position by position, how often a word has begun
  and how often `count_word` has counted: they differ by the word the position is
  in and by a space in the first place.  `ChangedIs` says what the loops over the
  letters write, `EndsAtSpace` where the string ends after `flip`, `PrefixesEqual`
  what `equals` compares.
- `TreesProof!SearchTreeHolds`, `BalancedHolds`, `PresentIsDeletedHolds`,
  `OneKeyPerCallHolds`: for any finite sets of keys, any number of calls and
  trees of any height.  The invariant `TreesInv` says that the tree is one, that it is
  sorted and holds keys of its class only, and that every subtree of an AVL tree
  is balanced.  It is inductive by what one call does:
  - `BSTInsertIs`, `AVLInsertIs`: the result is sorted and has the key and no other new
    one (`OneMore`), and it is as high as before or one level higher.
  - `BSTDelIs`, `AVLDelIs`: the result is sorted and has lost at most one key, which is
    the key that was asked for if the tree has it, and otherwise the biggest below or
    the smallest above it (`OneLess`, `Nearest`); and it is as high as before or one
    level lower.  What is next to an absent key in the subtree in which it is looked
    for is so in the whole tree, since the rest lies on one side of both.
  - `LLRotation`, `RRRotation`, `LRRotation`, `RLRotation`: a rotation keeps the
    walk, and repairs a node that is off by two (`Rotated`).  `InsertRotationIs`
    shows that after an insert the higher child is never level, so the cases
    `insert` does not have cannot arise; `DelRotationIs` needs them.
  - `NeighbourIs`, `ReplacementIs`: the predecessor is the biggest key on the left,
    the successor the smallest on the right, so deleting it there and writing it
    in the node leaves the walk sorted.

  Each is proved by induction over the trees (`TreeInduct`), which is induction over
  the number of levels, from what the function does to a node.  What the
  functions are at a node is a lemma for each of them (`BST_delNode`, say), which
  rests on two others: that the recursive definition is one of a function
  (`BST_delsIs`), and that the function does not depend on how many levels it is
  given beyond those of its tree (`BST_delsSame`).
- `TreesProof!WalksAgreeHolds`: for any answers and trees of any size.  The nodes
  that a list of answers names (`NodesOf`) and their values are given without a
  queue, by which pair of answers belongs to which node.  `EnteredInv` says that
  the nodes of the tree are those, with those values (`Filled`), and that
  create_tree's queue has, in their order, the ones whose pair is still to come
  (`Waiting`).  It is inductive by `AnswerFills`: one more answer leaves the nodes
  as they are or adds the child that it is about at the end.  What the walks print
  follows in two parts:
  - `level_order`, by its rounds (`LevelRoundsAre`): after k rounds it has printed the
    nodes that the first k pairs name, and its queue has those of them that come
    after the k-th, so it is empty after as many rounds as there are nodes.
  - The recursive walks, `count` and `height`, by induction over the places of the
    tree from the lowest up (`InductPlaces`): what a walk from p prints is every node
    that begins with p, once, in the walk's order (`Walk`).  A node before p's left
    child, p, and one below its right child are told apart by where their paths
    part (`PrePairs`, `PostPairs`, `InPairs`).
- `ListsProof!ListsInvariant`, `NodesStayLinked`, `PositionsAreKept`,
  `ListsImplementSeqList`: for any number of lists and nodes and any integers as
  values.  `ListsInv` is what the calls rely on: types, `WellLinked`, the closed
  ring, and that the objects of the other class are not used.  (TLC finds no
  violation of it in the lists of the run `structures`, which does not list it.)  `LoopsFound`,
  `PositionsKept` and the refinement follow from it.  The proofs speak of chains:
  `Chain(h, p, s, e)` says that on heap h the nodes met from p on are the
  sequence s, without repetition, and the last of them points at e.  `PathIsChain`
  proves that `Path` finds exactly that sequence, and lemmas on inserting,
  removing, cutting and joining say what an assignment to `next` makes of a
  chain and of the chains beside it.  Each loop has an invariant of its own over
  the number of rounds: what is turned round already (`Turned`), what is merged
  and what is left of both lists (`Merging`; `KeptOf` are the elements that the
  loops over the rest keep), and where the slow and the fast
  pointer of `is_loop` are, on the chain or round the loop, where a multiple of
  the loop's length is the round in which they meet.  Every call is then one lemma
  (`InsertStep` ... `RingDeleteStep`): what becomes of its own list, and that
  the others keep their nodes and values (`LeavesOthers`).

Induction over natural numbers is not taken from the library, whose theorems
need an operator as a parameter, but from its facts on well-founded orders:
`Basics!LeastNat` gets a least element from the order of finite sets by
inclusion, and `NatInduct` states induction for a property given as a set.

The assumptions are those the modules declare: a queue and a pool have at least
one slot, bounds are natural numbers, `Pinned` is a set of calls and `CanClose`
a set of clients, the listener is no client, there are finitely many nodes and
`nullptr` is none of them, values and keys are integers, and keys finitely many, `Ring` is no object of the other
class, and `MaxBacklog < NumElems` and `NumUpdates < NumElems` where stated.

Only model-checked: liveness and everything under fairness, which is out of the
prover's reach; and the two invariants that `Algorithms` adds to those of
`Texts` (`GreedyIsBest`, `SearchesFindAll`), whose modules (greedy algorithms,
graphs, backtracking) have RECURSIVE operators and which state what a whole
computation returns for each input of bounded size.

## Plan

Done, in this order: LFQueue, Logger with Fifo, the proofs of the queue;
MemPool with Pool and its proofs; MarketData; ThreadStart; Kitchen and the
counters; TCPEcho with the setup of its sockets; the log's format; the search
trees, the linked list and the arrays; then the ring, the binary tree, the
strings, the greedy algorithms, the searches and the backtracking, each in the
module that composes its kind.

Done since: the proofs of TCPEcho and of the program around it, of the arrays,
of the two lists, whose loops became functions of the number of rounds for it,
of the search trees, whose recursion became functions of the number of levels,
of the binary tree, whose recursion became functions of the places, and of
`Ordering` and `Texts`, whose loops are functions of the number of rounds too.

Next proofs: that `BFS` visits every vertex it can reach, once, from an invariant
of the loop over its queue.  What the greedy algorithms choose is best by an
exchange argument over spanning trees, which needs a theory of paths in graphs
that no library module has.
