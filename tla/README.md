# Verification of algorithm-collection

TLA+ models of the programs of this repository, the TLC runs that check them on
small instances and the theorems about them that TLAPS checks.

The repository is "a collection of implementation of some common algorithms":
73 files that fall in two groups. A few files are *systems*: state that lives
across calls, threads, resource pools. Most are *algorithms*: one call, one
answer. The systems come first here, because that is where a unit test says
least; the repository itself has no test of `threads-lib` at all. The sequential
part, containers and algorithms, shares one run.

## Inventory

| component | state | operations | what is hard |
|---|---|---|---|
| `threads-lib/parallel_framework_lock.h` | a circular queue of cells (`head`, `tail`, `item_status`, `array`, `processor_return`), a semaphore per cell, two counting semaphores, a mutex | `create`, `run`; generator (the caller), n processor threads, a consumer thread | interleaving, lost wake-ups, shutdown, reuse |
| `threads-lib/parallel_framework_semaphore.h` | the same queue, cell c owned by processor c % n; two semaphores per processor | the same, three modes of `run` | posts of one processor are not told apart; a post lost at shutdown; polling |
| `threads-lib/parallel_framework_buffer.h` | a buffer (`queue_t`) per processor, its status, three semaphores each | the same | hand-over of a whole buffer without a lock, a partly filled last buffer, reuse |
| `threads-lib/parallel_framework.h` | a circular queue, nothing else | `create`, `run`, `stop`, three modes | no synchronisation at all: ownership is read off `item_status` by spinning |
| `data-structures/mem_pool.h`, `im_vector.h`, `data_structures_common.h` | blocks of fixed size items, a free list threaded through free items, size classes, accounting | `create`, `fetch`, `back`, `malloc`, `free`, `recycle`, address arithmetic | double free, accounting drift, limits of the address bits |
| `data-structures/hash_table.h` | buckets of chains of virtual addresses on a pool | `seek`, `add_node_vaddr`, `remove_node_vaddr`, `rehash`, iterators | one writer and many readers without a lock; delayed release |
| `data-structures/linked_list.h` | doubly linked lists on a pool, list heads by type bits of an address | `add_node`, `remove_node`, sorted insertion, `change_sorted_node` | a node is taken from, or becomes, the head: the address of the list moves with it |
| `RBTree.cpp`, `static_RBTree.cpp` | a red-black tree with sizes and black heights; one sentinel | insertion by key and beside a node, removal, `join`, look-ups by key and rank | rebalancing in every shape; what is left in the sentinel |
| `FibHeap.cpp`, `LeftistTree.cpp`, `binaryHeap.cpp`, the heap of `minCostFlow.cpp` | heaps | insert, merge, delete-min, decrease-key | links, ranks, marks and positions over long sequences |
| `segment_tree.h`, `MinMaxQuery.h`, `interval_tree.cpp`, `SMAWK.cpp`, `hash_tables.cpp` | arrays | range writes and queries | pending writes, boundaries |
| `graph-algorithms/` | a graph and work arrays | components, 2-SAT, chordality, matchings, flows, stable marriage, trees | loops whose result only holds at the end; blossoms; potentials; reused buffers |
| `string-algorithms/` | automata, suffix arrays and trees | build, search | overlaps, links that must exist before they are followed, boundaries |
| `numeric-algorithms/` | numbers, matrices | arithmetic, primes, FFT, simplex | signs, moduli that are not coprime, carries |
| `Misc/` | Huffman codes, longest common subsequence, a file reader, printing helpers | build, encode, decode | ties, sorts by digits |
| `Geometry-algorithms/`, `ML-algorithms/` | floating point | - | out of TLC's reach |
| `language-features/`, `ibm-ponder-this/`, `topcoder-related/`, `testers/`, `commons/` | a calculator and a network of gates; demonstrations, drivers, headers | `calculate` | - |

Interactions: the four frameworks are independent of each other and call the
user's generator, processor and consumer. Inside one framework the caller of
`run()` is the generator, and it, the processor threads and the consumer thread
share the queue. The hash table and the lists live on the memory pool and hold
its 32 bit virtual addresses instead of pointers.

What makes each correct, in a sentence: a framework hands every item to one
processor and then to the consumer, in order, and `run()` comes back; a pool
never hands out an item twice; a table finds what was put in and not taken out,
also while it is being changed; a list stays linked both ways and sorted; a
tree keeps its set and its balance; an algorithm returns what its definition
says.

## Modules

| module | what it is |
|---|---|
| `OrderedPipeline` | the abstract specification of the four frameworks |
| `LockPipeline` | `parallel_framework_lock_t` |
| `SemaphorePipeline` | `parallel_framework_semaphore_t`, modes 0, 1, 2 |
| `BufferPipeline` | `parallel_framework_buffer_t` |
| `SpinPipeline` | `parallel_framework_t`, modes 0, 1, 2 |
| `LockPipelineProofs`, `SemaphorePipelineProofs`, `BufferPipelineProofs`, `SpinPipelineProofs` | theorems about these four: invariants, and that each implements `OrderedPipeline` |
| `BlockAllocator` | the abstract specification of a memory pool |
| `MemPool` | `mem_pool_t` and the `fixed_size_mem_pool_t` inside it |
| `MemPoolProofs` | theorems about the pool: invariants, and that it implements `BlockAllocator` |
| `HashTable` | `hashtable_t`, one writer and a reader without a lock |
| `HashTableProofs` | theorems about the table: its chains, iterations and readers |
| `NodeLists` | the abstract specification of the lists |
| `LinkedList` | `linked_list.h` |
| `PriorityQueue` | the abstract specification of the indexed heap |
| `BinaryHeap` | the heap of `minCostFlow.cpp`, as Dijkstra's search uses it |
| `SegmentTree` | `segment_tree.h` with `sum_node_t` |
| `ContainerProofs` | theorems about the lists, the indexed heap and the segment tree: invariants, and that the first two implement `NodeLists` and `PriorityQueue` |
| `FiniteLemmas` | lemmas these proofs need: inductions, sums over finite sets, chains of linked items |
| `RedBlackOps` | the algorithms of `RBTree.cpp`, on a record |
| `RedBlackTree`, `StaticRBTree` | the two red-black trees: their operations, and what `check()` checks |
| `FibHeap`, `LeftistTree` | the heaps |
| `Collections` | the abstract specification of these four containers |
| `Containers` | the four containers, and their refinement of `Collections` |
| `GraphSearch` | components, 2-SAT, chordality, common ancestors, mean cycles, trails |
| `Matchings`, `GeneralMatching`, `Flows` | marriage, assignment, bipartite and general matching, both flows |
| `Strings`, `SuffixStructures`, `ACAuto` | string algorithms |
| `Numbers` | `Number.cpp`, `fraction.cpp`, `prime_generator.cpp`, the calculator |
| `Codes`, `Ranges`, `BitCounter` | Huffman and subsequences, range queries, the network of gates |
| `GraphProblems`, `MatchingProblems`, `TextProblems`, `NumberProblems`, `CodeProblems` | the calls of these algorithms, and what their answers should be |
| `Collection` | the containers, the lists, the indexed heap, the segment tree and the calls in one specification |

### OrderedPipeline

Three variables: a call of `run()` is in progress, what the processor returned
for each item made so far (`Pending` if none did), and the consumer's calls.
Items are made in order, at most `Capacity` are under way, each gets one result,
they are delivered in the order they were made, with that result, and a run ends
only when nothing is left. Each framework's module keeps `outcome` and
`delivered` beside the variables of the code, as histories that no guard of the
framework reads, except for the bound on the number of items.

### How the four modules are written

The thread in `run()`, each processor and the consumer have a program counter
(`caller`, `processor[p]`, `consumer`) whose labels follow the loops of the code.
An action is one access to state that another thread may touch at that moment: a
semaphore operation, the mutex, a read or write of `item_status`, `head`, `tail`,
`array`, `processor_return` or `status`. Local steps ride along with the access
before or after them. Where two accesses share an action, nobody else can use
one of them then: `head` is the consumer's and `tail` the generator's in
`SemaphorePipeline`, and in `BufferPipeline` a `queue_t` in a thread's hands is
that thread's (which `BufferExclusive` states, and the proof shows).

The user's functions are the nondeterminism: the generator returns 0 (an item)
or another value (the end) at every call, a processor any value of `Results`.
The consumer's return value only decides a counter and a log line and is left
out, like the counters, the clocks and the log. The user's item is its number.

`create()` leaves `item_status` (or `buffer_status`) as `new[]` found it, except
in the spinning framework, which clears it: `FreshStatus` is the set of the
values it may find. `{"Null"}` is a fresh zero page; the run `buffer_fresh`
takes more.

Memory is sequentially consistent and accesses happen in program order. For the
lock, semaphore and buffer frameworks the semaphores give that where it is
needed, except for the reads of `status` (and of `item_status` in mode 2); the
spinning framework simply supposes it.

### MemPool

One thread calls the pool. An action is one call (`malloc`, `malloc_fixed_size`,
`get_corresponding_type`, `add_fixed_size_pool`, the three ways `free` can go) or
one turn of the two loops of `recycle`. `word` is the memory of the items, so
that the links the pool writes through them are seen to hit or to miss what the
user wrote. Sizes are in words of four bytes, the size of a link; an address is
pool, block and place, as in the code, with `Span` places to a block. Whether
`new` finds memory is nondeterministic: a pool without an item at hand may fail,
and `malloc` then tries the next larger one. `push_back` of a protected item may
fail too, and the item is lost. `lent` and `kept` are histories: the length each
item in use was asked for, and the words of a protected item nobody may disturb.

`BlockAllocator` has the addresses in use and the protected ones. An address is
handed out only if it is neither, and a protected one becomes free only through
`recycle`. `ImplementsAllocator` says that the pool does that, for all its free
lists, blocks and address bits.

### HashTable

A step of the writer is one store that a reader could see; what the writer does
alone around it (`malloc`, the search of the predecessor, filling a node nobody
knows yet) rides along. A step of the reader is one read: of the array pointer
and of the size, in either order (C++ leaves it open), of the bucket, of a key,
of a `next`, and at last of the user data. Readers write nothing, so one reader,
who may come at any time and look for any key, stands for all of them. User data
are numbers from which the key is extracted.

The user's side of the contract is in the guards: `recycle()` only while no
reader is inside; without `m_protect_dirty`, readers and writer take turns; and,
when `QuietRehash` is true, no reader inside while `rehash()` runs. The last one
is nowhere in the code; run `hash_range` shows one thing that happens without it.
The pool gives the free node with the least address: free nodes are alike as long
as no reader is at one, which is part of `SeekSound`.

`SeekSound` compares the answer with what the table stood for at some moment
while the reader was inside. In `add_node_vaddr` with overwrite there is such a
moment, between unlinking the old node and publishing the new one, at which the
key is absent, and a reader may say so.

### LinkedList

`next`, `prev`, `value` and `head` are what the two functors of the C++ classes give
access to: the pointers in the nodes and the heads in the lists, both found by a 32-bit
address. `Lists` and `Nodes` are sets of addresses; the lists in `Sorted` are used with
`add_sorted_node`, the others with `add_node`, and all take their nodes from the same
set, as the lists of the testers do. The `prev` of a head is the address of its list
under a type of its own: `-l` here. An action is one call. The callers are the
nondeterminism: a node no list has, with any value, or any node to be removed. After
`remove_node` the caller clears the pointers of the node (lines 320, 483), without
which the next insertion or removal would go wrong; this is part of the action.

`NodeLists` has a sequence for each list. `Put` adds a node that is in none, in front or
behind all nodes that are less; `TakeOut` removes one from the sequence it is in.
`ImplementsLists` reads the sequences along `next` (`Listed`).

### BinaryHeap and SegmentTree

These two have variables of their own and, as the lists have, no recursive operators, so that
they can be proved about. A loop of the code is a recursive *function*: of the number
of turns it has taken (`adjustUp`, `adjustDown`), or of the calls of a recursive routine
(`update_helper`, `query_helper`), a call being the tree it finds, the positions it is
about and its node.

The indexed heap is `heap`, `hpos` and the costs `mindis` its comparisons read. Its
operations are those of Dijkstra's search in `minCostFlow.cpp`: an item is pushed with
a cost, its cost is lowered and `adjustUp` called, the least is popped, the heap is
cleared. The loops move a hole and put the item into it at the end, as in the code;
`hpos` and `mindis` of an item that has left keep what they had. `PriorityQueue` has the
items that wait and their costs. Which of the least items is popped is the heap's choice.

The segment tree is the vector of nodes, as long as the constructor makes it (`room` is
the shift by the depth). A node knows no positions of its own: `low` and `high`
come down with the walk, and `span` is what they are at each node. `pushDown` is the
`update` of a sum node, `Given` what it does to a son. A query pushes down
as well, so it writes. `array` is a history, what the tree stands for, and `asked` holds
the answer of the last step if that was a query.

### The containers

`RedBlackTree`, `StaticRBTree`, `FibHeap` and `LeftistTree` have one variable, `s`, a
record with the fields of
the C++ object, and one action per operation; a pointer is the number of a node,
and a loop over pointers a recursive operator over the record. A routine and its
mirror image (`leftRotate` and `rightRotate`, `preInsert` and `sucInsert`, the two
halves of a fixup) are one operator with the side as an argument. An assertion of
the code that fails clears `ok`, which the invariants read.

What the code leaves in memory and reads again is kept: the sentinel of the
red-black trees has fields like any node, and two tree objects share it, so that
what one removal stored there meets the next removal or `join`. What nothing reads before it is
set (the fields of a node outside the tree) is forgotten, to keep the states few.
The callers are the nondeterminism: any key, any node of the tree.

`FibHeap` works on two heaps, so that `merge` has an argument. `merge` keeps the
root of the *greater* key (line 68 tests `0 > kcmp(root, fh.root)`, where `insert`
tests `kcmp(root, pn) > 0`): from then on the root need not be the least, until
`extractMin` consolidates. The model does what the code does, `stale` marks the
time in between, and `MinimumAtRoot` claims the least key only outside it.
`extractMin` during it removes a root that is not the least, and keeps
everything else sound.

`Collections` knows the value of every element: an operation adds one, drops one,
changes one, or empties the container. `Containers` reads the
content off the links of the detailed state after every step (`Reached`), so that
`KeepsElements` says that rotations, consolidations, cuts and merges lose
and duplicate nothing.

### The algorithms

An algorithm of one call and one answer is an operator: an array is a function, a
loop a fold or a recursion over a record of the variables it updates, a work stack
a sequence. The five `*Problems` modules give each its calls (`Init` chooses
routine and arguments, the step computes the answer) and compare the
answer with the definition of the problem, never with another algorithm of the
same kind: stability, the cost of the best of all matchings, the capacity of the
least of all cuts, reachability as a closure, occurrence by comparing letters, the
least cost of all codes without a prefix, primality by trial, congruences by trying
every residue. Where the code offers two ways (two suffix arrays, five prime
tests, three inverses, two automata), both are compared with the definition.

What may stop a program is modelled where the run meets it: an assertion that fails
(`assert` in `Chinese_remainder`, in `Dijkstra` and `minCostFlow`, in the search of
General_matching.cpp) and the division by zero of `robinMiller` make `ok` false in the
answer, and the property says for which inputs that may happen. What a call finds from
an earlier one is an argument or a call before it: the labels of `minCostFlow`, the
buffer of `twoSAT`, a Huffman table and its decoder, which are created once or twice,
with or without names for the items. An entry of `map_table` that was never set is
`Unset`, and nothing is claimed of what it decodes to.

`Strongly_connected_component.cpp` calls its components topologically sorted (line
26). They are given sinks first, which is that order for the arcs reversed, and this is
the order that `IsCondensation` asks for and that `twoSAT` relies on.

Simplifications: a character is a small number, infinity 1000000 (`inf`, `INF`,
`MaxVint`) and the least value of a type -1000 (`Least`); `Radix` of the sort in
Huffman.cpp is 4 instead of 2^16, so that both digits matter; `rand()` in
`robinMiller`, `pollard` and the shuffled order of General_matching.cpp is an
argument; `pollard` is cut after 40 steps, where the code may go round for ever;
integers do not overflow, the inputs being far from the width of `llint`; memory is
found. A Huffman decoder serves one table: with another one, `create` would read
lengths by the size of the first (line 326). `LookUps` asks nothing of `lowerBound`
when every key is less than the one looked for (see finding 6).

## Runs

| run | instance | shows |
|---|---|---|
| `lock` | 2 processors, 4 cells, 5 items, 1 run | `CellExclusive`, `NoEmptyDequeueWhileRunning`, `RunReturns`, `ImplementsPipeline` |
| `semaphore` | 2 processors, 4 cells, 5 items, 1 run, modes 0-2 | the two assertions of the code, `RunReturns`, `ImplementsPipeline` |
| `buffer` | 2 buffers of 2 spots, 5 items, 2 runs | `BufferExclusive`, `CleanWhenIdle`, `RunReturns`, `ImplementsPipeline` |
| `spin` | 2 processors, 4 cells, 6 items, 1 run, modes 0-2 | `CellExclusive`, `StartAssert`, `RunReturns`, `ImplementsOrder` |
| `spin_stale_return` | 2 items, modes 0, 1 | a violation: `ReturnDelivered` |
| `semaphore_reuse` | 1 processor, 2 cells, 2 runs | a violation: `ProcessorAssert` |
| `buffer_fresh` | 2 buffers of 1 spot, leftover memory | a violation: `RunReturns` |
| `mem_pool` | 2 pools of 2 blocks of 2 places, sizes 1 and 2, 3 items lent or protected | `DataIntact`, `Accounting`, `ImplementsAllocator` |
| `pool_accounting` | the same | a violation: `UsedCounted` |
| `hash_table` | 3 keys, 4 user data, 3 nodes, 1 or 2 buckets | `ChainSound`, `IterationComplete`, `SeekSound`, `SeekReturns` |
| `hash_range` | 3 keys, 2 nodes, 1 to 4 buckets, readers during `rehash()` | a violation: `InRange` |
| `collection` | four containers of up to nine elements, two lists of three nodes, an indexed heap of four items, a segment tree of three positions, some forty routines on all their small inputs | `SearchTreesSound`, `HeapsOrdered`, `KeepsElements`; `ListsSound`, `ImplementsLists`; `IndexedHeapSound`, `ImplementsQueue`; `SumsRight`; `GraphsAnswered`, `TextsAnswered`, `NumbersAndCodesRight` |

*Bounds.* `MaxItems` and `MaxRuns` bound what is generated and how often `run()`
is called; nothing else is bounded in the frameworks. Four cells and five items are the least with
which the queue fills (three cells may be used), `head` and `tail` wrap, each
processor handles several cells, the generator stops at every fill level,
including full and empty, and two processors race for a cell. In `buffer` the
generator stops in either buffer, at its first, second or no spot, in the first
or a later turn, and the second run starts from what the first one left. One
processor would hide every race, one cell per processor every reordering.
`spin` uses one result: its code treats an item in error exactly like a finished
one (only "not Waiting" is tested), and the stale return value is the subject of
`spin_stale_return`.

`mem_pool`: with two blocks of two places a pool starts its first block (whose
place 0 is not used), a second one, and runs out. A one-word item has its two
links in the same word, a two-word item has a word between them. `MaxLent`
bounds the items out at a time, three being enough to exhaust one pool and to go
on to the other; `MaxDrift` bounds the error of `total_used_length`, which grows
without bound in the code (see the findings) and is read by nothing; `MaxDirty`
stands for the vector that cannot grow. The vector is bounded through `MaxLent`
as well. A block has at least two places: with one, the first is wasted.

`hash_table`: three nodes make a chain with a middle, in one bucket; keys 0 and
2 share a bucket of two, and part from 1. Data 3 and 6 have the same key, so that
an overwritten node can be told from its successor. Protected nodes count among
the three, so that a reader can stand on one or two of them.

`collection`: six keys make red-black trees of black height three with a red level,
where every case of both fixups occurs on both sides, and the joins of every two
smaller trees over them; the static tree has four nodes with keys that
repeat. Nine Fibonacci nodes, of which up to two are in the other heap, make
trees of rank three; `HeapOps` bounds a life, from every starting heap, to four
operations, enough for a cut that marks, a cascading cut, and the
consolidation after it. The leftist heap takes five nodes of two keys, the indexed
heap four items of three costs, so that one father has two sons and another one, the
segment tree three
positions, so that one son is a leaf and the other not, with two amounts. An unsorted and a sorted list share three
nodes, which gives a list a head, a last node and one between them, with an insertion and
a removal at each place; three values give a new node equal, lesser and greater
neighbours. A node leaves one list for the other, so that a prev that names the wrong
list is met by a later removal. All these are run to their whole state
space. Algorithms are given *all* inputs of a small size and some larger families
(graphs of five and six vertices, formulas of three variables, texts of six or
seven letters, all expressions of up to four operands, 4096 words of bits); the
families are written out in the `Init` of the `*Problems` modules. The crossing
network of five vertices is there so that augmenting paths run against arcs, the
graph of seven so that blossoms lie inside blossoms. The networks of two arcs over five
vertices leave a label that `minCostFlow` does not clear; a Huffman table used again has
room, or not, for an alphabet that is smaller, equal or larger.

*Fairness.* In the frameworks: weak fairness of each thread: the scheduler runs every thread that
is not blocked. A semaphore or mutex that stays available is taken at last;
where several processors wait for the same semaphore, the posts and the items are
finite, so that weak fairness of each is enough, and no strong fairness is assumed. The caller is fair only once it is
inside `run()`. The generator stops after at most `MaxItems` items: a generator
that never stops is a program that never ends. In `HashTable` only a reader that
is inside is fair; the writer may go on for ever or stop anywhere, also in the
middle of a call.

*The mutex.* `RunReturns` of `LockPipeline` does not need a fair mutex: each
processor passes it once per item, and the items are finite.

### Findings

1. `spin_stale_return`. `process_one_item()` publishes the cell
   (`item_status[pos]`, line 326 or 329) before it stores `processor_return[pos]`
   (line 331). The consumer can run in between and is called with the value of
   an earlier item, or with the contents of uninitialised memory.
2. `semaphore_reuse`. `run()` accepts a framework that has run before, and
   starts the processors at their first cells although `tail` is elsewhere: the
   assertion at line 184 fails in the second run. The lock framework (whose
   consumer restarts at cell 0) and the spinning one (whose assertion at line 241
   compares with a moved `head`) restart in the same way. The buffer framework
   is free of it: that is `CleanWhenIdle`, and theorem `Reusable`.
3. `buffer_fresh`. `buffer_status` is not initialised; a leftover
   `buffer_Waiting` in a buffer the generator never reached eats the wake-up
   meant to end its processor, and `run()` does not return.

4. `pool_accounting`. `total_used_length`, documented as the memory in use, is
   raised by `get_corresponding_type()`, which allocates nothing, and by a
   `malloc()` that fails, and is not raised by `malloc_fixed_size()`.
5. `hash_range`. The order in which `rehash()` switches array and size is said to
   keep readers in range. It helps a reader that reads the size before the array
   while the table grows, and one that reads the array first while it shrinks; in
   each case the reader of the other order is out of range.

6. Without a run of its own, met while modelling, each at the line it is at:
   `FibHeap::merge` keeps the greater root (line 68); `resize` in Huffman.cpp does
   not set `n` when there is room (lines 98 and 138), so that a table made for one
   item and used again for two has no code for the second, and `create` leaves
   `map_table` unset when it is given no names (line 190), which the decoder then reads
   (line 350); `assert(1 == (res[i] % mod[i]))` in Number.cpp (line 201) fails for a
   modulus of 1, whose only residue is 0; `preprocess` in minCostFlow.cpp (line 154)
   clears as many labels as there are arcs, so that with fewer arcs than vertices a
   solver used again may fail the assertion at line 133; `preInsert` and
   `sucInsert` leave `bh` unset without `SIZE` (RBTree.cpp lines 320 and 342);
   `binaryHeap::pushHeap` in binaryHeap.cpp (lines 67-71) takes the new length of the
   array for the number of its items and stores behind it; `next` of hash_tables.cpp is
   never initialised; `robinMiller(2)` divides by zero (line 434) and
   `is_prime` takes 0 for a prime (Number.cpp); a text of one or two letters is
   sorted without its end (suffixArray.cpp line 60); `longest_common_prefix` reads
   the letter behind the text (string-algorithms.cpp line 72) and chordalGraph.cpp
   the one behind a list (line 93) before it looks at the length;
   `array[n++] = max_element(array, array + n)` in suffixArray2.cpp (line 39) is
   unsequenced before C++17; a second `construct_automaton` adds the counts
   again, and its table of letters is bounded by its bytes, four times its entries, so that
   a letter between the two is looked up behind it (ACAuto.cpp lines 42 and 52; the
   run takes letters inside the table); `findMMWC` starts its maximum at -1 and
   is wrong for smaller means; the
   documentation of `lowerBound` in static_RBTree.cpp promises 0 where it returns
   `end()` (lines 49-50; the code is at line 98); the
   calculator accepts `1 2` and leaves two operands. The inputs of the run avoid what has no defined outcome and keep the rest. Of these, the
   Huffman table used again, the modulus of 1, the labels and `robinMiller(2)` occur
   in the run, and `NumbersAndCodesRight` and `GraphsAnswered` say how far they reach.

## Proofs

Each of these systems has a module of theorems: its invariants, and, but for the hash
table, that it implements its abstract specification. They hold for every number of
processors, cells and items, of pools, blocks and places, of keys, nodes and buckets,
of lists, nodes and values, of items and costs, of positions and amounts; each follows from an inductive invariant, with one lemma per action. A theorem that is
about the first run of a framework says so by assuming `MaxRuns = 1`: finding 2 is why a
second run is another matter. `FreshStatus` is what fresh cells may hold. "-" stands for
no assumption but that of the module on its constants.

| theorem | assumes |
|---|---|
| `BufferPipelineProofs!TypeCorrect` | - |
| `BufferPipelineProofs!Inductive`, `!Exclusive`, `!Reusable` | cleared memory |
| `SpinPipelineProofs!TypeCorrect`, `!Exclusive` | - |
| `SpinPipelineProofs!StartsInTime` | first run |
| `LockPipelineProofs!TypeCorrect`, `!NeverEmpty` | - |
| `LockPipelineProofs!Exclusive` | first run; fresh cells are not Ready or Error |
| `SemaphorePipelineProofs!TypeCorrect`, `!ProcessorAsserts`, `!ConsumerAsserts` | first run, cleared memory, a queue of at least two cells |
| `BufferPipelineProofs!Implements` | cleared memory |
| `SpinPipelineProofs!Implements` | - |
| `LockPipelineProofs!Implements` | first run; fresh cells are not Ready or Error |
| `SemaphorePipelineProofs!Implements` | first run, cleared memory, a queue of at least two cells |
| `MemPoolProofs!TypeCorrect`, `!Inductive`, `!Intact`, `!Counts`, `!Allocates` | - |
| `HashTableProofs!TypeCorrect`, `!Inductive`, `!ChainsSound`, `!IterationsComplete` | - |
| `HashTableProofs!SeeksSound` | no reader inside while `rehash()` runs |
| `ContainerProofs!TypeCorrect`, `!Inductive`, `!Sound`, `!Implements` (lists) | - |
| `ContainerProofs!HeapInductive`, `!HeapsSound`, `!HeapImplements` (indexed heap) | - |
| `ContainerProofs!TreeInductive`, `!TreeTypeCorrect`, `!TreeSums` (segment tree) | - |

### BufferPipelineProofs

It shows, for every number of processors and spots, every
set of results, and any number of items and runs:

* `TypeCorrect` - `Spec => []TypeOK`, for any contents of fresh memory;
* `Inductive` - `Spec => []IndInv`, for cleared memory;
* `Exclusive` and `Reusable` - `BufferExclusive` and `CleanWhenIdle` follow.

`BufferExclusive` is not inductive: nothing in it says why the next semaphore
operation cannot let a second thread in. `IndInv` counts. For each buffer, the
posts of its three semaphores, plus one for a thread that has taken a post and
not yet passed it on, make exactly one, which travels with the buffer, and
`buffer_status` says where it is (`NullTurn`, `WaitingTurn`, `ReadyTurn`). The
only further posts are the one that wakes the processor at the end (`WakePost`)
and the one it then gives the consumer (`FinalPost`); a processor can only have
left if it had been woken. `Round` adds that the buffers in use are those
from the consumer's to the generator's, going round: so the consumer that is
stopped by a buffer it does not find Ready has met the end, and every other
buffer is free too. The assumption
`FreshStatus = {"Null"}` cannot be dropped: `buffer_fresh` is the counterexample.

### SpinPipelineProofs

`item_status` is all that keeps the threads apart, in every mode and any number of
runs: `TypeCorrect` and `Exclusive` (`CellExclusive`). The invariant `Own` has four
parts. `Lanes`: a processor stays in the cells of its class, and only threads that
were started run. `Turns`: which threads there are in which mode (in modes 1 and 2
the consumer is inside the caller). `Room`: the queue is not full while the generator
writes and not empty while the consumer reads. `Marks`: a Waiting cell has an item or
is about to get one, the cell of the consumer is not Waiting, the cell a processor is
working on is. `StartsInTime` (`StartAssert`, line 241) needs `Unstarted` besides: before
a thread begins, the cells of its class are Waiting or not yet used, and `head` has not
passed the first one.

### LockPipelineProofs

`Exclusive` (`CellExclusive`) and `NeverEmpty` (`NoEmptyDequeueWhileRunning`, the
FATAL of line 50). Here too the properties say nothing of the semaphores, and
`LockInv` does. `Order` puts the consumer's cell, `head` and `tail` in this order round
the queue, and `sem_null_cell` counts the cells that remain. `Mutex` has one processor between
lock and unlock. `Count` is the heart: the value of `sem_waiting_cell`, the processors
that have taken a post and not yet an item, and the post the generator owes add up to
the items between `head` and `tail`; so the processor at the queue finds one. `Owners`:
a cell in a processor's hands is between the consumer and `head`, and no two have the same.
`Posts`: the consumer is woken for a cell only when its processor has left it. The
number of processors with a post is a cardinality, and `FiniteSetTheorems` gives its
changes by one. A cell that is Ready or Error in fresh memory would look finished to
the consumer; hence the assumption.

`NeverEmpty` needs none of this but `Mutex` and `Count`, and so holds in *every* run
and for any fresh memory, although from the second run on the consumer, back at cell 0,
may be stopped by a cell it has no business with, and leave early. `ReuseInv` therefore says
nothing of `cpos` and of the order of the cells. `Between` says that no thread outlives
`run()`. That `sem_null_cell` bounds the queue becomes an inequality (`Spare`): while the
generator runs, its posts and all that will become one of them (the post the generator
has claimed, the items queued, the processors at work, the posts of finished cells, the one
in the consumer's hands) are together at most `QueueSize - 1`. A consumer that
leaves early takes its post with it, which only makes the sum less; `head` and `tail` never
meet for want of room, and `Count` carries over.

### SemaphorePipelineProofs

The posts of one processor are not told apart, and the consumer gets one post too many at the
end; that the two assertions hold all the same (`ProcessorAsserts`, line 184,
`ConsumerAsserts`) is an argument about order and number. `SemInv` says that a
processor's finished cells come before its waiting ones, and that where none waits, it
stands where the generator will next put one of its items (`InOrder`); that it has one post per waiting cell
(`Posted`); and that the consumer has no more posts of it than it has finished cells,
save the final one (`Counted`). `Phases`, `Turns`, `Room` and `AtWork` are the
bookkeeping of the modes, the queue and the cell in hand. The lemma `LaneGap` carries
the arithmetic: modulo `QueueSize`, no cell of a processor lies between one of its cells and
the next. In a queue of one cell (`create(1, 1)`) `run()` blocks at once, and the
arithmetic is different; hence the third assumption.

### Refinement of the frameworks

`Implements` says that every step of the framework is a step of `OrderedPipeline` or
invisible in it: each item is processed once, consumed once, in the order in which it
was made and with the value its processor returned, never more than `Capacity` are in
flight, and `run()` returns when none is left. Nothing in the invariants above speaks
of items, so each module adds, in its second half, a `HistoryInv` that relates the cells to the two
histories:

* *Number.* A cell in use holds the item whose number is that of the items given back,
  plus the distance from the consumer round the queue, plus one (`Numbered`). Two cells
  then never hold the same item, the consumer's holds the next one, and what is in
  flight fits into the queue. In the buffer framework the distance counts full buffers;
  `Full` says that only the last buffer of a run may have room left, and when
  that one has been given back no other is in use.
* *Outcome.* Which items have been processed is read off the state: in the lock
  framework off `head` and the processors' hands (`Unprocessed`, `InHand`, `Ready`), in
  the buffer framework off the status of the buffer and the position in it
  (`Outcomes`), in the other two off `item_status` (`Unprocessed`, `Outcomes`).
* *Return value.* Except for the buffers, a processor publishes the status before it
  stores the value, so the status alone does not tell the consumer that the value is there. In
  the lock framework the post of the cell comes after the store. In the semaphore
  framework a post is not for a cell, and the lemma `NotReturning` counts: if the value of
  the consumer's cell were still to be stored, this cell would be the last finished one of
  its processor (`LastFinished`), hence the only one, and the consumer could not have
  had a post (`Counted`). The spinning framework has no post: there the value is what
  finding 1 says, and `ImplementsOrder` leaves it out.
* *End.* `Ended` (in the buffer framework `Going` and `Counted`): the consumer leaves
  only when everything made has been consumed. In the spinning framework's mode 2
  the caller consumes and processes as well, and `LastClass` says that it alone
  handles the cells of the last class.

The buffer and the spinning framework are covered for any number of runs, the other two for
the first one, which is as far as finding 2 lets them go: `NeverEmpty` is what
remains of the lock framework afterwards.

### MemPoolProofs

`DataIntact` and `ImplementsAllocator` say nothing of the free lists, on which
everything depends: the pool writes its links into the words of free items, and what
`malloc` hands out is what the last link happened to say. `PoolInv` says what the links
are:

* `Items`: what is in use or protected has been carved from a block of its pool
  (`Carved`, all places below `Fresh`), and the two do not overlap;
* `FreeLists`: the first words of some carved items that nobody holds chain the free list
  of their pool, each once (`Chained`, see below);
* `DirtyList`: the *last* words of some protected items chain the dirty list; that they
  have more words than their user asked for is why `DataIntact` survives the link, and
  why `free()` looks at the length; `dirty_list_length` is their number;
* `Vector`: the protected items that are not linked are found in the vector, each once,
  from the place `recycle` has come to. An item the vector had no room for is
  in neither, and lost;
* `Carving` and `Pools`: the counters of blocks and places are such that a new place lies
  behind all others of its pool, and the index of sizes leads to pools that exist.

An address is number, block and place in one product (`Address`), so that two
places are apart because a quotient is unique: the lemmas at the beginning do that
arithmetic once. `Counts` needs a sum of products over the items in use,
for which `SumOf` is defined without recursion and shown to agree with the fold of
`Accounting`; that `total_allocated` is never negative (`TypeCorrect`) follows from it.

### HashTableProofs

`TableInv` is about the writer, who is alone. `Chains` says, for each place it may be at,
which nodes the buckets chain: all of them, all but the one being added or taken
out, or, within `rehash()`, some of them (`M`) in the new array by their new position and
the others in the old one. `Map`: the nodes inside stand for the contents, each key
once. `ChainsSound` restates the first in the words of the run, where a chain is
followed; `IterationsComplete` follows an iterator (`Stands`): it is at a node of a
position, with the rest of that chain and all later positions still to go
through, and each step takes one node off this set.

The reader is the hard part. It holds no lock and stands on nodes that the writer may
unlink and free under it. `Seeking` says four things of a reader inside:

* `AtPlace`: it read array and size of the same table, and while it is inside the pool
  protects what it frees, or the writer is at rest;
* `Knows`: what it has found was the answer at some moment since it came;
* `Expects`: if the key has been present all the time, the node that has it is ahead of
  the reader (`Ahead`: every set closed under links that has the reader's node has that
  one too);
* `Meets`: there is a set of nodes, closed under links, that holds the reader and every
  linked node, in which nobody is at the node being filled, and in which no node has the
  key with data that were never the answer. Unlinked nodes stay in it: their links
  still lead back into the chain.

Three facts do the work: a node that is unlinked leaves everything else ahead of
whoever it was ahead of (`AheadUnlink`); a node is filled before it is published, and
published at the head, where it misleads nobody; the pool gives out only nodes outside
that set. Without `QuietRehash` `AtPlace` is false at once, which `hash_range` shows.

### ContainerProofs: the lists

`ListsSound` follows the pointers, and no step of an insertion or a removal says where
that leads. `ListInv` turns it round: there *are* sequences, one for each list (`L`), that
the pointers spell out (`Spelled`: the head is the first node, `next` the one after,
`prev` the one before or the list); no node is in them twice (`Distinct`), the sorted
ones are sorted (`Ordered`), and a node with a `prev` is in one. A step is then a new
`L`, which differs in one place: `SpellsInsert` and `SpellsRemove` say which four
pointers make that change (`Hooked`, `Unhooked`), provided that the nodes of all other
lists keep theirs (`Elsewhere`), which `Distinct` gives. The operations are shown to
write just these: `WalkHooks` that `insert_node_after` stops where the node `Fits`,
although it looks only for the first node that is not less; `RemoveStep` that the list a
head names is the one it heads.

`ListInv` quantifies over all sequences, which TLC cannot; what the run checks is
`ListsSound`, and the proof ties both together: the walk of `Chain` along `next` reads
off `L` (`Walked`, `ReadOff`, by induction on the steps), so that `Sound` follows, and
`Implements` as well, the step of `L` being that of `NodeLists`.

### ContainerProofs: the indexed heap

Between two operations `HeapInv` is what one expects: `Heaped` says that the array holds
each waiting item once, that `hpos` says where, and that no item costs less than its father.
`HeapsSound` is read off it, with a lemma that an array without repetition is no longer
than there are items. All the work is inside an operation, where the array has a hole and
the heap order is broken around it. `Sited` is the bookkeeping with a hole: all items
but the one in hand are at their places, except that nothing is at the hole.
`OrderedBut` leaves the hole out of the order, and lets its sons be compared with its father
instead. What differs between the loops is one condition more: going up, the
item in hand may stand above the sons of the hole (`FitsAbove`), going down, below its
father (`FitsBelow`). `ClimbTurn` and `SinkTurn` show that a turn keeps these and moves the
hole; that there are enough turns follows since the hole moves strictly up or
down; when the loop stops, the other condition holds as well, and the array with the item put in is
`Heaped`. `Climbs` and `Sinks` are the functions of the turns, which have to be shown to
exist before anything can be said of them. `RootLeast`, by induction on the place, gives what
`Pop` promises, and `HeapImplements` compares the items and costs before and after.

### ContainerProofs: the segment tree

`SumsRight` speaks of one answer and one array, the code of nodes each of which may hold an
assignment or an addition back from everything below it, and of sums below a
covered node that have been out of date for any number of steps. `TreeInv` says that there
is a *view* `B`: for each node, the array as this node sees it, with what waits at the
node and below it, and nothing of what waits above. Three local facts connect it with the nodes
in use (`Local`): the node's `getSum` is the sum of its view (`Counts`); the view of a covered
node is `v + add` everywhere; that of an uncovered one is its sons' views with its `add` on top
(`Relates`). At the root the view is the array. Below a covered node the views are stale, and
still consistent among themselves: this is why nothing has to be said about time.

The steps of the argument:

* *Shape.* `room` is enough: a node for n positions has twice the room of its halves
  (`SonFits`), so that the sons of a node of two positions or more are in the vector
  (`UsedSons`), and the walks never leave it. Spans of nodes at different sons are apart.
* *Sums.* `Total`, a fold, splits at any place, and an amount added to each element counts
  once for each (`TotalSums`, from the sums in `FiniteLemmas`).
* *Walks.* `UpdatesExist` and `QueriesExist`: the recursive functions over calls exist,
  since a call makes only calls at nodes with fewer positions (`Descend`).
* *Pushing down.* `RewriteLocals`: to rewrite a node is to rewrite its view.
  `Level`: after `pushDown` both sons have the node's own view, which needs of
  the node `Relates` but not `Counts`, and so serves before and after the sons are visited.
* *A whole walk.* `Outcome`: a walk that begins at a node changes nodes and views at
  and below it only (`Under`), and leaves it a view that differs as the call says. `UpdateNode` and
  `QueryNode` show that for a call from the calls it makes, `Both` joins the two sons.

`TreeSums` then follows, and `TreeTypeCorrect`: no index leaves the vector.

### FiniteLemmas

Induction over the elements of a fixed finite set and over numbers, as closure of a set
of subsets or numbers (the library's theorems take an operator, which no
installed prover can instantiate); least and greatest elements; sums over
finite sets, and that a fold adds up the same; and chains. `Chained(S, head, link)`
says that `S` can be numbered so that `head` is the last, and each links to the one
before: there is no recursion, and the lemmas say what pushing, popping and dropping
an item does, and that whoever follows the links comes to all of `S`.

### Only model-checked

The red-black trees, the Fibonacci and the leftist heaps and the algorithms (whose loops are
recursive operators, or compute over data), the refinement `KeepsElements`, and every liveness property, `RunReturns` of the
frameworks and `SeekReturns` (TLAPS 1.4.5 has no rules for fairness that would serve).

## Not modelled

In the frameworks, failures of allocation and of `pthread_create` (whose result
is compared the wrong way round, `0 > ...`, so that the code does not notice them
either) and null function pointers. In the pool, `create()` with a list of sizes
and the statistics `mem_consume` and `free_mem`; in the table, readers inside
`rehash()` beyond what `hash_range` shows, and `clear()`, which does not compile.
Everywhere, failures to allocate the tables themselves, logging, counters and
clocks; weak memory and compiler optimisation of the spinning loops.

* *Floating point*: Geometry.cpp, FFT.cpp, LPSimplex.cpp, matrix_linear.cpp and the two
  ML programs compute with rounding and tolerances. TLC has no such
  numbers, and over rationals the models would be of other programs.
* *Code that does not compile or has no defined result*:
  Undirected_graph_component.cpp, binaryHeap.cpp, hash_tables.cpp,
  `change_sorted_node` of the lists, `clear()` of the hash table, the declared but
  unwritten `upperBound` and range `remove` of the trees.
* *Copies*: fractions.cpp of fraction.cpp, ACAuto_old.cpp of ACAuto.cpp.
* *Left for later*: `split`, `setRoot` and `getRoot` of RBTree.cpp, BigInteger.cpp.
* *No state and no algorithm*: file_reader, struct_print, toolFunctions, the
  language demonstrations, the contest template, testers and headers.

## Plan

In this order; each step ends with runs, mutants and map entries.

1. **Memory.** `create()` of the pool with a list of sizes, which leaves the sorted index
   unset.
2. **Reuse.** `NeverEmpty` holds in every run; the other theorems about the lock and
   the semaphore framework are about the first. To prove: what a second run may rely on when the
   first one ended with `tail` at a multiple of the number of processors.
3. **Containers.** `split` of RBTree.cpp; a violation run for `FibHeap::merge`; the
   leftist heap without recursion, so that its part of `HeapsOrdered` can be proved.
4. **Numbers.** BigInteger.cpp in base 3: carries and borrows.
