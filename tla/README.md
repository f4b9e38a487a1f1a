# nserver: models and proofs

nserver is a small statistics server in C.  A client connects over TCP, sends
one command per line (`/create`, `/sample`, `/mean`, `/dump`, `/delete`,
`/list`, `/store`, `/load`) and gets one text back per command.  The listener
forks a child for each connection; the child keeps names and their statistics
in its own memory and shares one gdbm file with the other children.

This directory holds TLA+ modules of the server, the TLC configurations that
check them on small instances, and TLAPS proofs for instances of any size.
`PROJECT.json` lists the runs, the mutants that show what each property can
detect, the lines each definition stands for, the findings and the hazards.

    tlc -config MCSession_names.cfg MCSession     # any run: see PROJECT.json
    tlapm SessionProofs.tla                       # any *Proofs module

## The system

| part | source | state it keeps | operations | correct when |
|---|---|---|---|---|
| listener | `bin/nserver.c` | listening socket, `sockfd_c`, children, SIGCHLD | start, accept, fork, close, reap | connections are private, no zombie stays, every queued client is served, the service stays up |
| socket setup | `nsocket.c` | none | `get_socket` | a socket bound to PORT or -1 |
| session loop | `nserve.c` | `out`, `cmd`, the socket | receive, run, respond, close, time out | each line is run once and answered; a failure ends the session |
| commands | `ncmd.c` | none | `process`, `sanitize`, `check_cmd`, `cmd_parts`, `find_function`, `check_args`, `call_function` | what is called is what the line says; the answer tells what the key store did |
| key store | `protocol.c` | `tst`, the Records and the blocks their `st` point to | `sscreate` ... `ssload` | live names own their statistics, nothing is lost, a sample counts where it should and nowhere else |
| statistics | `stats.c`, `stats.h` | one `Stats` | sample, mean, print, parse | the five numbers are those of the samples that count for the name; a stored text is stable |
| database | `db.c` | `nserver.db`, its lock | `db_init`, `db_store`, `db_load` | calls of several sessions are atomic, no lock outlives a call |
| ternary tree | `tstree.c` | nodes | insert, search, search_prefix, traverse, collect, destroy | a set of names with longest-prefix search; every node is freed once |
| dynamic array | `darray.c`, `darray.h` | `contents`, `end`, `max` | create, push, pop, set, remove, expand, contract, sort, find, clear, destroy | nothing is written behind the memory, the elements are those put in |
| array algorithms | `darray_algos.c` | none | three sorts of its own, three of the C library | the elements in order, none lost |
| hash map | `hashmap.c` | buckets of nodes, `salt` | create, set, get, delete, traverse, keys, destroy | every node is in one place; the map knows what was set and not deleted, and nothing else |
| strings | `bstrlib.c` | `data`, `slen`, `mlen` | third party: split, trim, compare, concatenate | the NUL is within the memory |

How they interact: the listener forks; the child runs `nserve`, which calls
`process`, which calls one `ss...` function, which calls the tree, the
statistics and the database.  Children share nothing but the database file and
the listening socket they inherit.  The listener's own `tst` is empty, so each
session starts from an empty tree.

The dynamic array, its algorithms and the hash map are compiled in, but no command
reaches them: `TSTree_collect`, which returns an array, is called by tests only.

What is hard here: names that are deleted keep a pointer to freed memory; calls
that fail half way (the error label releases little) leave the tree as it was
at that point, and what saves the program is that the session then ends;
sessions contend for a file lock that is taken, released and taken again within
one call; children end at any time and their signals coalesce; `recv` gives
bytes, not lines; memory that cannot be had is often noticed by nobody.

## Modules

| module | models | state and actions |
|---|---|---|
| `Stats` | `stats.c` | no state: `Stats_create`, `Stats_sample`, `Stats_stringify`, `Stats_unstringify` on records of five numbers; `Stats_sample` gives the set of what rounding may make of them |
| `Protocol` | `protocol.c` | `tst` (for each name its Record), `mem` and `free` (the heap blocks), `db`; one operator per `ss...` function, with its return value as a parameter; `ssX_aborts` where the C library or a null pointer ends the process |
| `Session` | `nserve.c`, `ncmd.c` | `pc` ("recv", "respond", "closing", "exited") and `out`; one action per command (`NS_CREATE` ... `NS_LOAD`), `NS_NOP` for a line that is no command and for a time-out, `Respond`, `Close`, `Abort`, `Connect` for the next client, `OtherSessionStores` for the sessions beside it |
| `DbSpec` | what `db_store` and `db_load` promise | the table, the call each session is in, what it got |
| `Db` | `db.c` | one action per library call: the open and the close of `db_init`, the open in the mode of the call, `gdbm_store` or `gdbm_fetch`, the close, the close at the error label; `lock` and `cache` are gdbm's |
| `Server` | `bin/nserver.c`, `nsocket.c` | `pc` of `main`, the address `get_socket` tries and the socket it has, the accept queue, who holds which descriptor, the children, `pending` and `handler` for SIGCHLD |
| `NameMap` | what `tstree.h` promises | the names, the call in progress, its result |
| `TSTree` | `tstree.c` | the nodes as functions (`splitchar`, `low`, `equal`, `high`, `value`) and the locals of the call; one action per node a loop or a recursion comes to (`InsertLow`, `SearchEqual`, `CollectDown`, ...); `TSTree_traverse`, `TSTree_destroy` and `TSTree_collect_keys` as operators on the tree at rest |
| `Selection` | loops that keep some of what they come to | no state: `Select`, used by `Command` and `TSTree` |
| `Bstr` | the part of `bstrlib.c` the server uses | no state: bstrings as their characters with the size of the memory; a call that allocates gives the set of its results |
| `Listing` | `/list` and the destruction of a tree | `traverse_tree` and `sslist` on the state of `TSTree` |
| `Command` | `ncmd.c` up to the call | no state: from the bytes in `cmd` to the calls `process` may make; beside it, what a line means by the README |
| `Stream` | `nserve.c` with its socket | `cmd`, `out`, bytes on the way, answers not read, what the client has sent and read; `slurpsock`, `Process`, `Respond`, `Close`, `TimesOut`, and the client |
| `DArray` | `darray.c`, `darray.h` | an array with the memory it has, and a caller (`Push`, `Pop`, `Set`, `Remove`, `Resize`, `SortAdd`, `Clear`, `Destroy`) |
| `Sorting` | `darray_algos.c` | no state: each sort as a function of the contents |
| `Hashmap` | `hashmap.c` | buckets (arrays of `DArray`), the nodes allocated and their keys |

Which uses which: `Session` EXTENDS `Protocol` EXTENDS `Stats`.  `Db` takes
`DbSpec` as an INSTANCE and implements it; `Protocol` assumes of the database
what `DbSpec` says.  `TSTree` takes `NameMap` as an INSTANCE, with
`names <- Stored`, and implements it; `Protocol`, whose `tst` is a function on
names, assumes of the tree what `NameMap` says.  `Listing` EXTENDS `TSTree` and
`Bstr`.  `Stream` EXTENDS `Command` EXTENDS `Bstr`; where `Command` ends, with a
function and its arguments, `Session` begins.  `Hashmap` and `Sorting` EXTEND
`DArray`, and their arrays are its.  `Server` has the processes in which sessions run.

`DbProofs`, `ServerProofs`, `SessionProofs`, `StreamProofs`, `TSTreeProofs` (with
`Listing`) and `HashmapProofs` (with `DArray` and `Sorting`) hold the theorems about the module
of their name; `Recursion` and `BstrProofs` hold the lemmas about recursive
functions and strings that they share.

Each `MC...` module gives model values to the module it EXTENDS.  Definitions
marked "mutant" play no part in a specification: each is what a definition of
the module would be after a plausible slip, and `PROJECT.json` names the
property that notices when it takes that definition's place.

### Choices worth knowing

* A command is one step of `Session`: a child is single-threaded and shares only
  the database, so nothing can come between.  That a database call is one step,
  too, is what `Db` justifies: it implements `DbSpec`, where a call takes effect
  at one instant, a successful one certainly, a failing one perhaps.  `ssstore`
  allows just that: with "db" among the faults it may fail and have written.
* Doubles are integers in units of 1/Grid hundredths.  What is kept of floating
  point is the rounding the program asks for, `%.2f`, and that of `+` and `*` in
  `Stats_sample`: the result may be any number within one part in `Precision` of the
  exact one, as the standard model of rounding has it with 2^53.  Overflow is left
  out.  `Stats_mean` is only asked for its sign, which the sign of `sum` gives;
  `Stats_stddev` is not modelled, and nothing is claimed of what is under its root:
  it can be negative even for statistics that were only sampled (0.1 three times).
* The heap is the set `Blocks` of blocks of the size of a `Stats`.  `free[b]` says
  how often block b is in the free list, so a double free is a 2 (bounded by
  `MaxFree`) and gives the block out twice.  The allocator may also notice and
  abort (`ssdelete_aborts`).  A freed block holds any value of `Junk`.  Other
  allocations of the same size are not modelled, so a dangling pointer meets
  `Stats` only.
* `redeleted` records that the client has deleted a deleted name; from then on
  the heap of the session is undefined, and the ownership properties speak of
  sessions where it is FALSE.  `loaded` and `counted` are history for
  `StatsOfSamples`: which names came from the database, and which samples count for
  each name since its record was created.  A sample counts for the name and for its
  nearest ancestor, if that one is not deleted (protocol.c:86-96).  It does not count
  for ancestors farther up, nor for any if the nearest is deleted.
* Names are sequences because the tree looks for prefixes; the characters mean
  nothing.  A line, a response and a database text are values, not characters.
* `n` of a loaded text comes back through `atoi`, samples through `strtod`: both are
  taken as the number they spell.
* gdbm is external: it locks without waiting, shared for readers, exclusive
  otherwise; a process works on its own cache; `gdbm_close` unlocks even when it
  fails.  A crash inside `gdbm_store` is not modelled.  `faults` is chosen once
  for a behaviour, all of `Faults` or none, so that one run has both the claims
  under failures and those where nothing fails.
* A handle that `gdbm_close` has freed and that the error label closes again may
  kill the session.  For everybody else this is the same as the failure that is
  returned otherwise, since that ends the session, too.
* `get_socket` leaves a socket open when it cannot be bound.  It has no name, so
  that nobody meets it, and the model drops it.
* `pre` and `under` of `TSTree` are history: the characters on the way to a node
  and the names whose insertion has come through it.  No action reads them; the
  proof needs them.  The caller searches for a name before it inserts it
  (`MayInsert`), as `sscreate` and `ssload` do.
* In `Stream` the names of the commands are the real ones, and so is each
  character, because `cmd_parts` and `check_cmd` depend on them; the sizes are
  smaller.  What a command does is left to `Session`: here a call gives a text or
  fails.  The client may send pieces, send without waiting, not read, go away,
  or meet a child without memory (`mode`, one set per behaviour).
* `oom` in `Bstr` and `Oom` in `DArray` say that an allocation may fail, at any
  call.  A result in which nothing defined can happen any more (memory behind an
  array that could not grow) ends what the model follows: `spoilt` says so.  Where
  `Hashmap_delete` destroys a bucket that could not grow, it may find zeros behind
  the memory and go on, or the process ends (`Dies`).
* The key buffer of `TSTree_collect` is reallocated for each character, and only the
  callee hears of its new address.  Where it stays in place, `Keycat` and
  `TSTree_collect_keys` say what is in it, as long as it holds that (`BufferHolds`:
  the sizes are counted per level of the recursion, the characters are not).  Where
  it moves, or is too small, the behaviour is undefined, and the model ends
  (`CollectFaults`).
* Keys of the hash map are model values with a given hash; `default_hash` and
  `fnv_hash` are any function.  `Hashmap_set` sorts the bucket with a comparison
  that takes the addresses of elements for elements: what comes out is any order.
  `entries` is history: how often the caller has put a key in and not deleted it.

## Runs

| run | instance | shows |
|---|---|---|
| `session_names` | 3 names, each a prefix of the next; 3 blocks, 2 samples, at most 3 per record; one stored text to load; sums off by one part in 24 | `NoCrossTalk`, `StatsOfSamples` |
| `session_faults` | 2 names, 2 blocks, all four kinds of faults | `TypeOK`, `Ownership`, `OpenSessionHasStats`, `NoStatsLeak` |
| `session_figures` | 1 name, 3 samples among them a half and a negative, stores of another session, deleting twice allowed | `DbTextsStable` |
| `db_faults` | 3 sessions, 2 keys, 1 text; in one half of the behaviours failures and crashes | `TypeOK`, `WriterExcludes`, `NoLockOutsideCalls`, that `Db` implements `DbSpec`, `LoneCallSucceeds`, `CallsReturn` |
| `server_fair` | 3 clients, 3 processes, a backlog of 2, 2 addresses, failures | `TypeOK`, `ConnectionsArePrivate`, `ZombiesAreNoticed`, `ListensOnPort`, `ZombiesAreReaped`, `ClientsAreServed`, `PortIsReleased` |
| `tree` | 6 names over 3 letters, 6 nodes; INT_MAX is 31 | `TypeOK`, `NoDuplicateInsert`, that `TSTree` implements `NameMap`, `ListIsExact`, `AccumulatorHolds`, `DestroyFreesAll` |
| `stream` | a buffer of 9 bytes, answers of 12, 2 lines out of 9, room for 1 answer, 6 modes | `RunsAsSent`, `WordsAreRun`, `PartsFit`, `LinesAreAnswered` |
| `containers` | arrays of up to 5 elements, expanded by 2; 4 keys, two of them with one hash, 2 buckets, 4 nodes, a key put in at most twice; memory may be missing | `PushStaysInside`, `HoldsItems`, `UnusedAreNull`, `FindFinds`, `SortsSort`, `NodesAreOwned`, `KeysAreThoseSet` |
| `session_alias`, `session_negative`, `session_overread`, `server_accept` | small | the findings below |

Why the bounds are enough.  Three nested names are the fewest for which the
nearest ancestor is not the only one; two are the fewest that can share a block.
Blocks as many as names let every name live, and running out of them is a case
of its own ("oom").  Three samples are one more than it takes for min, max and
sum to differ between a record and its ancestor.  One part in 24 is coarse enough
for the sum of the squares of three samples to come out differently in a record and
in its ancestor; where other properties are asked for, `Precision` is so large that
no result in the run is off, since nothing they say depends on it.  With three sessions one can
come between the two opens of a second while a third holds the lock; two keys
are what it takes to lose one entry by storing the other, and a second text
would only rename.  Three processes allow two children to end under one signal
while a third is forked; two addresses are one that fails before another.
`CanServe` keeps the clients within the processes, as the limit on processes is
a fault of its own ("fork").

The six names of `tree` have low, equal and high children at two levels, two
nested prefixes, and in some orders a name that ends where another goes on; there
are nodes for all of them, and `NoMemory` may refuse each.  INT_MAX is 31 so
that the text of `/list` meets every step of `balloc`, the doubling, the exact
size and the failure.  In `stream` the lines are: a command with and without
newline and with a carriage return; one with an argument, with two blanks in a
row, with as many bytes as the buffer has and one more; one with an argument too
many; and an empty line.  The list may be empty, end like an answer, or be
longer than an answer may be.  Two lines are the fewest where the first leaves
something in the buffer for the second.  Five elements cross the expansion of an
array twice and give all shapes of a partition and of a heap of three levels;
of the four keys two share a hash, a third shares their bucket and the fourth has a
bucket of its own, whatever the salt.

`MaxN`, `Stored`, `MaxFree`, `Backlog`, `CanServe`, `MaxLines`, `SndBuf`, `MaxEnd`, `MaxEntries` and
`OneAtATime` (the array or the map) are the bounds; they stand in guards, and the
proofs do not depend on their values.

Deadlock is checked except in `server_fair`, where nothing is left to happen once
the listener and its children have gone; in `tree`, where the process aborts
when calloc fails; and in `stream`, which ends with its connection.

Fairness.  `Db!FairSpec` lets every session inside a call take its next step,
because the kernel schedules it and no library call waits; it forces no client
to call.  `Server!FairSpec` is weakly fair for `main`, for the delivery of a
pending signal, for the handler and for a forked child up to `nserve`; it is not
fair for the end of a session or for connecting.  `ClientsAreServed` holds because
sessions run beside the listener, and because the accept queue is served in
order.  `Stream!FairSpec` lets the child run, its time-out of 30 seconds included,
and lets a client read what there is; nobody must send.  `LinesAreAnswered` is
therefore said of clients that read: one that does not keeps its child in `send`
for ever, since only receiving has a time-out.

## Findings

Each is a run in which TLC finds the claim violated.

* `session_alias`.  `ssdelete` frees the `Stats` of a deleted record again; the
  next two names created share one `Stats`.
* `session_negative`.  A mean below zero is taken for the error value, although
  the sample was counted; the session ends.
* `session_overread`.  Values are stored without their NUL, and the text fetched
  is read as a C string: the last number may pick up bytes behind it.
* `server_accept`.  A failing `accept` is noticed only when its -1 is closed, and
  then the listener returns from `main`.

Seen while modelling, without a run:

* Names and commands.  `/load` fails until some name was created in the session
  (README.md:73 knows no such condition).  `/list` with all names deleted sends an
  empty response, that is, nothing: the client waits until the time-out.
  README.md:63 shows `/sample NAME`, but the command needs a value.  The texts of
  errors are overwritten by "closing connection".  `/store` fails while another
  session has the file open, and ends the session.
* Lines.  A line longer than CMD_MAX_SIZE bytes with its newline is cut, and the
  rest is taken for the next command; so is what a `recv` leaves of a line that
  comes in pieces.  Of several lines in one `recv` the first is run and the others
  are dropped.  A carriage return stays on the last argument: only the name of a
  command is trimmed.  When memory is missing `bsplit` leaves a part out
  (bstrlib.c:2819, ncmd.c:82), and a line with a part too many may run: `/list b` as
  `/list`, although `check_args` is there to refuse it (ncmd.c:157).
* `TSTree_collect` from a prefix that is no name misses names.  From a name it also
  gives those low and high of the node it ends at (tstree.c:122, :130): with a and b
  in the tree, collecting from a gives two keys.  Where the tree branches the keys
  are spelled wrong, because all levels of the recursion append to one buffer; after
  siblings (m, aaaaaa and z, collected from m) the buffer is too small for them; and
  when `realloc` moves it, its callers go on with memory that is gone.
* Containers.  `Hashmap_delete` of the node that is last in the order of its bucket,
  where the code means the only one (hashmap.c:329, :333), destroys the bucket with
  the nodes of other keys: data that nobody deleted is lost.  `KeysAreThoseSet`
  therefore gives a key that shares its bucket an upper bound only.
  `DArray_resize` sets `max` before `realloc` is asked, so that after a failure a push
  writes behind the memory, and `Hashmap_set` does not look.  `DArray_contract` makes
  a short array longer, by slots that are not cleared.  `DArray_set` behind the end
  does not count the element.  `DArray_clear` leaves the pointers it has freed.  The
  copy `DArray_shallow_copy` makes has an end of 0.

## Proofs

TLAPS proves the following for all values of the constants that meet the ASSUMEs
of the modules (TLC evaluates these on every run).

* `SessionProofs` begins with printing and parsing.  `Nearest` errs by at most half
  a unit and is idempotent, so a text read back prints the same
  (`StringifyStable`).  `SampleStatistics`: what a sample makes of the statistics of
  some samples are statistics of those and one more, for any `Precision`; that
  `Totals` is a function at all is shown first (`TotalsDef`).  Then `TypeOK`; `Ownership`, which is inductive together with `TypeOK`;
  `DbTextsStable` from `StringifyStable`.
  `OpenSessionHasStats` and `NoStatsLeak` speak of "recv" and "respond" and are not
  inductive, because the next session starts in "exited": `LiveHaveStats` and
  `UsedBlocksAreOwned` say the same of every state but "closing", where the debris
  of a failed call lies, and are.
  `NoCrossTalk`: under `Ownership` a block handed out or released is no other live
  record's (`KeepsStats`), and a sample goes to the two blocks of a name and of the
  one nearest ancestor it can have (`SampleCounts`, `NearestAncestor`).
  `StatsOfSamples` follows: a record that becomes alive is empty or loaded
  (`NewRecord`), what is not sampled keeps its statistics and what counts for it
  (`KeepsStats`, `KeepsCounted`), and what is sampled gets one sample more on both
  sides (`SampleStatistics`).
* `DbProofs`: the inductive invariant is `TypeOK`, `Control` (where a session is,
  what it holds, what it got) and `WriterExcludes`, whose second half, that a cache
  is the file as long as its session holds a lock, makes `gdbm_store` the
  linearization point of a store and `gdbm_fetch` that of a load.  From it:
  `NoLockOutsideCalls` and the refinement `Spec => DbSpec!Spec`.  `LoneCallSucceeds`,
  which speaks of the behaviours without faults, has the further invariant `Lone`.
* `ServerProofs`: `TypeOK`; `ZombiesAreNoticed`, inductive with it;
  `ConnectionsArePrivate`, strengthened by `Unserved` (a connection that is about to
  be handed to a child has none yet); and `ListensOnPort`, strengthened by `SetUp`
  (what `main` has of a socket at each label).
* `TSTreeProofs`: that the tree implements `NameMap`, for any names and any order of
  calls, and that the assertion of `TSTree_insert_base` never fails.  The names
  that have come to a node are its `under`; the invariant `Ways` says that each of
  them has gone on to the child its next character calls for, or ends there, the
  one being inserted excepted.  A search for a stored name therefore stays among
  the nodes the name is under (`SearchingAt`), and one that falls off the tree
  proves that the name is not there; a prefix search has every longer candidate
  before it (`PrefixingAt`).  `Shapes` says that what leads to a child is what leads
  to its parent, with the parent's character if it is the equal one, so that a
  value is the name the way to it spells.  `Fresh` is calloc's zeros.

  For whole trees the inductive invariant is `Shaped`: calloc gives the nodes in
  order (`InOrder`); a child comes after its parent, has no other, and hangs in one
  place of it, and every node but the root has a parent (`Family`); no name is kept
  twice (`Once`).  `TreeOK` is not enough for this: it says what leads to a node,
  not that only one pointer does.  The order of the nodes is what
  the induction over a tree goes along (`TreeInduction`), and what bounds the
  recursion (`Height`).  Two children of a node have nothing below them in common
  (`RangeCommon`, `SiblingsApart`), so each node is met once (`PostsOneToOne`), and
  every node is below the root (`RootReaches`): `DestroyFreesAll`.  A name that
  extends another is below the node of that one (`ExtensionsComeBy`), and what is
  below a node comes before it (`BelowIsBefore`): `TraverseOrder`.  `ListIsExact` is
  then an induction along the traversal: the text so far is a line for each name
  kept, split at its newlines (`PiecesOfLine`), and fits.  The theorem has the
  hypothesis `Fits(most)`: the names have fewer than `most` characters and
  `Cardinality(Stored) * most + 1 <= IntMax`.  Without it the claim is false: a text whose
  size is no int cannot be put together, and `traverse_tree` goes on without the
  name.  In the run `Fits(4)` holds of all states.  `AccumulatorHolds` has no such
  hypothesis.
* `StreamProofs`: `PartsFit`, for any bytes: a list of `bsplit` has an entry for each
  piece, `bstrListAlloc` makes room for as many, and no more are copied.
  `WordsAreRun` is part of the invariant `StreamInv`, which besides says of `cmd` and
  of what is on the way that they are sequences of bytes.  Whatever memory is missing,
  the parts of `cmd_parts` are some of the non-empty pieces of the line in their
  order, each whole or a null pointer (`PartsMayFail`); `check_args` lets no null
  pointer through (`CallIsOfWords`).
  `RunsAsSent` has two halves.  What `process` makes of a line: the words of a line
  are its non-empty pieces, and squeezing the blanks leaves those words with one
  blank between them (`WordsFacts`); with memory, `cmd_parts` gives the words and
  nothing else (`bsplitGives`, `WholeGives`, `PartsGive`); no two commands have the
  same name, so `find_function` can only find the one the first word names
  (`NamesDiffer`, `CommandIsNamed`), and the call spells the line (`CallIsSpelled`).
  A line that is no command gives no call: one that `check_cmd` lets pass because it
  is long enough has no function that fits, and one it turns away is shorter than any
  name (`CommandIsLong`, `ProcessGives`).  What `process`
  is given: `InTurn`, which is inductive with `StreamInv` and `TrafficOK`.  As long as
  the client is careful and has not left, what is on the wire or in the buffer is
  the last line it sent, whole, and no other has been sent that is not run and
  answered; `sanitize` makes that line of the buffer, since nothing but NULs is
  behind what was received (`SanitizedLine`).
* `HashmapProofs`: for the array, `ArrayInv`: what the caller believes it put in is
  what the slots hold up to `end`, `end < max`, and `max` is within the memory, as
  long as no call has run out of it.  It gives `PushStaysInside`, `HoldsItems` and
  `UnusedAreNull`.  `FindFinds` is an induction on the part of the array the binary
  search has left to look at.  For the map, `MapInv`: a bucket counts no more
  nodes than it has memory for, each of them is allocated and hashes to it, none is
  in it twice, and every allocated node is in a bucket.  It gives `NodesAreOwned`.
  `KeysAreThoseSet` needs `CountInv` besides: a key has no more nodes than entries,
  and as many if its bucket is its own.  A node that is deleted takes along only
  nodes of its bucket, and no other is freed (`DeleteCounts`).

  `SortsSort` needs of `ArrayInv` that the elements up to `end` are in memory and,
  where the run says they are sound, numbers.  All four sorts are shown to do one
  thing, `Sorts`: the contents have `Moved`, each place having what a place of its own
  had before, and are `Ordered`.  As a one-to-one function on finitely many places
  leaves none out, there is then of every element as much as before.  Of
  `DArray_fucked_qsort_partition` the loop is followed step by step (`Partitioned`:
  what is less than the pivot, what is not, what has not been looked at), and the
  recursion by induction on how much a call is given (`QsortSorts`).  Of the heap sort:
  a sift down repairs a heap whose root alone may be too small (`HeapBut`), heapify
  makes one of ever more of the array, and `Drained` has the greatest behind it in
  order.  Of the merge sort: `Merged` is what has been taken from each half so far,
  and the induction speaks of both arrays, which the levels of the recursion swap
  (`SplitSorts`: where the two agree before a call, the second is sorted after it,
  and the first has changed nowhere else).  The heapsort of the C library is the
  external definition: whatever order by value is taken, it is one (`PlacesSort`).
  That the recursions end, so that there is a function that is as their definitions
  say, is shown first, by what they are given growing less.
* `Recursion` proves, from the well-foundedness of the numbers, an induction rule
  that takes a set, recursion theorems that take the step, or the body and what
  grows less in it, as functions, and two lemmas about loops (`LoopExists`,
  `LoopKeeps`); `BstrProofs` uses them for `Select`, `Pieces`, `OneOfEach` and the
  sizes of `balloc`, `HashmapProofs` for the search and the sorts.  Everything above
  that speaks of what a recursive function computes rests on these.

The assumptions are those on the constants: names are not empty, `IntMax` is at
least 9, and no character of a name is a NUL or a newline (`TextAssumption`: a
name is part of a command, which `sanitize` ends at the first of either).
Of the commands: none has a name shorter than `CMD_MIN_SIZE` (`ShortestAssumption`;
the shortest, `/mean`, `/dump`, `/list` and `/load`, have the 5 characters of `ncmd.h`:15).

Every invariant of a passing run, and every action property but the liveness ones, is
a theorem.  Only model-checked: the claims behind the findings, which the code
does not keep; and liveness (`CallsReturn`, `ZombiesAreReaped`, `ClientsAreServed`,
`PortIsReleased`, `LinesAreAnswered`), which needs ENABLED and is out of the prover's
reach.

## Not modelled

* The 79 characters a database text is cut after, and overflow of `int` and
  `double`: both depend on the decimal digits of doubles.
* What happens after undefined behaviour: behind the memory of an array that could
  not grow, in a heap after a double free, in the key buffer of `TSTree_collect` that
  was moved away or is too small.  `TSTree_collect` has no property of its own: tests
  alone call it, and what they expect does not hold of other trees (see Findings).
* `Stats_stddev`, whose root may be of a negative number, and the text of `/dump`.
* `default_hash` and `fnv_hash`: nothing the map promises depends on which function
  they are.
* bstrlib beyond what the server calls, and `bdestroy` and `bstrListDestroy`, whose
  result nobody looks at; heapsort, qsort and mergesort of the C library, of which
  one stands for all.
* The macros of `dbg.h`: `check` is the branch it takes; what it prints is left out.
* A client that does not read, as far as liveness goes (see Fairness).

## Plan

What would come next: that the calls of `ssstore` and `ssload` are instances of
`DbSpec`, and the searches of `ss...` calls of `NameMap`.
