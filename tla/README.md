# TLA+ models of ReadSideCache

ReadSideCache keeps copies of the blocks of remote files in one local file, the
cache file, and survives restarts by reading its structures back. This directory
holds TLA+ modules that model it, the TLC configurations that check them on small
instances, and proofs of their main invariants for every value of the constants.

## The system

| Part | Source | State | Operations |
|---|---|---|---|
| Cache file layout | `RSC.h`, `mkrcf.c` | master block, file header section, block pointer section, block section; a second file for the blocks of `1CACHESIZE` | `mkrcf`, with `-r` or `-rh`, formats it (`create_cmfile_with_data`) |
| Free lists | `RSC.c` | heads and tails in the master block, `next` in headers and block pointers | `Alloc_file_block`, `Return_file_block`, `Alloc_file_header`, `Return_file_header` |
| Table of cached files | `RSC_m.c`, `cpp/mapx.cpp` | `g_RSC_table_m`: per file a header, a map and a doubly linked list of blocks | `Insert_RSC_table`, `Read_RSC_table`, `Rm_file_block_table`, `Truncate_file_block_table`, `Init_RSC_table_m` (`ReadWholeDiskToRSCTable`, `Read_cache_to_RSC_table`) |
| Stale list | `RSC_m.c`, `cpp/mapx.cpp` | `g_stale_list`: closed files, oldest first | `Append_to_stale_list`, `Rm_file_from_stale_list`, `Rm_node_stale_file` |
| Prefetch threads | `prefetch.c` | table of queued paths, per worker a queue, a mutex, a condition variable, an exit flag | `QueueCMHToRSC_fsize`, `fetchworkercmh`, `ReadCMHToCache`, `Block_fetch_thread`, `Wakeup_fetch_thread`, `Finit_fetch_thread` |
| Hash maps | `cpp/mapx.cpp` | wrappers of `std::map` and `std::unordered_map` | lookup, insert, remove, `Block_tab_truncate` |
| Configuration | `util.c` | sizes and paths of `rsc.conf`, `RSCBLKSIZE` | `readrscconf`, at the format and at every start |
| Enabled file systems | `cpp/mapwrapper.cpp` | a set of names | filled once from a text file |
| Checker | `rscck.c`, `print*` | none | prints the structures |

User threads (a FUSE file system that is not in this repository) call
`Read_RSC_table`, `Insert_RSC_table` (after a read of the server with
`KEEPCURRENT_F`, after a write with `OVERWRITTEN_F`), `Rm_file_block_table`,
`Truncate_file_block_table`, the two stale list calls on open and close, and
`QueueCMHToRSC`. The prefetch workers call `Insert_RSC_table` and
`Rm_file_block_table`. All of them share the table under `g_RSC_table_m->mt`
(recursive), the cache file under `g_RSC_freelist_mt` (recursive), one entry under
`fbt->mt` and the stale list under `g_stale_list.mt`.

What is hard in it: the same list exists in memory and on disk and is written
piecemeal; three lists (free, stale, a file's own) pass nodes to each other under
different mutexes; truncation releases the table mutex halfway; eviction runs
inside an insert; entries are used after the mutex that protects them was
released; the queue, the wait and the exit flag of the workers interleave with
callers and with the shutdown. `PROJECT.json` lists these hazards at their lines,
with the properties that cover each.

## Modules

| Module | Contents |
|---|---|
| `RSCTable` | free lists, table of cached files, stale list; inserts, eviction, removal, truncation |
| `RSCPool` | the abstract pool of blocks that `RSCTable` implements |
| `RSCCrash` | `RSCTable` with the writes of each step, a stop between any two of them, and the start that reads the cache file back |
| `RSCEntry` | one step per mutex: the table entries and the stale list's pointers while several threads insert, read, truncate, remove, open and close |
| `RSCFormat` | operators: what `rsc.conf` says and where `mkrcf` puts the sections |
| `RSCData` | the bytes: format, start with a configuration, inserts, writes, truncations, what a read returns |
| `RSCPrefetch` | prefetch requests, the workers' queues and loops, the copy of a file, shutdown |
| `MCRSCTable`, `MCRSCCrash`, `MCRSCEntry`, `MCRSCData`, `MCRSCPrefetch` | instances for TLC |
| `RSCInduction` | lemmas: induction over naturals with sets, what a walk along `next` reaches, lists that lose or gain a node |
| `RSCTableProof` | type correctness and the invariants of the structures in memory |
| `RSCTableDiskProof` | the invariants of the lists on disk, no block or header lost; `RSCTable` implements the moves of `RSCPool` |
| `RSCCrashProof` | types and the completeness of the cache file across stops and starts, in `RSCCrash` |
| `RSCCrashListsProof` | what a stop leaves of the lists and what a start makes of them: restarts, tails, bytes, sharing, losses |
| `RSCEntryProof` | types, mutexes, blocks, the stale list and the absence of deadlock of `RSCEntry` |
| `RSCPrefetchProof` | types, one worker per file, status and the queues of `RSCPrefetch` |
| `RSCDataProof` | the parser, the layout and the bytes of `RSCFormat` and `RSCData` |

### RSCTable

`mb`, `hdr` and `bpn` are the master block and the two sections of the cache file;
`tab` is `g_RSC_table_m->tab`, with the list of a file from `fbt->header` to
`fbt->tail` as a sequence and the copy of its header (`fh_m`) as fields; `stale` is
the stale list. A loc is an index, not a byte offset: the code converts with
`HEADERINDEX` and `BLOCKHEADERINDEX`. A block pointer and its cache block have the
same index (asserted at `RSC.c:116`), so `memloc` is left out. The bytes of the
blocks are left out: no property of this module depends on them.

Calls can be in progress at once where the mutexes allow it: one that holds
the table mutex, followed by `pc` (with its arguments in `req` and the loop of the
removal in `walk`), one truncation past line 791 of `RSC_m.c` (`cut`), and any number
of `Append_to_stale_list`. That call has two critical sections: under the table mutex
the file gets a stale node (`Append_to_stale_list`: `sn` is `"alone"`), under the
stale list's mutex the node is linked (`AppendNode`: `"listed"`), and any step of
another call may come between. The first two meet on the free lists; one step is one critical section of `g_RSC_freelist_mt`,
plus the changes of memory that belong to it. `Insert_RSC_table` is
`InsertNewFile`, `InsertBlock` or `OverwriteBlock`, then `AllocBlock`, or `GiveUp`,
or `Evict`, `RmBlock`... and `AllocBlock` again, then `LinkNewFile` or `LinkBlock`.
`Rm_file_block_table` is `Rm`, `RmBlock`..., `RmDone`. A truncation is
`TruncateStart`, `TruncateBlock` in any order of the blocks (the map gives them in
its own order), `TruncateDone`.

Some steps lead to a state where nothing runs any more (`Failures`): the assertions
that the code can fail (348, 359, and `mapx.cpp:300` when a file is opened or removed
whose node is still alone), the use of a stale node that has no file yet (338, 473), the
use of an entry that the call itself has freed, and `Race`, a second call for a file that
is being truncated. After them the
program has stopped or its memory is undefined, and no property is claimed of it
except those of the violation runs.

`AnyOrder` says in which order blocks of one file are inserted. With `FALSE` each
block comes after the ones its file has, which is how one prefetch worker copies
a file (`OneWorkerPerFile` of `RSCPrefetch` shows that two never copy the same);
with `TRUE` in any order, as random reads of a user send them. With `TRUE`, a
truncation may remove a block from the middle of a list, which breaks the list on
disk (run `table_rm`); so the passing runs have `AnyOrder = FALSE`. The theorems on
the disk lists also cover `AnyOrder = TRUE`, without positive truncation offsets.

### RSCCrash

Extends `RSCTable`: every step of it is taken together with the list of its
`Write_cache_off` calls (`Return_file_blockWrites`, `InsertWrites`, ...), of which
all are made, or only the first few, after which the process is gone. `mb`, `hdr`
and `bpn` are what the step leaves when it completes, `file` is what is in the cache
file. (The code writes the node before a new one from a copy that it reads from the
file, and the others from memory: with the invariant `FileComplete` this is the
same.) `Kill` ends the process between two steps or after a stop within one;
`Init_RSC_table_m` reads the file, or fails its assertion (`line195`). A restart is
a new process: `init_RSC_table_f` (`RSC_m.c:76`) is never reset, so the same process
cannot do it. The bytes of a block are reduced to whose they are.

`torn` remembers which of three things a stop has left half done, because the
properties do not hold after them and hold after every other stop:

- `"list"`: `Return_file_block` and `Return_file_header` link the returned node
  before the master block names it as tail. A header or block past the tail may be
  allocated and become a live file's while it is still linked, and after a later
  return the next start may fail at line 195.
- `"cut"`: a truncation returns blocks one by one and writes the header last. A stop
  in it may leave a chain that runs into the free list; the next start then fails,
  or builds a file with blocks that are free. What the program does after such a
  start is not explored (`Explored`).
- `"header"`: an insert writes the node before the new one and then the header. In
  between, `nodeTail` in the header is not the last of the walk, and a removal after
  the start fails the assertion at 703 (`TailAsserts`).

`StopLosesInHand` says what a stop costs: what the interrupted call had in hand,
and the headers of files that a truncation left without block, which no start finds.

Not modelled: the loss of writes that the kernel holds (`Fsync_cache` has its body
commented out, so nothing orders writes against a power failure); concurrent calls at
the stop (one call at a time; `RSCTable` has the interleavings).

### RSCEntry

The calls of `RSC_m.c` with a step for each mutex that they wait for: `table`
(`g_RSC_table_m->mt`), `staleMt` (`g_stale_list.mt`), `freelist`
(`g_RSC_freelist_mt`), `cutMt[p]` (`fbt->mt`). `th[t]` holds what thread t keeps
between steps: the file it looked up (`path`), the file it removes (`victim`), the
block in hand, and whether what it points to still exists (`live`). The stale list
has its pointers (`list.header`, `tail`, `pre`, `next`), and `sn[p]` tells a stale
node that is linked from one that `Append_to_stale_list` has allocated and not yet
linked. A file has one block and there are headers for all files, since the questions
are about who frees an entry, a block or a node while another thread has it.

The code does use some of them after it gave up the mutex. Those steps end in
`failed`, with the line: 300 and 338 (a file whose `Append_to_stale_list` is between
its two mutexes is opened, removed or evicted), 348 (the evicted file had no block),
357 (an insert evicts its own file, or links its block to a list and a map from which a
truncation is taking blocks), 581 (a lookup in the block map during a truncation of it),
703 (a removal or an eviction checks a header that a truncation is changing), 610 (a reader's node was freed by a truncation between lookup and
read), 726 (a block that a truncation has returned after a removal copied the
header), 793 and 879 (a truncation locks or writes an entry that was removed). After
them memory is undefined and the program is not followed further. The properties
bound this damage (a truncation takes its blocks out of the map, then out of the list
and the header, then returns them: `TruncateErase`, `TruncateUnlink`,
`TruncateReturn`, each a step of its own): a removal waits for the truncation's mutex, a reader that gets past
line 610 has bytes of its own file, line 300 and 338 fail only because of the gap in
`Append_to_stale_list`. `Waits(t)` says for which mutex a call waits, and
`OnlyMutexesBlock` that it waits for nothing else; `NoLockCycle`, that of the calls in
progress one always goes on, is stated with it. Two threads that meet in the assertion on the return value
at line 695 are not modelled.

### RSCFormat and RSCData

`RSCFormat` holds the arithmetic: `strtoint` in an int of `IntMax`, `isexp2`,
`readentry` and `readrscconf` on lines with a key, a numeral and a `#`; and `Layout`,
`SizeWanted`, `HeaderLoc`, `NodeLoc`, `NodeMemloc` for the sections. `RSCData` uses
them: `Mkrcf` with its options, `Init_RSC_table_m` with the configuration of the day,
then the calls on bytes. The server (`nas`) is the reference: a byte in the cache is
`<<p, off>>` when the server has it there now, `Old` otherwise. A user's write goes to
the server and is then inserted with `OVERWRITTEN_F`; a read that misses is inserted
with `KEEPCURRENT_F` in whole blocks. The file system that does this is not in the
repository; it is modelled from the flags and comments of `RSC_m.c`.

`ReadsAgree` is the contract of the cache: a read it answers has the server's bytes.
It holds for a file until (`odd`)

- it is written in a block that is not cached: line 538 writes the data at the
  block's beginning, and the rest of the block is what was there (run `data_write`);
- it is written past its cached length, or extended by a truncation: the bytes in
  between are zeros on the server and anything in the cache;
- `RSCBLKSIZE` in `rsc.conf` was changed without a new format while it was cached.

`ReadsFullLength` is the other half: such a read, of a file that is not `odd`, returns as
many bytes as the server's file has there, not fewer and none past its end. Both leave out
a read that begins past the end of the file: the code sets `ret` to 0 for it and goes on
with the whole length (`RSC_m.c:589` to `613`), so that it returns bytes of the block that
the file does not have. The model does the same (`ReadLen`), and nothing here claims
that the cache never answers for bytes past a file's end. Further facts the model shows: a start with
another block size may do no harm itself and make a later one with the right size fail
at line 195; a `rsc.conf` without newline at its end loses its last line, so that the
block size is 0 and the start divides by it (`line58`); `mkrcf -rh` overwrites the
sections before it checks the size, and with two cache files it wants a size that the
first one does not have; the second cache file is formatted and never opened by the
program (`RSC.c:62`), whose blocks past the first file extend that instead.

A write to a block must end within the capacity of the cache file (`WriteFits`), or
`Write_cache_off` stops the program (`line83`). With the block size of the format it
always does; the theorems are about any.

Not modelled: a server that changes while the program is down, `mkrcf` while the
program runs, a negative block size at a start, errors of `open` and `write`, and the
same assertion of `Read_cache_off` (`RSC.c:52`), since a read is not a step here but what
the properties evaluate. After `line83`, `line116`, `line191` and `line350` the program has
stopped.

### RSCPrefetch

A request is a call of `QueueCMHToRSC_fsize` and the queue node that it allocates.
`Register`, `PickWorker`, `AppendItem` are its critical sections and the read of
the table's size between them. `wpc` follows a worker through `fetchworkercmh`:
the test of `exit` without the mutex, the lock, the wait, the wakeup, the item,
then `ReadCMHToCache`. The entry that `ReadCMHToCache` looked up may be removed
before it is used: the worker is then `dangling`, and its comparison goes either
way or crashes. `copied` is a history variable: the blocks that were read from the
server and given to the cache for a request. The cache is reduced to the set of blocks each file has in it,
which users and removals change at any time. Condition variables may wake up
without a signal. A mutex of the default type that is unlocked by a thread that
does not hold it becomes free, which is what the C library of the build does.

Not modelled: the `READFILETORSC` and `PXHSMPOLLING` builds, `fetchDir` and
`fetchworker` (their globals are never initialised here), a request without
`rscstatus` (line 152 would dereference NULL), files that are not regular. No
`QueueCMHToRSC` call overlaps or follows `Finit_fetch_thread`, which frees the
table those calls use. A file that is in the table without any block is treated
as absent: the difference is one intermediate `EBUSY` in the status.

`ReportTellsCopied` relates it to what the request is told. Status 0 does not mean in
general that the file was read: `FileIsCached` (line 126) gives it, with the whole
length, when the cached length is that of the file, for which its last block is enough,
read by a user; or when it has compared a freed entry. Such an answer has read nothing.
All other answers are exact: `nbytes` is what was copied.

Two things the model contains and no run reports: the table of queued paths only
grows, so a file that was prefetched once and evicted is never prefetched again
(`prefetch.c:303`); and a worker that is told to exit unlocks its mutex twice
(`prefetch.c:341`, then 350 or 360), the second time perhaps under another thread.

## Runs

| Run | Instance | Shows |
|---|---|---|
| `table` | 3 blocks, 2 headers, 3 files, blocks in order, truncation to 1 and 2 | types, list consistency in memory and on disk, no block or header lost or shared, a removal returns its own blocks |
| `table_live` | the same with 2 files | eviction spares open files; every call ends; `RSCPool` is implemented, its liveness included |
| `table_evict` | as `table_live` | violation: an eviction frees no block (`RSC_m.c:348`, `482`) |
| `table_self` | as `table_live` | violation: an insert evicts its own file (`RSC_m.c:356`) |
| `table_rm` | as `table_live`, blocks in any order | violation: removal walks into the free list (`RSC_m.c:722`) |
| `crash` | 3 blocks, 2 headers, 2 files, one stop at any write and one start | which stops a start survives; blocks hold their own file's bytes and are in one list; what is lost |
| `entry` | 3 threads, 3 files, 2 blocks | the stale list is one list both ways; reads have bytes of their own file; a call waits only for a mutex, and never all of them; an entry outlives the truncation that has its mutex; what fails only in the gap of `Append_to_stale_list` |
| `data` | 2 files of up to 3 bytes, block sizes 2 and 4, one or two cache files, 2 starts | reads agree with the server, and are as long as its file; blocks do not overlap; asserts on places only after a start with another block size; a format is complete; the parser against a reference |
| `data_write` | as `data` | violation: a write in an uncached block makes reads disagree (`RSC_m.c:314`, `538`) |
| `prefetch` | 3 requests, 2 of them for one file of 2 blocks, the third for an empty file, 2 workers | no request lost or doubled, the tail of a queue is never a freed node, one worker per file, what is reported is what was copied, but for line 126 |
| `prefetch_live` | 2 requests for two files, 2 workers, shutdown | no request doubled at shutdown; every request is answered; awake workers exit |
| `prefetch_join` | as `prefetch_live` | violation: the shutdown waits for ever (`prefetch.c:646`) |

A file without blocks, which a truncation leaves behind, is the cause of
`table_evict`; it also fails the assertion at `RSC_m.c:359` when a block is read
ahead for it (`LinkAborts`).

Bounds. Three blocks and two headers let the free lists become empty, have one
element and have several; a file can have a first, a middle and a last block;
three files for two headers let an allocation of a header fail. `MaxFileBlocks`
bounds the offsets, `TruncateOffs` the truncations, and one truncation is in
progress at a time. Block size 1 suffices because only the order of offsets
matters to the lists; the proofs hold for every size. In `RSCPrefetch`, two workers
and three requests give a queue of two, an idle and a busy worker; `BlockCalls`
bounds the calls of `Block_fetch_thread`. Files are interchangeable, so the safety
runs of `RSCTable` use symmetry; the runs with liveness do not. Deadlock is not
checked: a cache whose program has failed an assertion, or a prefetcher without
requests, stops.

In `RSCCrash` one stop is explored (`MaxStops`): a stop can come at any state that a
run without stops reaches, and all calls are explored after the start; two files
suffice because a stop involves the file of the call and, at an eviction, one more. In `RSCEntry` three threads let
two meet on one entry while a third evicts or reuses its block; two blocks are fewer
than files, so inserts evict. In `RSCData` the sizes of the structures are 1 and a "G" is
2 bytes: what matters is the ratio of sections and block sizes, and that the two block
sizes divide each other. `IntMax` is 15, so that a numeral of the texts overflows.
`MCTexts` are all texts of up to three lines.

Fairness. `RSCCrash`, `RSCEntry` and `RSCData` state none: they have safety
properties only. `RSCTable`: weak fairness of the call that holds the table mutex and of
the truncation, since a thread that has entered a call keeps running and a mutex of
the free lists is held for a step only. Callers are not obliged to call.
`RSCPrefetch`: weak fairness of each worker, of each caller inside
`QueueCMHToRSC_fsize`, of `Wakeup_fetch_thread` and of the shutdown; the calls of
the server return, and a mutex that stays free is obtained. `Register`, `Cancel`,
`Block_fetch_thread`, `StartFinit` and the other threads' calls need not happen.

Every property of a passing run has a mutant in `PROJECT.json`: a definition of the
module replaced by one with a plausible slip (the operators commented `Slip`), with
which TLC finds the property violated.

## Proofs

`RSCTableProof` proves, for all constants that satisfy `RSCAssumption`,

- `TypeCorrect`: `Spec => []TypeOK`;
- `HeaderMatchesChainAlways`: the header of a cached file names the first and last
  node of its list;
- `StaleMatchesAlways`: the stale list is exactly the files whose stale node has been
  linked, each once, and none that has left the table. It does not say that the
  assertion of `mapx.cpp:300` holds: between the two critical sections of an
  `Append_to_stale_list` it fails, as line 338 does (`StaleStopsInAppend` of `RSCEntry`).

The inductive invariant is `TableInv`, the conjunction of these three and
`CallInv`. `CallInv` relates `pc`, `req` and `walk`: which arguments a call has
at each step, that a file which an insert has found stays the one it found and is
not being truncated, that a truncated file stays in the table. Without it `LinkBlock`
would append a node of unknown type. The proof has one lemma for each part of the
invariant, and in it one step per action. `OpenFilesKeptAlways`, that eviction spares
files that are not on the stale list, follows from the same invariant.

`RSCTableDiskProof` proves, under `OrderedTruncation` (blocks in order, or no
positive truncation),

- `FreeListsEndAlways`: the assertions of the free lists never fail;
- `ChainOnDiskAlways`: the header and the block pointers on disk of every cached file
  that is not being truncated are its list in memory;
- `RmReturnsOwnBlocksAlways`: a removal returns only blocks of the removed file;
- `NoBlockLostAlways` and `NoHeaderLostAlways`: following the pointers on disk from the
  head of the free list, and from `walk`, finds every block and header that no file and
  no insert has, and only those.

None of these is inductive: a block pointer's `next` is written by inserts, removals,
truncations and the free list, which are different lists only because no block is in
two of them. `DiskInv` says so. Its parts are `HeaderInv` (the headers no file and no
insert has are the free list: `Queue`), `FreeInv` (so are the blocks that name no file
on disk), `DeadInv` (the blocks of a removed file are listed from `walk`, in the
order of a `Chained`, and there are none when no removal is in progress), `ChainInv`
(`FileInv` of each cached file: different nodes, linked in order, with
the file's header) and `CutInv`. `Queue` is what a list must satisfy for a node to be
taken from its front or appended (`QueueTake`, `QueuePut`): that the nodes of a set are
in some order `c`, each with the next one in its `next` (`Chained` of `RSCInduction`). A file that is being truncated keeps its links up to the last block
that stays (`Kept`); that its other blocks are the last ones is where the order of
arrival is needed. Lemmas `NewFileLinked`, `BlockAppended`, `BlockCut`, `FileRemoved`,
`DeadReturned` and `BlockTaken` treat the actions that change a list, and
`NoListChanged` all the others.

It also proves `PoolImplemented`: under the same assumption
`RSCTable` implements `Pool!Moves`, the safety part of `RSCPool`, with the mapping
of the instance `Pool`. The free, dying and contained blocks of the pool are the sets
`Unowned`, `Dead` and `Contents` of the invariant, and the lemmas on actions say how
each set changes.

The lemmas on the lists have parameters `L` and `M`, blocks and headers that are in no
list: none in `RSCTable`, those that stops have lost in `RSCCrash`.

`RSCCrashProof` proves, for any number of blocks, headers, files, stops and starts, with
no assumption on the order of blocks or on what a stop interrupted,

- `CrashTypeOKAlways`: a start makes a well-typed table from any cache file that it can
  read, whatever is half done in it;
- `FileCompleteAlways`: while the program runs, the cache file has the master block, the
  headers and the nodes that the steps left in memory.

The invariant is `CrashInv`: the types, `CallInv` and `StaleMatches` in memory, a file of
the right form that equals the sections in memory while the program is up, nothing in
memory while it is down, and `HeaderLengths` (a header that names a block has a length:
what a start takes as `fileoff`). `WritesKnown` has one case per action: the writes listed
for it are `Complete`, that is, made one after the other they turn the old sections into
the new ones. What a start reads is recursive (`WalkFrom`, `Read_cacheNodes`,
`ReadHeaders`); `RecursionExists` proves that such a definition has a value in a given
set, and `StaysIn` that what it computes stays there.

`RSCCrashListsProof` proves, under `OrderedTruncation`, of any number of stops but for
the last theorem,

- `RestartableAlways`: after stops that were not in a truncation nor in half of a return
  to a free list, the next start ends and fails no assertion;
- `TailsNamedAlways`: if no stop was in half of a return to a free list, the assertions
  on `nodeTail` fail only after one in a truncation or before the header's write of an
  insert;
- `OwnBytesAlways`: after the same stops as for `RestartableAlways`, a block of a cached
  file, or one that a start would read for it, has that file's data;
- `NoSharingAlways`: after these no block is in two files, and none in the cache file is
  both free and used;
- `StopLosesInHandAlways`: up to the first stop, which may be anywhere, also in a
  truncation or in half of a return to a free list, no block and no header is lost but
  what the stopped call had in hand and one block and one header that the step was moving.

The invariant of the first four is `CrashDisk`. While the program runs there are sets `L`
and `M` of lost blocks and headers with which `UpInv` holds: `DiskInv`, the ends of a file's list in its
header (`HeadsMatch`, the tail only if no stop was before the header's write of an
insert), different offsets in a file (`OffsInv`), headers without a file that name no
block (`UnusedHeaders`), own data (`OwnData`). Between a stop and the start after it the
cache file has `FileLists`: two free lists, and for each header in use a `FileChain`.
`RunningLists` gets the second from the first; `StopsLeaveLists` shows, for each action
and each of its writes, that the process may end there and `FileLists` still holds, with
perhaps one block or header less; `ChainRead` and `TableFound` compute what the start
reads, and `StartInv` gets the first from it. `CutReach` describes the walk that a start
would make of a file in the middle of its truncation: to blocks it still has and to
blocks that are free.

The last theorem has an invariant of its own, `LossInv`: up to the first stop the program
has `UpInv` with nothing lost, and `CutHeader` (the header of a file in truncation names a
block as long as the file has one); from the stop on, `FewLost`, which is what the theorem
says. Until a stop nothing is lost (`NothingLost`), because what a start would find
contains every list that the program has: `FreeListsFound` and `WalkFollows` need only the
pointers along a list, not that it ends where the program thinks, so they also hold of a
file that is half written. For a stop, `StopMixes` says that each pointer in the file is the
one before the step or the one after it, and the master block, which is written last, the
one before (`Mixed`). For each step a lemma names the block `x` and the header `y` that it
moves, and shows that all others stay where they are with the pointers that lead to them
(`BlockMoves`, `HeaderMoves`); `StopLosesOne` concludes that the file of a stop between its
writes lacks at most those two.

`RestartableAlways` and `StopLosesInHandAlways` state their properties as they are. The
other three have one more condition: no stop was in half of a return to a free list
(`"list"`), nor, for the tables of `OwnBytes` and `NoSharing`, in a truncation (`"cut"`).
The run `crash` checks them
without it, after one stop. After two, `TailsNamed` may fail: the block past the tail that
the first stop left linked is taken by a file, and the return of another writes its `next`.

`RSCEntryProof` proves, for any number of threads, files and blocks,

- `EntryTypeCorrect`: a thread holds the mutexes that its place in the code says, and
  no other;
- `ReadsOwnBytesAlways`: a reader that has given up the table mutex for the free
  lists' reads bytes of its own file;
- `EntryOutlivesLockAlways`: an entry is not freed while a truncation holds its mutex;
- `StaleStopsInAppendAlways`: the assertion at `mapx.cpp:300` and the stale node
  without a file at `RSC_m.c:338` occur only while an `Append_to_stale_list` is
  between its two mutexes;
- `StaleListLinkedAlways`: the walk along `next` from the header and the one along `pre`
  from the tail find the same files, those that were appended and not removed since;
- `NoLockCycleAlways`: of the calls in progress one waits for no mutex. The mutexes
  have an order (the table's, `fbt->mt`, then the stale list's or the free lists'), and
  the thread that holds the last of them goes on (`SomeoneGoesOn`).

The invariant is `EntryInv`. `LockInv` says who holds what, `BlkInv` what a block in
hand is: not free, no other file's, and, once written, with the data of its file. A
block that a removal has in hand may have been returned by a truncation before it,
which is why `BlkInv` does not say that it is not free, and why the double return of
the run `entry` is not excluded. `ListInv` describes the stale list by its links
(`Chain`), and `NodeAppended` and `NodeRemoved` are the two operations on it.
`CutInv` says that a truncation which has `fbt->mt` has its entry in the table. One
lemma per action; `ProceedStops` and `CallStops` treat the steps that stop the program.

`RSCPrefetchProof` proves, for any number of requests, files, blocks and workers,

- `PrefetchTypeCorrect`: a worker has an item exactly while it works on one;
- `OneWorkerPerFileAlways`: two workers never copy the same file;
- `ReportTellsCopiedAlways`: the blocks before `nbytes` were copied for the request and
  no other, all of them with status 0 and no cancellation; or nothing was, and the answer
  is that of a file whose length the cache has already;
- `TailWaitsAlways`: the node to which the next request is linked is one that waits in
  the same queue, although `fw->tail` may name a freed node while the queue is empty;
- `NoRequestLostAlways`: each request is in one place, which following the queues from
  their heads finds;
- `TailEndsQueueAlways`: the tail of a queue that is not empty is where that walk ends.

The invariant is `PrefetchInv`: `QueueInv` (head, tail and links stay among the
requests that wait at the worker, no two lead to the same one), `PathInv` (only one
caller has registered a path) and `ReportInv` (what has been said of the request in
work, and copied for it, is how far it is). `ReportTellsCopied` is its last conjunct.

`RSCDataProof` proves, for every text of `rsc.conf`, all sizes and any number of files,

- `ConfAsReferenceAlways`: `readrscconf`, line by line, gives what the reference says
  (the last line that counts, as an int);
- `BlocksApartAlways`: the bytes of two used blocks do not overlap;
- `ReadsAgreeAlways`: a read that the cache answers has the server's bytes, unless the
  file is `odd`;
- `ReadsFullLengthAlways`: that read returns as many bytes as the server's file has
  from its beginning on, unless the file is `odd`;
- `StopsOnOtherBlockSizeAlways`, `FormatCompleteAlways` and
  `DataTypeOKAlways`.

The invariant is `DInv` (`DataInvariant`). Block i begins at i times the block size of
the cache file; while the program runs, a used block begins at a multiple of the size
it runs with (`Aligned`: the assertions at 195 and 350 see to it), so two used blocks
are apart (`PlacesApart`, from `MultiplesApart`). `ReadsAgree` itself is not inductive:
a later insert may raise the cached length over bytes that are in the block already.
`Whole` therefore says that a cached block of a file that is not `odd` has every byte
of it that the server has, past the cached length too. `Reached` says that the
cached length is at or past the end of each cached block, or that of the file: it is what
`ReadsFullLength` needs. `Current` says for which block
size that holds: the one the program runs with, and while it is down the only one it
has run with since the format; a start with another makes the cached files `odd`. The
text is parsed by a recursive function, whose value after n lines is found by induction
(`LinesRead`).

Induction. The library's induction theorems take an operator as parameter and cannot be
used, but a set of naturals can be used in their place: `NatSetInduction` says that a
set which has 0, and with every number its successor, has all. It follows from the
well-foundedness of `<` in the library. With it `RSCInduction` proves that the recursive
definition of a walk has a solution (`ReachingExists`) and that it reaches the nodes of
a `Chained` list, all and only (`WalkFinds`); `RSCDataProof` proves the same way that
the recursive reading of a text has one (`ReadingExists`).

Assumptions on the constants are weak: names of nothing are no names, sizes and counts
are positive, a block has more than one byte (`BlockSizeAssumption`: `mkrcf` takes a
power of two from 2 on), `FiniteRequests` (one run of the program makes finitely many requests:
the walk along a queue must end), `FinitePaths` (likewise for the stale list) and
`DataAssumption` (`rsc.conf` is a sequence of lines with a key and a numeral). No
theorem assumes anything of a run but `OrderedTruncation`, where it is named.

A model that is proved about updates two fields of `f[x]` by
`[f EXCEPT ![x] = [@ EXCEPT !.a = ..., !.b = ...]]`: for `![x].a = ..., ![x].b = ...`
version 1.4.5 of the prover infers a type that is too narrow, and a contradiction from
it. Each leaf of the proofs was also tried with `FALSE` as its goal; the only ones
that hold so are those of proofs by contradiction, those of cases that cannot arise (a stop
between the writes of a step that has at most one, a start before the first stop) and the
cases of `OpenFilesKeptAlways` in which no file leaves the table.

Out of the prover's reach and left to TLC: liveness (`CallsReturn`, the fairness of
`RSCPool`, the answers and exits of the workers), and `ENABLED` (`OnlyMutexesBlock`).
Safety properties that are only model-checked: the parts of `TailsNamed`, `OwnBytes` and
`NoSharing` that are named above. How much the second and later stops lose is not stated:
`StopLosesInHand` is about the first.

## Not modelled

- The `READFILETORSC` and `PXHSMPOLLING` builds and `fetchDir` of `prefetch.c`: the
  globals they use are never initialised in this repository.
- `mapwrapper.cpp`, a set of names filled once before any thread starts, and
  `rscck.c` with the `print*` functions, which only read the structures.
- `Rename_file_block_table` (empty), `ReadFileOffToCache`, `ReadFileFromEndToCache` and
  `Prefetch_tab_remove` (no caller).
- Errors of `open`, `pread` and `pwrite` on the cache file (the code asserts or ignores
  them), and the loss of writes that the kernel holds.
- Calls of a restarted program for a file whose truncation a stop interrupted, beyond
  what its start reads; and a program that has met one of the failures of `RSCEntry`
  (a freed entry used, a map read during an erase) beyond that point.

## Plan

Done: `RSCTable`, `RSCPool`, `RSCPrefetch`, `RSCCrash`, `RSCEntry`, `RSCFormat`,
`RSCData` and their runs; `RSCInduction` and the seven modules with theorems on them.

What could be added: a proof of what a start makes of a file after a stop in half of a
return to a free list (`TailsNamed`, `OwnBytes` and `NoSharing` of one stop), which needs an
invariant of a list that goes on past its tail.
