---------------------------- MODULE RSCPrefetch ----------------------------
(***************************************************************************)
(* The prefetch threads (prefetch.c): requests to copy a whole file into   *)
(* the cache (cmh_t, whose type is not in the repository), the queue of    *)
(* each worker, the workers' loop fetchworkercmh, and the shutdown.        *)
(*                                                                         *)
(* A request is one call of QueueCMHToRSC_fsize and the FetchQueue node it *)
(* allocates.  The cache is reduced to the blocks each file has in it:     *)
(* Insert_RSC_table may fail to cache a block (it returns nothing), and    *)
(* other calls remove files and insert blocks at any time.                 *)
(*                                                                         *)
(* No call is in progress when Finit_fetch_thread begins, and none begins  *)
(* after it; callers may still wait for an answer.                         *)
(***************************************************************************)
EXTENDS Integers, FiniteSets

CONSTANTS
  NumWorkers,  \* NUMFETCHWORKER
  Requests,    \* the calls of QueueCMHToRSC_fsize
  Paths,       \* file names
  PathOf,      \* cmh->rscpath of each request
  FileBlocks,  \* number of cache blocks of each file (0: an empty file)
  None,        \* NULL, for pointers to a FetchQueue node and for mutex owners
  BlockCalls,  \* bound: calls of Block_fetch_thread
  Shutdown     \* whether Finit_fetch_thread is called

ASSUME PrefetchAssumption ==
  /\ NumWorkers \in Nat \ {0}
  /\ PathOf \in [Requests -> Paths]
  /\ FileBlocks \in [Paths -> Nat]
  /\ None \notin Requests
  /\ BlockCalls \in Nat
  /\ Shutdown \in BOOLEAN

\* The calls of one run of the program, however many, are finitely many.
ASSUME FiniteRequests == IsFiniteSet(Requests)

Workers == 0 .. (NumWorkers - 1)
User == NumWorkers      \* the thread in Block_fetch_thread ... Wakeup_fetch_thread

VARIABLES
  fft,      \* g_fft->tab: the paths that were ever queued
  head,     \* fw->head
  tail,     \* fw->tail
  next,     \* next of each FetchQueue node
  exit,     \* fw->exit
  lock,     \* owner of fw->mt
  wpc,      \* step of each worker
  item,     \* mfsitem of each worker
  pos,      \* i of each worker, in blocks
  cpc,      \* step of each request's caller
  target,   \* the worker that QueueCMHToRSC_fsize picked for the request
  flags,    \* rscstatus->flags: the caller cancels the request
  report,   \* rscstatus->status and nbytes (in blocks)
  copied,   \* history: the blocks that were read from the NAS and given to
            \* Insert_RSC_table for each request; no step looks at it
  cache,    \* the blocks of each file that the cache has
  blocked,  \* calls of Block_fetch_thread so far
  fin       \* progress of Finit_fetch_thread

queues  == <<head, tail, next>>
workers == <<wpc, item, pos>>
callers == <<cpc, target, flags, report, copied>>
others  == <<cache, blocked, fin>>
vars == <<fft, queues, exit, lock, workers, callers, others>>

Alive == \A w \in Workers : wpc[w] # "crashed"

\* pthread_cond_signal(&fw->cv): only the worker itself waits on its cv.
Signal(w) == [wpc EXCEPT ![w] = IF @ = "wait" THEN "woken" ELSE @]

Init ==
  /\ fft = {}
  /\ head = [w \in Workers |-> None]
  /\ tail = [w \in Workers |-> None]
  /\ next = [r \in Requests |-> None]
  /\ exit = [w \in Workers |-> FALSE]
  /\ lock = [w \in Workers |-> None]
  /\ wpc = [w \in Workers |-> "test"]
  /\ item = [w \in Workers |-> None]
  /\ pos = [w \in Workers |-> 0]
  /\ cpc = [r \in Requests |-> "new"]
  /\ target = [r \in Requests |-> 0]
  /\ flags = [r \in Requests |-> FALSE]
  /\ report = [r \in Requests |-> [status |-> "none", nbytes |-> 0]]
  /\ copied = [r \in Requests |-> {}]
  /\ cache = [p \in Paths |-> {}]
  /\ blocked = 0
  /\ fin = [step |-> "no", worker |-> 0]

-----------------------------------------------------------------------------
(* QueueCMHToRSC_fsize.                                                    *)

\* Slip: a path that was entered before is queued again.
RegisterAgain(r) ==
  /\ cpc[r] = "new" /\ fin.step = "no"
  /\ cpc' = [cpc EXCEPT ![r] = "pick"]
  /\ fft' = fft \cup {PathOf[r]}
  /\ UNCHANGED <<queues, exit, lock, workers, target, flags, report, copied, others>>

\* Under g_fft->mt: a path is new once.
Register(r) ==
  /\ cpc[r] = "new" /\ fin.step = "no"
  /\ cpc' = [cpc EXCEPT ![r] = IF PathOf[r] \in fft THEN "cached" ELSE "pick"]
  /\ fft' = fft \cup {PathOf[r]}
  /\ UNCHANGED <<queues, exit, lock, workers, target, flags, report, copied, others>>

\* The size of the table is read again, after its mutex is released.
PickWorker(r) ==
  /\ cpc[r] = "pick"
  /\ target' = [target EXCEPT ![r] = Cardinality(fft) % NumWorkers]
  /\ cpc' = [cpc EXCEPT ![r] = "append"]
  /\ UNCHANGED <<fft, queues, exit, lock, workers, flags, report, copied, others>>

\* Slips: the node is linked but not made the tail; it is made the head of a
\* queue that has others; the worker is not signalled.
AppendItemKeepsTail(r) ==
  LET w == target[r] IN
  /\ cpc[r] = "append" /\ lock[w] = None
  /\ IF head[w] = None
     THEN head' = [head EXCEPT ![w] = r] /\ tail' = [tail EXCEPT ![w] = r] /\ next' = next
     ELSE head' = head /\ tail' = tail /\ next' = [next EXCEPT ![tail[w]] = r]
  /\ wpc' = Signal(w)
  /\ cpc' = [cpc EXCEPT ![r] = "waiting"]
  /\ UNCHANGED <<fft, exit, lock, item, pos, target, flags, report, copied, others>>

AppendItemAsHead(r) ==
  LET w == target[r] IN
  /\ cpc[r] = "append" /\ lock[w] = None
  /\ head' = [head EXCEPT ![w] = r] /\ tail' = [tail EXCEPT ![w] = r] /\ next' = next
  /\ wpc' = Signal(w)
  /\ cpc' = [cpc EXCEPT ![r] = "waiting"]
  /\ UNCHANGED <<fft, exit, lock, item, pos, target, flags, report, copied, others>>

AppendItemUnsignalled(r) ==
  LET w == target[r] IN
  /\ cpc[r] = "append" /\ lock[w] = None
  /\ tail' = [tail EXCEPT ![w] = r]
  /\ IF head[w] = None
     THEN head' = [head EXCEPT ![w] = r] /\ next' = next
     ELSE head' = head /\ next' = [next EXCEPT ![tail[w]] = r]
  /\ cpc' = [cpc EXCEPT ![r] = "waiting"]
  /\ UNCHANGED <<fft, exit, lock, workers, target, flags, report, copied, others>>

\* The critical section of fw->mt in one step: nothing in it waits.
AppendItem(r) ==
  LET w == target[r] IN
  /\ cpc[r] = "append" /\ lock[w] = None
  /\ tail' = [tail EXCEPT ![w] = r]
  /\ IF head[w] = None
     THEN head' = [head EXCEPT ![w] = r] /\ next' = next
     ELSE head' = head /\ next' = [next EXCEPT ![tail[w]] = r]
  /\ wpc' = Signal(w)
  /\ cpc' = [cpc EXCEPT ![r] = "waiting"]
  /\ UNCHANGED <<fft, exit, lock, item, pos, target, flags, report, copied, others>>

\* Line 303: the path was queued before, so "this file is already cached".
AnswerCached(r) ==
  /\ cpc[r] = "cached"
  /\ cpc' = [cpc EXCEPT ![r] = "answered"]
  /\ UNCHANGED <<fft, queues, exit, lock, workers, target, flags, report, copied, others>>

\* The caller sets rscstatus->flags of a request it waits for.
Cancel(r) ==
  /\ cpc[r] = "waiting" /\ ~flags[r]
  /\ flags' = [flags EXCEPT ![r] = TRUE]
  /\ UNCHANGED <<fft, queues, exit, lock, workers, cpc, target, report, copied, others>>

-----------------------------------------------------------------------------
(* The loop of fetchworkercmh.                                             *)

TestExit(w) ==
  /\ wpc[w] = "test"
  /\ wpc' = [wpc EXCEPT ![w] = IF exit[w] THEN "exited" ELSE "lock"]
  /\ UNCHANGED <<fft, queues, exit, lock, item, pos, callers, others>>

\* With fw->mt held: wait, which releases it, or go on to take an item.
WaitOrTake(w) ==
  IF head[w] = None
  THEN wpc' = [wpc EXCEPT ![w] = "wait"] /\ lock' = [lock EXCEPT ![w] = None]
  ELSE wpc' = [wpc EXCEPT ![w] = "take"] /\ lock' = [lock EXCEPT ![w] = w]

LockQueue(w) ==
  /\ wpc[w] = "lock" /\ lock[w] = None
  /\ WaitOrTake(w)
  /\ UNCHANGED <<fft, queues, exit, item, pos, callers, others>>

\* pthread_cond_wait may return unsignalled.
SpuriousWakeup(w) ==
  /\ wpc[w] = "wait"
  /\ wpc' = [wpc EXCEPT ![w] = "woken"]
  /\ UNCHANGED <<fft, queues, exit, lock, item, pos, callers, others>>

\* Slip: exit is not tested after a wait.
WakeUpDeaf(w) ==
  /\ wpc[w] = "woken" /\ lock[w] = None
  /\ WaitOrTake(w)
  /\ UNCHANGED <<fft, queues, exit, item, pos, callers, others>>

\* Lines 339 to 343: on exit the mutex is released, and the break leaves the
\* inner loop only.
WakeUp(w) ==
  /\ wpc[w] = "woken" /\ lock[w] = None
  /\ IF exit[w]
     THEN wpc' = [wpc EXCEPT ![w] = "take"] /\ lock' = lock
     ELSE WaitOrTake(w)
  /\ UNCHANGED <<fft, queues, exit, item, pos, callers, others>>

\* Slip: the item stays in the queue.
TakeItemAndKeep(w) ==
  /\ wpc[w] = "take"
  /\ lock' = [lock EXCEPT ![w] = None]
  /\ item' = [item EXCEPT ![w] = head[w]]
  /\ wpc' = [wpc EXCEPT ![w] = IF head[w] = None THEN "test" ELSE "lookup"]
  /\ UNCHANGED <<fft, queues, exit, pos, callers, others>>

\* Lines 346 to 361.  The unlock of a mutex of the default type releases it,
\* whoever holds it.
TakeItem(w) ==
  /\ wpc[w] = "take"
  /\ lock' = [lock EXCEPT ![w] = None]
  /\ item' = [item EXCEPT ![w] = head[w]]
  /\ IF head[w] # None
     THEN /\ head' = [head EXCEPT ![w] = next[head[w]]]
          /\ tail' = tail
          /\ wpc' = [wpc EXCEPT ![w] = "lookup"]
     ELSE /\ head' = head
          /\ tail' = [tail EXCEPT ![w] = None]
          /\ wpc' = [wpc EXCEPT ![w] = "test"]
  /\ UNCHANGED <<fft, next, exit, pos, callers, others>>

-----------------------------------------------------------------------------
(* ReadCMHToCache.                                                         *)

\* The file of the worker's request
FileOf(w) == PathOf[item[w]]

\* fbt->fh_m->fileoff is the length of the file: the last block is there.
SameLength(p) == cache[p] # {} /\ FileBlocks[p] - 1 \in cache[p]

\* Slip: the worker keeps its item after the caller was answered.
AnswerKeepsItem(w, status, nbytes) ==
  /\ report' = [report EXCEPT ![item[w]] = [status |-> status, nbytes |-> nbytes]]
  /\ cpc' = [cpc EXCEPT ![item[w]] = "answered"]
  /\ wpc' = [wpc EXCEPT ![w] = "test"]
  /\ pos' = [pos EXCEPT ![w] = 0]
  /\ UNCHANGED item

\* rscstatus, then CMHDone; the caller owns the request again and the worker
\* frees its item.
Answer(w, status, nbytes) ==
  /\ report' = [report EXCEPT ![item[w]] = [status |-> status, nbytes |-> nbytes]]
  /\ cpc' = [cpc EXCEPT ![item[w]] = "answered"]
  /\ wpc' = [wpc EXCEPT ![w] = "test"]
  /\ item' = [item EXCEPT ![w] = None]
  /\ pos' = [pos EXCEPT ![w] = 0]

\* Under the table mutex, which is released before the entry is used.
LookupFile(w) ==
  /\ wpc[w] = "lookup"
  /\ wpc' = [wpc EXCEPT ![w] = IF cache[FileOf(w)] = {} THEN "copy" ELSE "compare"]
  /\ UNCHANGED <<fft, queues, exit, lock, item, pos, callers, others>>

\* Line 126 with an entry that was removed since compares freed memory.
FileIsCached(w) ==
  /\ \/ wpc[w] = "compare" /\ SameLength(FileOf(w))
     \/ wpc[w] = "dangling"
  /\ Answer(w, "ok", FileBlocks[FileOf(w)])
  /\ UNCHANGED <<fft, queues, exit, lock, target, flags, copied, others>>

RemoveOldFile(w) ==
  /\ \/ wpc[w] = "compare" /\ ~SameLength(FileOf(w))
     \/ wpc[w] = "dangling"
  /\ cache' = [cache EXCEPT ![FileOf(w)] = {}]
  /\ report' = [report EXCEPT ![item[w]] = [status |-> "EBUSY", nbytes |-> 0]]
  /\ wpc' = [wpc EXCEPT ![w] = "copy"]
  /\ UNCHANGED <<fft, queues, exit, lock, item, pos, cpc, target, flags, copied, blocked, fin>>

Crash(w) ==
  /\ wpc[w] = "dangling"
  /\ wpc' = [wpc EXCEPT ![w] = "crashed"]
  /\ UNCHANGED <<fft, queues, exit, lock, item, pos, callers, others>>

\* Slip: the block before the last ends the loop.
LastBlockOffByOne(w) == pos[w] + 1 >= FileBlocks[FileOf(w)] - 1

LastBlock(w) == pos[w] + 1 >= FileBlocks[FileOf(w)]

\* One turn of the loop: fuseops.read, Insert_RSC_table with KEEPCURRENT_F
\* (kept, or not when every block is in use), nbytes.
CopyBlock(w) ==
  /\ wpc[w] = "copy" /\ ~flags[item[w]] /\ pos[w] < FileBlocks[FileOf(w)]
  /\ cache' \in {cache, [cache EXCEPT ![FileOf(w)] = @ \cup {pos[w]}]}
  /\ copied' = [copied EXCEPT ![item[w]] = @ \cup {pos[w]}]
  /\ IF LastBlock(w)
     THEN Answer(w, "ok", pos[w] + 1)
     ELSE /\ pos' = [pos EXCEPT ![w] = @ + 1]
          /\ report' = [report EXCEPT ![item[w]].nbytes = pos[w] + 1]
          /\ UNCHANGED <<wpc, item, cpc>>
  /\ UNCHANGED <<fft, queues, exit, lock, target, flags, blocked, fin>>

ReadFails(w) ==
  /\ wpc[w] = "copy" /\ ~flags[item[w]] /\ pos[w] < FileBlocks[FileOf(w)]
  /\ Answer(w, "errno", report[item[w]].nbytes)
  /\ UNCHANGED <<fft, queues, exit, lock, target, flags, copied, others>>

\* The request was cancelled, or the file is empty: status is 0 all the same.
NothingToCopy(w) ==
  /\ wpc[w] = "copy" /\ (flags[item[w]] \/ FileBlocks[FileOf(w)] = 0)
  /\ Answer(w, "ok", report[item[w]].nbytes)
  /\ UNCHANGED <<fft, queues, exit, lock, target, flags, copied, others>>

-----------------------------------------------------------------------------
(* The rest of the program.                                                *)

\* Rm_file_block_table, or an eviction; a worker that has looked the file up
\* is left with a pointer to freed memory.
ForgetFile(p) ==
  /\ cache[p] # {}
  /\ cache' = [cache EXCEPT ![p] = {}]
  /\ wpc' = [w \in Workers |-> IF wpc[w] = "compare" /\ FileOf(w) = p
                               THEN "dangling" ELSE wpc[w]]
  /\ UNCHANGED <<fft, queues, exit, lock, item, pos, callers, blocked, fin>>

\* A user reads a block of the file, which is then cached.
UserReads(p, b) ==
  /\ b < FileBlocks[p] /\ b \notin cache[p]
  /\ cache' = [cache EXCEPT ![p] = @ \cup {b}]
  /\ UNCHANGED <<fft, queues, exit, lock, workers, callers, blocked, fin>>

\* The thread keeps the mutex of worker 0 until it calls Wakeup_fetch_thread.
Block_fetch_thread ==
  /\ fin.step = "no" /\ blocked < BlockCalls
  /\ lock[0] = None
  /\ lock' = [lock EXCEPT ![0] = User]
  /\ blocked' = blocked + 1
  /\ UNCHANGED <<fft, queues, exit, workers, callers, cache, fin>>

Wakeup_fetch_thread ==
  /\ lock[0] = User
  /\ wpc' = Signal(0)
  /\ lock' = [lock EXCEPT ![0] = None]
  /\ UNCHANGED <<fft, queues, exit, item, pos, callers, others>>

\* Destory_RSC_table_m is called when no call is in progress.
StartFinit ==
  /\ Shutdown /\ fin.step = "no"
  /\ lock[0] # User
  /\ \A r \in Requests : cpc[r] \in {"new", "waiting", "answered"}
  /\ fin' = [step |-> "stop", worker |-> 0]
  /\ UNCHANGED <<fft, queues, exit, lock, workers, callers, cache, blocked>>

\* The first loop of Finit_fetch_thread, and the table's end after it
StopWorker ==
  LET w == fin.worker IN
  /\ fin.step = "stop" /\ lock[w] = None
  /\ exit' = [exit EXCEPT ![w] = TRUE]
  /\ wpc' = Signal(w)
  /\ IF w = NumWorkers - 1
     THEN fin' = [step |-> "join", worker |-> 0] /\ fft' = {}
     ELSE fin' = [fin EXCEPT !.worker = @ + 1] /\ fft' = fft
  /\ UNCHANGED <<queues, lock, item, pos, callers, cache, blocked>>

\* The second loop
JoinWorker ==
  /\ fin.step = "join" /\ wpc[fin.worker] = "exited"
  /\ fin' = IF fin.worker = NumWorkers - 1
            THEN [step |-> "done", worker |-> 0]
            ELSE [fin EXCEPT !.worker = @ + 1]
  /\ UNCHANGED <<fft, queues, exit, lock, workers, callers, cache, blocked>>

-----------------------------------------------------------------------------
CallerStep(r) == PickWorker(r) \/ AppendItem(r) \/ AnswerCached(r)

WorkerStep(w) ==
  \/ TestExit(w) \/ LockQueue(w) \/ WakeUp(w) \/ TakeItem(w)
  \/ LookupFile(w) \/ FileIsCached(w) \/ RemoveOldFile(w) \/ Crash(w)
  \/ CopyBlock(w) \/ ReadFails(w) \/ NothingToCopy(w)

FinitStep == StopWorker \/ JoinWorker

Next ==
  /\ Alive
  /\ \/ \E r \in Requests : Register(r) \/ Cancel(r) \/ CallerStep(r)
     \/ \E w \in Workers : WorkerStep(w) \/ SpuriousWakeup(w)
     \/ \E p \in Paths : ForgetFile(p) \/ \E b \in 0 .. FileBlocks[p] : UserReads(p, b)
     \/ Block_fetch_thread \/ Wakeup_fetch_thread
     \/ StartFinit \/ FinitStep

\* Every thread that is inside a function keeps running, fuseops.read returns,
\* and a mutex that stays free is obtained.
Fairness ==
  /\ \A r \in Requests : WF_vars(Alive /\ CallerStep(r))
  /\ \A w \in Workers : WF_vars(Alive /\ WorkerStep(w))
  /\ WF_vars(Alive /\ Wakeup_fetch_thread)
  /\ WF_vars(Alive /\ FinitStep)

Spec == Init /\ [][Next]_vars /\ Fairness

-----------------------------------------------------------------------------
(* Properties.                                                             *)

\* Every variable has its type.
TypeOK ==
  /\ fft \subseteq Paths
  /\ head \in [Workers -> Requests \cup {None}]
  /\ tail \in [Workers -> Requests \cup {None}]
  /\ next \in [Requests -> Requests \cup {None}]
  /\ exit \in [Workers -> BOOLEAN]
  /\ lock \in [Workers -> Workers \cup {User, None}]
  /\ wpc \in [Workers -> {"test", "lock", "wait", "woken", "take", "lookup", "compare",
                          "dangling", "copy", "exited", "crashed"}]
  /\ item \in [Workers -> Requests \cup {None}]
  /\ \A w \in Workers : wpc[w] \in {"lookup", "compare", "dangling", "copy", "crashed"} <=> item[w] # None
  /\ pos \in [Workers -> Nat]
  /\ cpc \in [Requests -> {"new", "pick", "append", "cached", "waiting", "answered"}]
  /\ target \in [Requests -> Workers]
  /\ flags \in [Requests -> BOOLEAN]
  /\ report \in [Requests -> [status : {"none", "ok", "EBUSY", "errno"}, nbytes : Nat]]
  /\ copied \in [Requests -> SUBSET Nat]
  /\ \A r \in Requests : copied[r] \subseteq 0 .. (FileBlocks[PathOf[r]] - 1)
  /\ \A p \in Paths : cache[p] \subseteq 0 .. (FileBlocks[p] - 1)
  /\ blocked \in 0 .. BlockCalls
  /\ fin \in [step : {"no", "stop", "join", "done"}, worker : Workers]

\* The nodes of a worker's queue, by following next from head
Queued(w) ==
  LET reach[k \in 0 .. Cardinality(Requests)] ==
        IF k = 0 THEN {head[w]} \ {None}
        ELSE reach[k - 1] \cup ({next[r] : r \in reach[k - 1]} \ {None})
  IN reach[Cardinality(Requests)]

\* A request that was queued and not answered is in the queue of one worker or
\* is the item of one, and a request that was answered is in none: after
\* CMHDone its caller may free it.
NoRequestLost ==
  \A r \in Requests :
    Cardinality({w \in Workers : r \in Queued(w)}) + Cardinality({w \in Workers : item[w] = r})
      = IF cpc[r] = "waiting" THEN 1 ELSE 0

\* fw->tail, which the next call links its node to, is the end of a queue that
\* is not empty: never the node of an item that was taken and freed.
TailEndsQueue ==
  \A w \in Workers :
    head[w] # None => tail[w] \in Queued(w) /\ next[tail[w]] = None

\* A file is copied by one worker at a time, so that no two prefetches mix the
\* order of its blocks.  (AnyOrder = FALSE of RSCTable asks for more: that no
\* user reads or writes the file out of order either.)
OneWorkerPerFile ==
  \A v, w \in Workers :
    item[v] # None /\ item[w] # None /\ FileOf(v) = FileOf(w) => v = w

\* nbytes tells the caller what was copied: the blocks before it, and no other,
\* were read and given to the cache for the request, also when a read failed or
\* the request was cancelled, and with status 0 and no cancellation they are the
\* whole file.  The exception is the answer of line 126, which claims the whole
\* file and has read nothing: it only knows that the last block was cached when
\* the length was compared (a user's read of that block is enough, the others
\* may be missing), or it has compared an entry that was freed.  Whether the
\* cache kept the blocks no answer tells: Insert_RSC_table returns nothing.
ReportTellsCopied ==
  \A r \in Requests :
    cpc[r] = "answered" /\ report[r].status # "none" =>
      LET whole == report[r].status = "ok" /\ report[r].nbytes = FileBlocks[PathOf[r]]
      IN \/ /\ copied[r] = 0 .. (report[r].nbytes - 1)
            /\ report[r].status = "ok" /\ ~flags[r] => whole
         \/ copied[r] = {} /\ whole

\* Every request is answered unless the shutdown begins: no wakeup of a worker
\* is lost while the threads run.
EveryRequestAnswered ==
  \A r \in Requests :
    cpc[r] = "waiting" ~> cpc[r] = "answered" \/ fin.step # "no" \/ ~Alive

\* A worker that has not gone to sleep, or into the call that puts it to sleep,
\* when its exit flag is set does exit.
AwakeWorkersExit ==
  \A w \in Workers :
    exit[w] /\ wpc[w] \notin {"lock", "wait"} ~> wpc[w] = "exited" \/ ~Alive

-----------------------------------------------------------------------------
(* What an assertion of the code says.                                      *)

\* PX_ASSERT(pthread_join(fw->tid, NULL) == 0) (prefetch.c:646): the shutdown
\* joins every worker.
WorkersJoined == fin.step # "no" ~> fin.step = "done" \/ ~Alive

=============================================================================
