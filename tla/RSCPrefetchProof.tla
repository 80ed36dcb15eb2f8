-------------------------- MODULE RSCPrefetchProof --------------------------
(***************************************************************************)
(* RSCPrefetch for any number of requests, files, blocks and workers: the  *)
(* types, that no two workers copy one file, and that an answer tells what *)
(* was copied.                                                             *)
(*                                                                         *)
(* A queue is a list of the requests that wait at its worker (Waiting): so *)
(* what following next from head finds, which is how the properties say    *)
(* what is queued, is those requests and no other (RSCInduction).          *)
(***************************************************************************)
EXTENDS RSCPrefetch, RSCInduction

-----------------------------------------------------------------------------
(* The invariant.                                                          *)

\* The size of the table of paths is a number.
TypeInv == TypeOK /\ IsFiniteSet(fft)

\* The part of TypeOK that says where the workers are.
PlacesOK ==
  /\ wpc \in [Workers -> {"test", "lock", "wait", "woken", "take", "lookup", "compare",
                          "dangling", "copy", "exited", "crashed"}]
  /\ item \in [Workers -> Requests \cup {None}]
  /\ \A w \in Workers :
       wpc[w] \in {"lookup", "compare", "dangling", "copy", "crashed"} <=> item[w] # None

\* The requests that worker w has not taken yet
Waiting(w) == {r \in Requests : cpc[r] = "waiting" /\ target[r] = w /\ item[w] # r}

\* The requests that wait at a worker are a list from its head, which its tail
\* ends unless it is empty; a worker's item is the request of a caller that
\* waits for this worker.
QueueInv ==
  /\ \A w \in Workers :
       /\ \E n, c : Chained(None, Waiting(w), head[w], next, n, c)
       /\ head[w] # None => tail[w] \in Waiting(w) /\ next[tail[w]] = None
       /\ item[w] # None => cpc[item[w]] = "waiting" /\ target[item[w]] = w
  /\ \A r \in Requests : cpc[r] \notin {"waiting", "answered"} => next[r] = None

\* The steps of a caller that has registered its path itself
Pending == {"pick", "append", "waiting"}

\* Only one caller has registered a path, and the table has it until the
\* shutdown.
PathInv ==
  /\ \A q, r \in Requests :
       cpc[q] \in Pending /\ cpc[r] \in Pending /\ PathOf[q] = PathOf[r] => q = r
  /\ fin.step = "no" => \A r \in Requests : cpc[r] \in Pending => PathOf[r] \in fft

\* No worker has said anything of request r.
Untouched(r) == report[r].status = "none" /\ report[r].nbytes = 0 /\ copied[r] = {}

\* What has been said of the request that a worker copies is how far it is.
ReportInv ==
  /\ \A r \in Requests : cpc[r] \notin {"waiting", "answered"} => Untouched(r)
  /\ \A w \in Workers :
       /\ \A r \in Waiting(w) : Untouched(r)
       /\ wpc[w] \notin {"copy", "crashed"} => pos[w] = 0
       /\ wpc[w] \in {"lookup", "compare", "dangling"} =>
            report[item[w]].nbytes = 0 /\ copied[item[w]] = {}
       /\ wpc[w] = "copy" => /\ report[item[w]].nbytes = pos[w]
                             /\ copied[item[w]] = 0 .. (pos[w] - 1)
                             /\ pos[w] = 0 \/ pos[w] < FileBlocks[FileOf(w)]

PrefetchInv == TypeInv /\ QueueInv /\ PathInv /\ ReportInv /\ ReportTellsCopied

\* The initial states satisfy the invariant.
LEMMA Start == Init => PrefetchInv
<1> SUFFICES ASSUME Init PROVE PrefetchInv
  OBVIOUS
<1> USE PrefetchAssumption DEF Init
<1>1. TypeInv
  BY FS_EmptySet DEF TypeInv, TypeOK, Workers, User
<1>2. PathInv /\ ReportInv /\ ReportTellsCopied
  BY DEF Waiting, PathInv, Pending, ReportInv, Untouched, ReportTellsCopied
<1>3. QueueInv
  <2>1. ASSUME NEW w \in Workers
        PROVE  \E n, c : Chained(None, Waiting(w), head[w], next, n, c)
    <3>1. Waiting(w) = {} /\ head[w] = None
      BY DEF Waiting
    <3>2. \E n, c : Chained(None, {}, None, next, n, c)
      BY ChainedEmpty
    <3> QED BY <3>1, <3>2
  <2> QED BY <2>1 DEF QueueInv
<1> QED BY <1>1, <1>2, <1>3 DEF PrefetchInv

-----------------------------------------------------------------------------
(* Types.                                                                  *)

\* The loops of Finit_fetch_thread stay among the workers.
LEMMA NextWorker ==
  ASSUME NEW f \in [step : {"no", "stop", "join", "done"}, worker : Workers],
         f.worker # NumWorkers - 1
  PROVE  [f EXCEPT !.worker = @ + 1] \in [step : {"no", "stop", "join", "done"}, worker : Workers]
BY PrefetchAssumption DEF Workers

\* What a worker may write to a caller's rscstatus
LEMMA ReportTyped ==
  ASSUME NEW f \in [Requests -> [status : {"none", "ok", "EBUSY", "errno"}, nbytes : Nat]],
         NEW r \in Requests, NEW n \in Nat, NEW x \in {"none", "ok", "EBUSY", "errno"}
  PROVE  /\ [f EXCEPT ![r].nbytes = n] \in
              [Requests -> [status : {"none", "ok", "EBUSY", "errno"}, nbytes : Nat]]
         /\ [f EXCEPT ![r] = [status |-> x, nbytes |-> n]] \in
              [Requests -> [status : {"none", "ok", "EBUSY", "errno"}, nbytes : Nat]]
OBVIOUS

\* The steps of QueueCMHToRSC_fsize and Cancel keep the types.
LEMMA CallerTypes ==
  ASSUME PrefetchInv, NEW r \in Requests, Register(r) \/ Cancel(r) \/ CallerStep(r)
  PROVE  TypeInv'
<1> USE PrefetchAssumption DEF PrefetchInv, TypeInv, TypeOK, queues, workers, callers, others
<1>1. CASE Register(r)
  <2>1. IsFiniteSet(fft \cup {PathOf[r]})
    BY FS_AddElement
  <2> QED BY <1>1, <2>1 DEF Register
<1>2. CASE Cancel(r)
  BY <1>2 DEF Cancel
<1>3. CASE PickWorker(r)
  <2>1. Cardinality(fft) % NumWorkers \in Workers
    BY FS_CardinalityType DEF Workers
  <2> QED BY <1>3, <2>1 DEF PickWorker
<1>4. CASE AppendItem(r)
  <2> DEFINE w == target[r]
  <2>1. w \in Workers
    OBVIOUS
  <2>2. /\ head' \in [Workers -> Requests \cup {None}]
        /\ tail' \in [Workers -> Requests \cup {None}]
        /\ next' \in [Requests -> Requests \cup {None}]
    <3>1. CASE head[w] = None
      BY <1>4, <2>1, <3>1 DEF AppendItem
    <3>2. CASE head[w] # None
      <4>1. tail[w] \in Requests
        BY <2>1, <3>2 DEF QueueInv, Waiting
      <4>2. head' = head /\ tail' = [tail EXCEPT ![w] = r] /\ next' = [next EXCEPT ![tail[w]] = r]
        BY <1>4, <3>2 DEF AppendItem
      <4> QED BY <2>1, <4>1, <4>2
    <3> QED BY <3>1, <3>2
  <2>3. PlacesOK'
    BY <1>4, <2>1 DEF AppendItem, Signal, PlacesOK
  <2>4. cpc' \in [Requests -> {"new", "pick", "append", "cached", "waiting", "answered"}]
    BY <1>4 DEF AppendItem
  <2> QED BY <1>4, <2>2, <2>3, <2>4 DEF AppendItem, PlacesOK
<1>5. CASE AnswerCached(r)
  BY <1>5 DEF AnswerCached
<1> QED BY <1>1, <1>2, <1>3, <1>4, <1>5 DEF CallerStep

\* A worker goes on, and keeps its item,
LEMMA PlaceMoved ==
  ASSUME PlacesOK, NEW w \in Workers,
         NEW x \in {"test", "lock", "wait", "woken", "take", "lookup", "compare",
                   "dangling", "copy", "exited", "crashed"},
         wpc' = [wpc EXCEPT ![w] = x], item' = item,
         x \in {"lookup", "compare", "dangling", "copy", "crashed"} <=> item[w] # None
  PROVE  PlacesOK'
BY DEF PlacesOK

\* or has another.
LEMMA ItemMoved ==
  ASSUME PlacesOK, NEW w \in Workers, NEW i \in Requests \cup {None},
         NEW x \in {"test", "lock", "wait", "woken", "take", "lookup", "compare",
                   "dangling", "copy", "exited", "crashed"},
         wpc' = [wpc EXCEPT ![w] = x], item' = [item EXCEPT ![w] = i],
         x \in {"lookup", "compare", "dangling", "copy", "crashed"} <=> i # None
  PROVE  PlacesOK'
BY DEF PlacesOK

\* It waits for a request, or goes to take one.
LEMMA WaitOrTakeTypes ==
  ASSUME TypeOK, NEW w \in Workers, wpc[w] \in {"lock", "woken"}, WaitOrTake(w), item' = item
  PROVE  PlacesOK' /\ lock' \in [Workers -> Workers \cup {User, None}]
<1>1. PlacesOK /\ item[w] = None
  BY DEF TypeOK, PlacesOK
<1>2. lock' \in [Workers -> Workers \cup {User, None}]
  BY DEF TypeOK, WaitOrTake
<1>3. wpc' = [wpc EXCEPT ![w] = "wait"] \/ wpc' = [wpc EXCEPT ![w] = "take"]
  BY DEF WaitOrTake
<1> QED BY <1>1, <1>2, <1>3, PlaceMoved

\* So do those of fetchworkercmh and ReadCMHToCache,
LEMMA WorkerTypes ==
  ASSUME PrefetchInv, NEW w \in Workers, WorkerStep(w) \/ SpuriousWakeup(w)
  PROVE  TypeInv'
<1> USE PrefetchAssumption DEF PrefetchInv, TypeInv, TypeOK, queues, workers, callers, others
<1>1. CASE TestExit(w)
  BY <1>1 DEF TestExit
<1>2. CASE LockQueue(w)
  <2>1. PlacesOK' /\ lock' \in [Workers -> Workers \cup {User, None}]
    BY <1>2, WaitOrTakeTypes DEF LockQueue
  <2> QED BY <1>2, <2>1 DEF LockQueue, PlacesOK
<1>3. CASE WakeUp(w)
  <2>1. PlacesOK' /\ lock' \in [Workers -> Workers \cup {User, None}]
    <3>1. CASE exit[w]
      <4>1. wpc' = [wpc EXCEPT ![w] = "take"] /\ lock' = lock /\ item' = item /\ item[w] = None
        BY <1>3, <3>1 DEF WakeUp
      <4> QED BY <4>1, PlaceMoved DEF PlacesOK
    <3>2. CASE ~exit[w]
      BY <1>3, <3>2, WaitOrTakeTypes DEF WakeUp
    <3> QED BY <3>1, <3>2
  <2> QED BY <1>3, <2>1 DEF WakeUp, PlacesOK
<1>4. CASE TakeItem(w)
  <2>1. lock' \in [Workers -> Workers \cup {User, None}]
    BY <1>4 DEF TakeItem
  <2>2. /\ head' \in [Workers -> Requests \cup {None}]
        /\ tail' \in [Workers -> Requests \cup {None}]
    <3>1. CASE head[w] # None
      <4>1. next[head[w]] \in Requests \cup {None}
        BY <3>1
      <4> QED BY <1>4, <3>1, <4>1 DEF TakeItem
    <3>2. CASE head[w] = None
      BY <1>4, <3>2 DEF TakeItem
    <3> QED BY <3>1, <3>2
  <2>3. PlacesOK
    BY DEF PlacesOK
  <2>4. PlacesOK'
    <3>1. item' = [item EXCEPT ![w] = head[w]] /\ head[w] \in Requests \cup {None}
      BY <1>4 DEF TakeItem
    <3>2. wpc' = [wpc EXCEPT ![w] = IF head[w] # None THEN "lookup" ELSE "test"]
      BY <1>4 DEF TakeItem
    <3> HIDE DEF TypeOK, TypeInv, PrefetchInv
    <3>3. CASE head[w] # None
      BY <2>3, <3>1, <3>2, <3>3, ItemMoved
    <3>4. CASE head[w] = None
      BY <2>3, <3>1, <3>2, <3>4, ItemMoved
    <3> QED BY <3>3, <3>4
  <2> QED BY <1>4, <2>1, <2>2, <2>4 DEF TakeItem, PlacesOK
<1>5. CASE LookupFile(w)
  BY <1>5 DEF LookupFile
<1>6. CASE FileIsCached(w)
  BY <1>6 DEF FileIsCached, Answer, FileOf
<1>7. CASE RemoveOldFile(w)
  BY <1>7 DEF RemoveOldFile
<1>8. CASE Crash(w)
  BY <1>8 DEF Crash
<1>9. CASE CopyBlock(w)
  <2>0. item[w] \in Requests /\ pos[w] + 1 \in Nat
    BY <1>9 DEF CopyBlock
  <2>1. FileOf(w) \in Paths /\ pos[w] \in 0 .. (FileBlocks[FileOf(w)] - 1)
    BY <1>9 DEF CopyBlock, FileOf
  <2>2. \A p \in Paths : (cache')[p] \subseteq 0 .. (FileBlocks[p] - 1)
    <3>1. CASE cache' = cache
      BY <3>1
    <3>2. CASE cache' = [cache EXCEPT ![FileOf(w)] = @ \cup {pos[w]}]
      BY <2>1, <3>2
    <3> QED BY <1>9, <3>1, <3>2 DEF CopyBlock
  <2>5. \A r \in Requests : (copied')[r] \subseteq 0 .. (FileBlocks[PathOf[r]] - 1)
    <3>1. copied' = [copied EXCEPT ![item[w]] = @ \cup {pos[w]}]
      BY <1>9 DEF CopyBlock
    <3> QED BY <2>0, <2>1, <3>1 DEF FileOf
  <2>6. copied' \in [Requests -> SUBSET Nat]
    <3>1. copied' = [copied EXCEPT ![item[w]] = @ \cup {pos[w]}]
      BY <1>9 DEF CopyBlock
    <3> QED BY <2>0, <2>1, <3>1
  <2>3. CASE LastBlock(w)
    <3>1. PlacesOK'
      <4>1. wpc' = [wpc EXCEPT ![w] = "test"] /\ item' = [item EXCEPT ![w] = None]
        BY <1>9, <2>3 DEF CopyBlock, Answer
      <4>2. PlacesOK
        BY DEF PlacesOK
      <4> QED BY <4>1, <4>2, ItemMoved
    <3>2. pos' \in [Workers -> Nat]
      BY <1>9, <2>3 DEF CopyBlock, Answer
    <3>3. cpc' \in [Requests -> {"new", "pick", "append", "cached", "waiting", "answered"}]
      BY <1>9, <2>3 DEF CopyBlock, Answer
    <3>4. report' \in [Requests -> [status : {"none", "ok", "EBUSY", "errno"}, nbytes : Nat]]
      <4>1. report' = [report EXCEPT ![item[w]] = [status |-> "ok", nbytes |-> pos[w] + 1]]
        BY <1>9, <2>3 DEF CopyBlock, Answer
      <4>2. [report EXCEPT ![item[w]] = [status |-> "ok", nbytes |-> pos[w] + 1]] \in
              [Requests -> [status : {"none", "ok", "EBUSY", "errno"}, nbytes : Nat]]
        BY <2>0, ReportTyped
      <4> QED BY <4>1, <4>2
    <3> QED BY <1>9, <2>2, <2>5, <2>6, <3>1, <3>2, <3>3, <3>4 DEF CopyBlock, PlacesOK
  <2>4. CASE ~LastBlock(w)
    <3>1. PlacesOK' /\ pos' \in [Workers -> Nat]
      BY <1>9, <2>4 DEF CopyBlock, PlacesOK
    <3>2. report' \in [Requests -> [status : {"none", "ok", "EBUSY", "errno"}, nbytes : Nat]]
      <4>1. report' = [report EXCEPT ![item[w]].nbytes = pos[w] + 1]
        BY <1>9, <2>4 DEF CopyBlock
      <4>2. [report EXCEPT ![item[w]].nbytes = pos[w] + 1] \in
              [Requests -> [status : {"none", "ok", "EBUSY", "errno"}, nbytes : Nat]]
        BY <2>0, ReportTyped
      <4> QED BY <4>1, <4>2
    <3> QED BY <1>9, <2>2, <2>5, <2>6, <2>4, <3>1, <3>2 DEF CopyBlock, PlacesOK
  <2> QED BY <2>3, <2>4
<1>10. CASE ReadFails(w)
  BY <1>10 DEF ReadFails, Answer
<1>11. CASE NothingToCopy(w)
  BY <1>11 DEF NothingToCopy, Answer
<1>12. CASE SpuriousWakeup(w)
  BY <1>12 DEF SpuriousWakeup
<1> QED BY <1>1, <1>2, <1>3, <1>4, <1>5, <1>6, <1>7, <1>8, <1>9, <1>10, <1>11,
           <1>12 DEF WorkerStep

\* All other steps
Environment ==
  \/ \E p \in Paths : ForgetFile(p) \/ \E b \in 0 .. FileBlocks[p] : UserReads(p, b)
  \/ Block_fetch_thread \/ Wakeup_fetch_thread
  \/ StartFinit \/ FinitStep

\* and the others.
LEMMA EnvironmentTypes ==
  ASSUME PrefetchInv, Environment
  PROVE  TypeInv'
<1> USE PrefetchAssumption DEF PrefetchInv, TypeInv, TypeOK, queues, workers, callers, others
<1>1. ASSUME NEW p \in Paths, ForgetFile(p) PROVE TypeInv'
  BY <1>1 DEF ForgetFile
<1>2. ASSUME NEW p \in Paths, NEW b \in 0 .. FileBlocks[p], UserReads(p, b) PROVE TypeInv'
  BY <1>2 DEF UserReads
<1>3. CASE Block_fetch_thread
  BY <1>3 DEF Block_fetch_thread, Workers
<1>4. CASE Wakeup_fetch_thread
  BY <1>4 DEF Wakeup_fetch_thread, Signal
<1>5. CASE StartFinit
  BY <1>5 DEF StartFinit, Workers
<1>6. CASE StopWorker
  <2>1. fin' \in [step : {"no", "stop", "join", "done"}, worker : Workers]
    BY <1>6 DEF StopWorker, Workers
  <2>2. wpc' = Signal(fin.worker) /\ item' = item
    BY <1>6 DEF StopWorker
  <2>3. fft' \subseteq Paths /\ IsFiniteSet(fft')
    BY <1>6, FS_EmptySet DEF StopWorker
  <2> QED BY <1>6, <2>1, <2>2, <2>3 DEF StopWorker, Signal
<1>7. CASE JoinWorker
  <2>1. fin' \in [step : {"no", "stop", "join", "done"}, worker : Workers]
    <3>1. CASE fin.worker = NumWorkers - 1
      BY <1>7, <3>1 DEF JoinWorker, Workers
    <3>2. CASE fin.worker # NumWorkers - 1
      BY <1>7, <3>2, NextWorker DEF JoinWorker
    <3> QED BY <3>1, <3>2
  <2> QED BY <1>7, <2>1 DEF JoinWorker
<1> QED BY <1>1, <1>2, <1>3, <1>4, <1>5, <1>6, <1>7 DEF Environment, FinitStep

-----------------------------------------------------------------------------
(* Queues.                                                                 *)

\* The head of a queue waits in it.
LEMMA HeadWaits ==
  ASSUME QueueInv, NEW w \in Workers
  PROVE  /\ head[w] = None <=> Waiting(w) = {}
         /\ head[w] # None => head[w] \in Waiting(w)
<1>1. PICK n, c : Chained(None, Waiting(w), head[w], next, n, c)
  BY DEF QueueInv
<1> QED BY <1>1, ChainedFirst

\* Steps that move no request keep the queues,
LEMMA SameQueues ==
  ASSUME QueueInv, UNCHANGED <<head, tail, next>>,
         \A v \in Workers : Waiting(v)' = Waiting(v),
         \A v \in Workers : item'[v] # None => cpc'[item'[v]] = "waiting" /\ target'[item'[v]] = v,
         \A q \in Requests : cpc'[q] \notin {"waiting", "answered"} => next'[q] = None
  PROVE  QueueInv'
<1>1. \A v \in Workers : \E n, c : Chained(None, Waiting(v), head[v], next, n, c)
  BY DEF QueueInv
<1>2. \A v \in Workers : \E n, c : Chained(None, Waiting(v)', head'[v], next', n, c)
  BY <1>1
<1>3. \A v \in Workers : head'[v] # None => tail'[v] \in Waiting(v)' /\ next'[tail'[v]] = None
  BY DEF QueueInv
<1> QED BY <1>2, <1>3 DEF QueueInv

\* as do those that touch nothing of them.
LEMMA QueueUntouched ==
  ASSUME QueueInv, UNCHANGED <<head, tail, next, cpc, target, item>>
  PROVE  QueueInv'
BY DEF QueueInv, Waiting

\* A caller's steps: the new node was in no queue, so nothing links to it but
\* the old tail.
LEMMA CallerQueues ==
  ASSUME PrefetchInv, NEW r \in Requests, Register(r) \/ Cancel(r) \/ CallerStep(r)
  PROVE  QueueInv'
<1> USE DEF PrefetchInv
<1>1. CASE Register(r)
  <2>1. UNCHANGED <<head, tail, next>> /\ item' = item /\ cpc[r] \notin {"waiting", "answered"}
    BY <1>1 DEF Register, queues, workers
  <2>2. \A v \in Workers : Waiting(v)' = Waiting(v)
    BY <1>1, <2>1 DEF Register, Waiting, TypeInv, TypeOK
  <2>3. \A v \in Workers : item'[v] # None => cpc'[item'[v]] = "waiting" /\ target'[item'[v]] = v
    BY <1>1, <2>1 DEF Register, QueueInv, TypeInv, TypeOK
  <2>4. \A q \in Requests : cpc'[q] \notin {"waiting", "answered"} => next'[q] = None
    BY <1>1, <2>1 DEF Register, QueueInv, TypeInv, TypeOK
  <2> QED BY <2>1, <2>2, <2>3, <2>4, SameQueues
<1>2. CASE Cancel(r)
  BY <1>2, QueueUntouched DEF Cancel, queues, workers
<1>3. CASE PickWorker(r)
  <2>1. UNCHANGED <<head, tail, next>> /\ item' = item /\ cpc[r] \notin {"waiting", "answered"}
    BY <1>3 DEF PickWorker, queues, workers
  <2>2. \A v \in Workers : Waiting(v)' = Waiting(v)
    BY <1>3, <2>1 DEF PickWorker, Waiting, TypeInv, TypeOK
  <2>3. \A v \in Workers : item'[v] # None => cpc'[item'[v]] = "waiting" /\ target'[item'[v]] = v
    BY <1>3, <2>1 DEF PickWorker, QueueInv, TypeInv, TypeOK
  <2>4. \A q \in Requests : cpc'[q] \notin {"waiting", "answered"} => next'[q] = None
    BY <1>3, <2>1 DEF PickWorker, QueueInv, TypeInv, TypeOK
  <2> QED BY <2>1, <2>2, <2>3, <2>4, SameQueues
<1>4. CASE AppendItem(r)
  <2> DEFINE w == target[r]
  <2>1. w \in Workers /\ cpc[r] = "append" /\ next[r] = None
    BY <1>4 DEF AppendItem, TypeInv, TypeOK, QueueInv
  <2>2. \A v \in Workers : Waiting(v)' = IF v = w THEN Waiting(v) \cup {r} ELSE Waiting(v)
    <3>1. cpc' = [cpc EXCEPT ![r] = "waiting"] /\ target' = target /\ item' = item
      BY <1>4 DEF AppendItem
    <3>2. \A v \in Workers : item[v] # r
      BY <2>1, PrefetchAssumption DEF QueueInv
    <3>3. cpc \in [Requests -> {"new", "pick", "append", "cached", "waiting", "answered"}]
      BY DEF TypeInv, TypeOK
    <3> QED BY <2>1, <3>1, <3>2, <3>3 DEF Waiting
  <2>3. \A v \in Workers : r \notin Waiting(v)
    BY <2>1 DEF Waiting
  <2>4. /\ tail' = [tail EXCEPT ![w] = r] /\ item' = item /\ target' = target
        /\ cpc' = [cpc EXCEPT ![r] = "waiting"]
        /\ head' = [head EXCEPT ![w] = IF head[w] = None THEN r ELSE head[w]]
        /\ next' = IF head[w] = None THEN next ELSE [next EXCEPT ![tail[w]] = r]
    BY <1>4, <2>1 DEF AppendItem, TypeInv, TypeOK
  <2>5. PICK n, c : Chained(None, Waiting(w), head[w], next, n, c)
    BY <2>1 DEF QueueInv
  <2>6. head[w] = None <=> Waiting(w) = {}
    BY <2>5, ChainedFirst
  <2>7. /\ next'[r] = None
        /\ \A q \in Waiting(w) : next'[q] = IF next[q] = None THEN r ELSE next[q]
        /\ \A q \in Requests \ Waiting(w) : next'[q] = next[q]
    <3>1. CASE head[w] = None
      BY <2>1, <2>4, <2>6, <3>1
    <3>2. CASE head[w] # None
      <4>1. tail[w] \in Waiting(w) /\ next[tail[w]] = None
        BY <2>1, <3>2 DEF QueueInv
      <4>2. \A q \in Waiting(w) : next[q] = None <=> q = tail[w]
        BY <2>5, <4>1, ChainedLast
      <4>3. next' = [next EXCEPT ![tail[w]] = r] /\ next \in [Requests -> Requests \cup {None}]
        BY <2>4, <3>2 DEF TypeInv, TypeOK
      <4>4. Waiting(w) \subseteq Requests /\ r \notin Waiting(w)
        BY <2>1, <2>3 DEF Waiting
      <4> QED BY <2>1, <4>1, <4>2, <4>3, <4>4
    <3> QED BY <3>1, <3>2
  <2>8. r # None
    BY PrefetchAssumption
  <2>9. \E m, d : Chained(None, Waiting(w) \cup {r}, IF Waiting(w) = {} THEN r ELSE head[w], next', m, d)
    BY <2>1, <2>3, <2>5, <2>7, <2>8, ChainedPut
  <2>10. ASSUME NEW v \in Workers
         PROVE  \E m, d : Chained(None, Waiting(v)', head'[v], next', m, d)
    <3>1. CASE v = w
      <4>1. Waiting(v)' = Waiting(w) \cup {r} /\ head'[v] = IF Waiting(w) = {} THEN r ELSE head[w]
        BY <2>1, <2>2, <2>4, <2>6, <3>1 DEF TypeInv, TypeOK
      <4> QED BY <2>9, <4>1
    <3>2. CASE v # w
      <4>1. Waiting(v)' = Waiting(v) /\ head'[v] = head[v]
        BY <2>1, <2>2, <2>4, <3>2 DEF TypeInv, TypeOK
      <4>2. \A q \in Waiting(v) : next'[q] = next[q]
        BY <2>7, <3>2 DEF Waiting
      <4>3. PICK m, d : Chained(None, Waiting(v), head[v], next, m, d)
        BY DEF QueueInv
      <4>4. Chained(None, Waiting(v), head[v], next', m, d)
        BY <4>2, <4>3, ChainedSame
      <4> QED BY <4>1, <4>4
    <3> QED BY <3>1, <3>2
  <2>11. ASSUME NEW v \in Workers, head'[v] # None
         PROVE  tail'[v] \in Waiting(v)' /\ next'[tail'[v]] = None
    <3>1. CASE v = w
      BY <2>1, <2>2, <2>4, <2>7, <3>1 DEF TypeInv, TypeOK
    <3>2. CASE v # w
      <4>1. Waiting(v)' = Waiting(v) /\ head'[v] = head[v] /\ tail'[v] = tail[v]
        BY <2>1, <2>2, <2>4, <3>2 DEF TypeInv, TypeOK
      <4>2. tail[v] \in Requests \ Waiting(w)
        BY <2>11, <3>2, <4>1 DEF QueueInv, Waiting
      <4> QED BY <2>7, <2>11, <4>1, <4>2 DEF QueueInv
    <3> QED BY <3>1, <3>2
  <2>12. \A v \in Workers : item'[v] # None => cpc'[item'[v]] = "waiting" /\ target'[item'[v]] = v
    BY <2>4 DEF QueueInv, TypeInv, TypeOK
  <2>13. \A q \in Requests : cpc'[q] \notin {"waiting", "answered"} => next'[q] = None
    BY <2>4, <2>7 DEF QueueInv, Waiting, TypeInv, TypeOK
  <2> QED BY <2>10, <2>11, <2>12, <2>13 DEF QueueInv
<1>5. CASE AnswerCached(r)
  <2>1. UNCHANGED <<head, tail, next>> /\ item' = item /\ cpc[r] \notin {"waiting", "answered"}
    BY <1>5 DEF AnswerCached, queues, workers
  <2>2. \A v \in Workers : Waiting(v)' = Waiting(v)
    BY <1>5, <2>1 DEF AnswerCached, Waiting, TypeInv, TypeOK
  <2>3. \A v \in Workers : item'[v] # None => cpc'[item'[v]] = "waiting" /\ target'[item'[v]] = v
    BY <1>5, <2>1 DEF AnswerCached, QueueInv, TypeInv, TypeOK
  <2>4. \A q \in Requests : cpc'[q] \notin {"waiting", "answered"} => next'[q] = None
    BY <1>5, <2>1 DEF AnswerCached, QueueInv, TypeInv, TypeOK
  <2> QED BY <2>1, <2>2, <2>3, <2>4, SameQueues
<1> QED BY <1>1, <1>2, <1>3, <1>4, <1>5 DEF CallerStep

\* An answered request was its worker's item and in no queue.
LEMMA AnsweredQueues ==
  ASSUME PrefetchInv, NEW w \in Workers, item[w] # None, NEW status, NEW nbytes,
         Answer(w, status, nbytes), UNCHANGED <<head, tail, next, target>>
  PROVE  QueueInv'
<1>1. item[w] \in Requests /\ cpc[item[w]] = "waiting" /\ target[item[w]] = w
  BY DEF PrefetchInv, TypeInv, TypeOK, QueueInv
<1>2. \A v \in Workers : Waiting(v)' = Waiting(v)
  BY <1>1, PrefetchAssumption DEF PrefetchInv, Answer, Waiting, TypeInv, TypeOK
<1> QED BY <1>1, <1>2 DEF PrefetchInv, QueueInv, Answer, TypeInv, TypeOK

\* A worker's steps: the head that it takes leaves its queue, and the next one
\* begins the list of the others.
LEMMA WorkerQueues ==
  ASSUME PrefetchInv, NEW w \in Workers, WorkerStep(w) \/ SpuriousWakeup(w)
  PROVE  QueueInv'
<1> USE DEF PrefetchInv, queues, workers, callers
<1>1. CASE TestExit(w) \/ LockQueue(w) \/ WakeUp(w) \/ LookupFile(w) \/ RemoveOldFile(w)
           \/ Crash(w) \/ SpuriousWakeup(w)
  BY <1>1, QueueUntouched
  DEF TestExit, LockQueue, WakeUp, LookupFile, RemoveOldFile, Crash, SpuriousWakeup
<1>2. CASE TakeItem(w)
  <2>1. item[w] = None
    BY <1>2 DEF TakeItem, TypeInv, TypeOK
  <2>2. CASE head[w] = None
    <3>1. \A v \in Workers : Waiting(v)' = Waiting(v)
      BY <1>2, <2>1, <2>2 DEF TakeItem, Waiting, TypeInv, TypeOK
    <3> QED BY <1>2, <2>1, <2>2, <3>1 DEF TakeItem, QueueInv, TypeInv, TypeOK
  <2>3. CASE head[w] # None
    <3>1. \A v \in Workers : Waiting(v)' = IF v = w THEN Waiting(v) \ {head[w]} ELSE Waiting(v)
      BY <1>2, <2>1, <2>3, PrefetchAssumption
      DEF TakeItem, Waiting, QueueInv, TypeInv, TypeOK
    <3>2. head[w] \in Waiting(w)
      BY <2>3, HeadWaits
    <3>3. /\ head' = [head EXCEPT ![w] = next[head[w]]] /\ tail' = tail /\ next' = next
          /\ item' = [item EXCEPT ![w] = head[w]] /\ cpc' = cpc /\ target' = target
      BY <1>2, <2>3 DEF TakeItem
    <3>4. PICK n, c : Chained(None, Waiting(w), head[w], next, n, c)
      BY DEF QueueInv
    <3>5. \E m, d : Chained(None, Waiting(w) \ {head[w]}, next[head[w]], next, m, d)
      BY <2>3, <3>4, ChainedTake
    <3>6. ASSUME NEW v \in Workers
          PROVE  \E m, d : Chained(None, Waiting(v)', head'[v], next', m, d)
      <4>1. CASE v = w
        <5>1. Waiting(v)' = Waiting(w) \ {head[w]} /\ head'[v] = next[head[w]] /\ next' = next
          BY <3>1, <3>3, <4>1 DEF TypeInv, TypeOK
        <5> QED BY <3>5, <5>1
      <4>2. CASE v # w
        <5>1. Waiting(v)' = Waiting(v) /\ head'[v] = head[v] /\ next' = next
          BY <3>1, <3>3, <4>2 DEF TypeInv, TypeOK
        <5>2. \E m, d : Chained(None, Waiting(v), head[v], next, m, d)
          BY DEF QueueInv
        <5> QED BY <5>1, <5>2
      <4> QED BY <4>1, <4>2
    <3>7. ASSUME NEW v \in Workers, head'[v] # None
          PROVE  tail'[v] \in Waiting(v)' /\ next'[tail'[v]] = None
      <4>1. CASE v = w
        <5>1. next[head[w]] # None
          BY <3>3, <3>7, <4>1 DEF TypeInv, TypeOK
        <5> QED BY <2>3, <3>1, <3>3, <4>1, <5>1 DEF QueueInv
      <4>2. CASE v # w
        BY <3>1, <3>3, <3>7, <4>2 DEF QueueInv, TypeInv, TypeOK
      <4> QED BY <4>1, <4>2
    <3>8. \A q \in Requests : cpc'[q] \notin {"waiting", "answered"} => next'[q] = None
      BY <3>3 DEF QueueInv
    <3>9. \A v \in Workers : item'[v] # None => cpc'[item'[v]] = "waiting" /\ target'[item'[v]] = v
      BY <3>2, <3>3 DEF QueueInv, Waiting, TypeInv, TypeOK
    <3> QED BY <3>6, <3>7, <3>8, <3>9 DEF QueueInv
  <2> QED BY <2>2, <2>3
<1>3. CASE FileIsCached(w)
  BY <1>3, AnsweredQueues DEF FileIsCached, TypeInv, TypeOK
<1>4. CASE CopyBlock(w)
  <2>1. CASE LastBlock(w)
    BY <1>4, <2>1, AnsweredQueues DEF CopyBlock, TypeInv, TypeOK
  <2>2. CASE ~LastBlock(w)
    BY <1>4, <2>2, QueueUntouched DEF CopyBlock
  <2> QED BY <2>1, <2>2
<1>5. CASE ReadFails(w)
  BY <1>5, AnsweredQueues DEF ReadFails, TypeInv, TypeOK
<1>6. CASE NothingToCopy(w)
  BY <1>6, AnsweredQueues DEF NothingToCopy, TypeInv, TypeOK
<1> QED BY <1>1, <1>2, <1>3, <1>4, <1>5, <1>6 DEF WorkerStep

\* The other steps do not touch the queues.
LEMMA EnvironmentQueues ==
  ASSUME PrefetchInv, Environment
  PROVE  QueueInv'
BY QueueUntouched
DEF PrefetchInv, Environment, ForgetFile, UserReads, Block_fetch_thread,
    Wakeup_fetch_thread, StartFinit, FinitStep, StopWorker, JoinWorker, queues,
    workers, callers

-----------------------------------------------------------------------------
(* Paths and answers.                                                      *)

\* A path that is in the table is not registered again.
LEMMA PathsKept ==
  ASSUME PrefetchInv, Next
  PROVE  PathInv'
<1> USE DEF PrefetchInv, PathInv, Pending, queues, workers, callers, others
<1>1. ASSUME NEW r \in Requests, Register(r) PROVE PathInv'
  BY <1>1, PrefetchAssumption DEF Register, TypeInv, TypeOK
<1>2. ASSUME NEW r \in Requests, PickWorker(r) \/ AppendItem(r) \/ AnswerCached(r) PROVE PathInv'
  <2>1. fft' = fft /\ fin' = fin
    BY <1>2 DEF PickWorker, AppendItem, AnswerCached
  <2>2. cpc' \in {[cpc EXCEPT ![r] = x] : x \in {"append", "waiting", "answered"}}
    BY <1>2 DEF PickWorker, AppendItem, AnswerCached
  <2>3. cpc'[r] \in Pending => cpc[r] \in Pending
    BY <1>2 DEF PickWorker, AppendItem, AnswerCached, TypeInv, TypeOK
  <2>4. \A q \in Requests : cpc'[q] \in Pending => cpc[q] \in Pending
    BY <2>2, <2>3 DEF TypeInv, TypeOK
  <2> QED BY <2>1, <2>4
<1>3. ASSUME NEW w \in Workers, FileIsCached(w) \/ CopyBlock(w) \/ ReadFails(w) \/ NothingToCopy(w)
      PROVE  PathInv'
  <2>1. fft' = fft /\ fin' = fin /\ cpc' \in {cpc, [cpc EXCEPT ![item[w]] = "answered"]}
    BY <1>3 DEF FileIsCached, CopyBlock, ReadFails, NothingToCopy, Answer
  <2> QED BY <2>1 DEF TypeInv, TypeOK
<1>4. ASSUME UNCHANGED <<fft, cpc, fin>> PROVE PathInv'
  BY <1>4
<1>5. ASSUME NEW r \in Requests, Cancel(r) PROVE PathInv'
  BY <1>4, <1>5 DEF Cancel
<1>6. ASSUME NEW w \in Workers,
             \/ TestExit(w) \/ LockQueue(w) \/ WakeUp(w) \/ TakeItem(w)
             \/ LookupFile(w) \/ RemoveOldFile(w) \/ Crash(w) \/ SpuriousWakeup(w)
      PROVE  PathInv'
  BY <1>4, <1>6
  DEF TestExit, LockQueue, WakeUp, TakeItem, LookupFile, RemoveOldFile, Crash,
      SpuriousWakeup
<1>7. CASE Environment
  <2>1. cpc' = cpc /\ (fin'.step = "no" => fin.step = "no" /\ fft' = fft)
    BY <1>7 DEF Environment, ForgetFile, UserReads, Block_fetch_thread,
       Wakeup_fetch_thread, StartFinit, FinitStep, StopWorker, JoinWorker, TypeInv,
       TypeOK
  <2> QED BY <2>1
<1> QED BY <1>1, <1>2, <1>3, <1>5, <1>6, <1>7
        DEF Next, CallerStep, WorkerStep, Environment

\* A step of the threads that says nothing of a request, and starts no copy but
\* of one that nothing was said of, keeps what the reports tell.
LEMMA ReportsKept ==
  ASSUME PrefetchInv, UNCHANGED <<report, copied, cpc, target, flags, item, pos>>,
         \A v \in Workers :
           \/ wpc'[v] = wpc[v]
           \/ /\ wpc[v] \notin {"copy", "crashed"}
              /\ wpc'[v] \in {"lookup", "compare", "dangling", "copy"} =>
                   wpc[v] \in {"lookup", "compare", "dangling"}
  PROVE  ReportInv' /\ ReportTellsCopied'
<1> USE DEF PrefetchInv
<1>1. ReportTellsCopied'
  BY DEF ReportTellsCopied
<1>2. \A r \in Requests : Untouched(r)' <=> Untouched(r)
  BY DEF Untouched
<1>3. \A r \in Requests : cpc'[r] \notin {"waiting", "answered"} => Untouched(r)'
  BY <1>2 DEF ReportInv
<1>4. ASSUME NEW v \in Workers
      PROVE  /\ \A r \in Waiting(v)' : Untouched(r)'
             /\ wpc'[v] \notin {"copy", "crashed"} => pos'[v] = 0
             /\ wpc'[v] \in {"lookup", "compare", "dangling"} =>
                  report'[item'[v]].nbytes = 0 /\ copied'[item'[v]] = {}
             /\ wpc'[v] = "copy" => /\ report'[item'[v]].nbytes = pos'[v]
                                    /\ copied'[item'[v]] = 0 .. (pos'[v] - 1)
                                    /\ pos'[v] = 0 \/ pos'[v] < FileBlocks[FileOf(v)']
  <2>1. \A r \in Waiting(v)' : Untouched(r)'
    BY <1>2 DEF Waiting, ReportInv
  <2>2. FileOf(v)' = FileOf(v)
    BY DEF FileOf
  <2>3. CASE wpc'[v] = wpc[v]
    BY <2>1, <2>2, <2>3 DEF ReportInv
  <2>4. CASE wpc'[v] # wpc[v]
    <3>1. wpc[v] \notin {"copy", "crashed"} /\ pos[v] = 0
      BY <2>4 DEF ReportInv
    <3>2. wpc'[v] \in {"lookup", "compare", "dangling", "copy"} =>
            report[item[v]].nbytes = 0 /\ copied[item[v]] = {}
      BY <2>4 DEF ReportInv
    <3>3. {} = 0 .. (0 - 1)
      OBVIOUS
    <3> QED BY <2>1, <3>1, <3>2, <3>3
  <2> QED BY <2>3, <2>4
<1>5. ReportInv'
  BY <1>3, <1>4 DEF ReportInv
<1> QED BY <1>1, <1>5

\* Callers say nothing of their requests.
LEMMA CallerReports ==
  ASSUME PrefetchInv, NEW r \in Requests, Register(r) \/ Cancel(r) \/ CallerStep(r)
  PROVE  ReportInv' /\ ReportTellsCopied'
<1> USE DEF PrefetchInv, queues, workers, callers, others
<1>1. CASE Register(r)
  BY <1>1 DEF Register, ReportInv, ReportTellsCopied, Untouched, Waiting, FileOf,
     TypeInv, TypeOK
<1>2. CASE Cancel(r)
  BY <1>2 DEF Cancel, ReportInv, ReportTellsCopied, Untouched, Waiting, FileOf, TypeInv,
     TypeOK
<1>3. CASE PickWorker(r)
  BY <1>3 DEF PickWorker, ReportInv, ReportTellsCopied, Untouched, Waiting, FileOf,
     TypeInv, TypeOK
<1>4. CASE AppendItem(r)
  <2>1. ReportTellsCopied'
    BY <1>4 DEF AppendItem, ReportTellsCopied, TypeInv, TypeOK
  <2>2. \A v \in Workers : \A q \in Waiting(v)' : q = r \/ q \in Waiting(v)
    BY <1>4 DEF AppendItem, Waiting, TypeInv, TypeOK
  <2>3. \A v \in Workers : wpc'[v] = wpc[v] \/ (wpc[v] = "wait" /\ wpc'[v] = "woken")
    BY <1>4 DEF AppendItem, Signal, TypeInv, TypeOK
  <2>4. Untouched(r) /\ UNCHANGED <<report, copied, item, pos>>
    BY <1>4 DEF AppendItem, ReportInv
  <2>5. \A q \in Requests : q # r => cpc'[q] = cpc[q]
    BY <1>4 DEF AppendItem, TypeInv, TypeOK
  <2>6. cpc'[r] = "waiting"
    BY <1>4 DEF AppendItem, TypeInv, TypeOK
  <2>7. ReportInv'
    BY <2>2, <2>3, <2>4, <2>5, <2>6 DEF ReportInv, Untouched, FileOf
  <2> QED BY <2>1, <2>7
<1>5. CASE AnswerCached(r)
  BY <1>5 DEF AnswerCached, ReportInv, ReportTellsCopied, Untouched, Waiting, FileOf,
     TypeInv, TypeOK
<1> QED BY <1>1, <1>2, <1>3, <1>4, <1>5 DEF CallerStep

\* An answer names the blocks that were copied, all of them with status 0 and no
\* cancellation, or nothing was copied and it names the whole file; it changes
\* nothing for other requests.
LEMMA AnsweredReports ==
  ASSUME PrefetchInv, NEW w \in Workers, item[w] # None, NEW status, NEW nbytes,
         Answer(w, status, nbytes), UNCHANGED <<target, flags>>,
         \A q \in Requests : q # item[w] => copied'[q] = copied[q],
         \/ /\ copied'[item[w]] = 0 .. (nbytes - 1)
            /\ status = "ok" /\ ~flags[item[w]] => nbytes = FileBlocks[FileOf(w)]
         \/ copied'[item[w]] = {} /\ status = "ok" /\ nbytes = FileBlocks[FileOf(w)]
  PROVE  ReportInv' /\ ReportTellsCopied'
<1> USE DEF PrefetchInv
<1>1. item[w] \in Requests /\ cpc[item[w]] = "waiting" /\ target[item[w]] = w
  BY DEF TypeInv, TypeOK, QueueInv
<1>2. \A v \in Workers : Waiting(v)' = Waiting(v) /\ item[w] \notin Waiting(v)
  BY <1>1, PrefetchAssumption DEF Answer, Waiting, TypeInv, TypeOK
<1>3. \A q \in Requests : q # item[w] => report'[q] = report[q] /\ cpc'[q] = cpc[q]
  BY <1>1 DEF Answer, TypeInv, TypeOK
<1>4. report'[item[w]] = [status |-> status, nbytes |-> nbytes] /\ cpc'[item[w]] = "answered"
  BY <1>1 DEF Answer, TypeInv, TypeOK
<1>5. ReportTellsCopied'
  BY <1>1, <1>3, <1>4 DEF ReportTellsCopied, FileOf
<1>6. \A v \in Workers : v # w => /\ wpc'[v] = wpc[v] /\ item'[v] = item[v] /\ pos'[v] = pos[v]
                                  /\ item[v] # item[w]
  BY <1>1 DEF Answer, TypeInv, TypeOK, QueueInv
<1>7. wpc'[w] = "test" /\ pos'[w] = 0
  BY DEF Answer, TypeInv, TypeOK
<1>8. \A v \in Workers : wpc[v] \in {"lookup", "compare", "dangling", "copy"} => item[v] \in Requests
  BY DEF TypeInv, TypeOK
<1>10. \A q \in Requests : q # item[w] => (Untouched(q)' <=> Untouched(q))
  BY <1>3 DEF Untouched
<1>11. \A q \in Requests : cpc'[q] \notin {"waiting", "answered"} => Untouched(q)'
  BY <1>3, <1>4, <1>10 DEF ReportInv
<1>12. \A v \in Workers : \A q \in Waiting(v)' : Untouched(q)'
  BY <1>2, <1>10 DEF ReportInv, Waiting
<1>13. ASSUME NEW v \in Workers, v # w
       PROVE  /\ wpc'[v] \notin {"copy", "crashed"} => pos'[v] = 0
              /\ wpc'[v] \in {"lookup", "compare", "dangling"} =>
                   report'[item'[v]].nbytes = 0 /\ copied'[item'[v]] = {}
              /\ wpc'[v] = "copy" => /\ report'[item'[v]].nbytes = pos'[v]
                                     /\ copied'[item'[v]] = 0 .. (pos'[v] - 1)
                                     /\ pos'[v] = 0 \/ pos'[v] < FileBlocks[FileOf(v)']
  <2>1. wpc'[v] = wpc[v] /\ item'[v] = item[v] /\ pos'[v] = pos[v] /\ FileOf(v)' = FileOf(v)
    BY <1>6, <1>13 DEF FileOf
  <2>2. wpc[v] \in {"lookup", "compare", "dangling", "copy"} =>
          report'[item[v]] = report[item[v]] /\ copied'[item[v]] = copied[item[v]]
    BY <1>3, <1>6, <1>8, <1>13
  <2> QED BY <2>1, <2>2 DEF ReportInv
<1>9. ReportInv'
  BY <1>7, <1>11, <1>12, <1>13 DEF ReportInv
<1> QED BY <1>5, <1>9

\* A worker's steps: nbytes follows the loop, which ends with the last block.
LEMMA WorkerReports ==
  ASSUME PrefetchInv, NEW w \in Workers, WorkerStep(w) \/ SpuriousWakeup(w)
  PROVE  ReportInv' /\ ReportTellsCopied'
<1> USE DEF PrefetchInv, queues, workers, callers, others
<1>1. CASE TestExit(w) \/ Crash(w) \/ SpuriousWakeup(w) \/ LookupFile(w)
  <2>1. \A v \in Workers : \/ wpc'[v] = wpc[v]
                           \/ /\ wpc[v] \notin {"copy", "crashed"}
                              /\ wpc'[v] \in {"lookup", "compare", "dangling", "copy"} =>
                                   wpc[v] \in {"lookup", "compare", "dangling"}
    BY <1>1 DEF TestExit, Crash, SpuriousWakeup, LookupFile, TypeInv, TypeOK
  <2>2. UNCHANGED <<report, copied, cpc, target, flags, item, pos>>
    BY <1>1 DEF TestExit, Crash, SpuriousWakeup, LookupFile
  <2> QED BY <2>1, <2>2, ReportsKept
<1>2. CASE LockQueue(w) \/ WakeUp(w)
  <2>1. \A v \in Workers : \/ wpc'[v] = wpc[v]
                           \/ /\ wpc[v] \notin {"copy", "crashed"}
                              /\ wpc'[v] \in {"lookup", "compare", "dangling", "copy"} =>
                                   wpc[v] \in {"lookup", "compare", "dangling"}
    BY <1>2 DEF LockQueue, WakeUp, WaitOrTake, TypeInv, TypeOK
  <2>2. UNCHANGED <<report, copied, cpc, target, flags, item, pos>>
    BY <1>2 DEF LockQueue, WakeUp
  <2> QED BY <2>1, <2>2, ReportsKept
<1>4. CASE TakeItem(w)
  <2>1. CASE head[w] = None
    BY <1>4, <2>1
    DEF TakeItem, ReportInv, ReportTellsCopied, Untouched, Waiting, FileOf, TypeInv,
        TypeOK
  <2>2. CASE head[w] # None
    <3>1. head[w] \in Waiting(w)
      BY <2>2, HeadWaits
    <3>2. \A v \in Workers : Waiting(v)' \subseteq Waiting(v)
      <4>1. item[w] = None
        BY <1>4 DEF TakeItem, TypeInv, TypeOK
      <4> QED BY <1>4, <2>2, <4>1, PrefetchAssumption
              DEF TakeItem, Waiting, TypeInv, TypeOK
    <3>3. item'[w] = head[w] /\ wpc'[w] = "lookup" /\ pos[w] = 0
      BY <1>4, <2>2 DEF TakeItem, ReportInv, TypeInv, TypeOK
    <3>4. \A v \in Workers : v # w => item'[v] = item[v] /\ wpc'[v] = wpc[v]
      BY <1>4, <2>2 DEF TakeItem, TypeInv, TypeOK
    <3>5. UNCHANGED <<report, copied, cpc, pos, flags>>
      BY <1>4 DEF TakeItem
    <3> QED BY <3>1, <3>2, <3>3, <3>4, <3>5
            DEF ReportInv, ReportTellsCopied, Untouched, FileOf
  <2> QED BY <2>1, <2>2
<1>5. CASE FileIsCached(w)
  <2>1. copied' = copied /\ copied[item[w]] = {} /\ item[w] # None
    BY <1>5 DEF FileIsCached, ReportInv, TypeInv, TypeOK
  <2> QED BY <1>5, <2>1, AnsweredReports DEF FileIsCached
<1>6. CASE RemoveOldFile(w)
  <2>1. item[w] \in Requests /\ cpc[item[w]] = "waiting" /\ target[item[w]] = w
    BY <1>6 DEF RemoveOldFile, TypeInv, TypeOK, QueueInv
  <2>2. \A q \in Requests : q # item[w] => report'[q] = report[q]
    BY <1>6 DEF RemoveOldFile, TypeInv, TypeOK
  <2>3. report'[item[w]].nbytes = 0 /\ pos[w] = 0 /\ wpc'[w] = "copy"
        /\ copied[item[w]] = 0 .. (pos[w] - 1)
    <3>1. wpc[w] \in {"compare", "dangling"} /\ pos[w] = 0 /\ copied[item[w]] = {}
      BY <1>6 DEF RemoveOldFile, ReportInv
    <3>2. report'[item[w]].nbytes = 0 /\ wpc'[w] = "copy"
      BY <1>6, <2>1 DEF RemoveOldFile, TypeInv, TypeOK
    <3> QED BY <3>1, <3>2
  <2>4. \A v \in Workers : v # w => wpc'[v] = wpc[v] /\ (item[v] # None => item[v] # item[w])
    BY <1>6, <2>1 DEF RemoveOldFile, TypeInv, TypeOK, QueueInv
  <2>5. UNCHANGED <<item, pos, cpc, target, flags, copied>>
    BY <1>6 DEF RemoveOldFile
  <2>6. \A v \in Workers : wpc[v] \in {"lookup", "compare", "dangling", "copy"} => item[v] \in Requests
    BY DEF TypeInv, TypeOK
  <2>7. \A v \in Workers : Waiting(v)' = Waiting(v) /\ item[w] \notin Waiting(v)
    BY <2>1, <2>5 DEF Waiting
  <2>8. ReportTellsCopied'
    BY <2>1, <2>2, <2>5 DEF ReportTellsCopied
  <2>9. ReportInv'
    <3>1. \A r \in Requests : cpc'[r] \notin {"waiting", "answered"} => Untouched(r)'
      BY <2>1, <2>2, <2>5 DEF ReportInv, Untouched
    <3>2. \A v \in Workers : \A r \in Waiting(v)' : Untouched(r)'
      <4>1. \A r \in Requests : r # item[w] => (Untouched(r)' <=> Untouched(r))
        BY <2>2, <2>5 DEF Untouched
      <4> QED BY <2>7, <4>1 DEF ReportInv, Waiting
    <3>3. \A v \in Workers : v # w => item[v] # None \/ wpc[v] \notin {"lookup", "compare", "dangling", "copy"}
      BY DEF TypeInv, TypeOK
    <3>4. ASSUME NEW v \in Workers
          PROVE  /\ wpc'[v] \notin {"copy", "crashed"} => pos'[v] = 0
                 /\ wpc'[v] \in {"lookup", "compare", "dangling"} =>
                      report'[item'[v]].nbytes = 0 /\ copied'[item'[v]] = {}
                 /\ wpc'[v] = "copy" => /\ report'[item'[v]].nbytes = pos'[v]
                                        /\ copied'[item'[v]] = 0 .. (pos'[v] - 1)
                                        /\ pos'[v] = 0 \/ pos'[v] < FileBlocks[FileOf(v)']
      <4>1. FileOf(v)' = FileOf(v)
        BY <2>5 DEF FileOf
      <4>2. CASE v = w
        BY <2>3, <2>5, <4>2
      <4>3. CASE v # w
        <5>1. wpc[v] \in {"lookup", "compare", "dangling", "copy"} =>
                report'[item[v]] = report[item[v]]
          BY <2>2, <2>4, <2>6, <3>3, <4>3
        <5> QED BY <2>4, <2>5, <4>1, <4>3, <5>1 DEF ReportInv
      <4> QED BY <4>2, <4>3
    <3> QED BY <3>1, <3>2, <3>4 DEF ReportInv
  <2> QED BY <2>8, <2>9
<1>7. CASE CopyBlock(w)
  <2>1. item[w] \in Requests /\ item[w] # None /\ cpc[item[w]] = "waiting" /\ target[item[w]] = w
        /\ wpc[w] = "copy" /\ pos[w] \in Nat /\ FileBlocks[FileOf(w)] \in Nat
        /\ pos[w] < FileBlocks[FileOf(w)]
    <3>1. wpc[w] = "copy" /\ pos[w] < FileBlocks[FileOf(w)]
      BY <1>7 DEF CopyBlock
    <3>2. item[w] \in Requests /\ item[w] # None /\ pos[w] \in Nat
      BY <3>1 DEF TypeInv, TypeOK
    <3>3. cpc[item[w]] = "waiting" /\ target[item[w]] = w
      BY <3>2 DEF QueueInv
    <3>4. FileBlocks[FileOf(w)] \in Nat
      BY <3>2, PrefetchAssumption DEF FileOf
    <3> QED BY <3>1, <3>2, <3>3, <3>4
  <2>4. /\ copied'[item[w]] = 0 .. pos[w]
        /\ \A q \in Requests : q # item[w] => copied'[q] = copied[q]
    <3>1. copied' = [copied EXCEPT ![item[w]] = @ \cup {pos[w]}] /\ DOMAIN copied = Requests
      BY <1>7 DEF CopyBlock, TypeInv, TypeOK
    <3>2. copied[item[w]] = 0 .. (pos[w] - 1)
      BY <2>1 DEF ReportInv
    <3>3. (0 .. (pos[w] - 1)) \cup {pos[w]} = 0 .. pos[w]
      BY <2>1
    <3> QED BY <2>1, <3>1, <3>2, <3>3
  <2>2. CASE LastBlock(w)
    <3>1. pos[w] + 1 = FileBlocks[FileOf(w)]
      BY <2>1, <2>2 DEF LastBlock
    <3>2. copied'[item[w]] = 0 .. ((pos[w] + 1) - 1)
      BY <2>1, <2>4
    <3> QED BY <1>7, <2>1, <2>2, <2>4, <3>1, <3>2, AnsweredReports DEF CopyBlock
  <2>3. CASE ~LastBlock(w)
    <3>1. pos[w] + 1 < FileBlocks[FileOf(w)]
      BY <2>1, <2>3 DEF LastBlock
    <3>2. \A q \in Requests : q # item[w] => report'[q] = report[q]
      BY <1>7, <2>3 DEF CopyBlock, TypeInv, TypeOK
    <3>3. report'[item[w]].nbytes = pos[w] + 1 /\ pos'[w] = pos[w] + 1
      BY <1>7, <2>1, <2>3 DEF CopyBlock, TypeInv, TypeOK
    <3>4. \A v \in Workers : v # w => pos'[v] = pos[v] /\ (item[v] # None => item[v] # item[w])
      BY <1>7, <2>1, <2>3 DEF CopyBlock, TypeInv, TypeOK, QueueInv
    <3>5. UNCHANGED <<item, wpc, cpc, target, flags>>
      BY <1>7, <2>3 DEF CopyBlock
    <3>6. \A v \in Workers : wpc[v] \in {"lookup", "compare", "dangling", "copy"} => item[v] \in Requests /\ item[v] # None
      BY PrefetchAssumption DEF TypeInv, TypeOK
    <3>7. \A v \in Workers : Waiting(v)' = Waiting(v) /\ item[w] \notin Waiting(v)
      BY <2>1, <3>5 DEF Waiting
    <3>8. copied'[item[w]] = 0 .. (pos'[w] - 1)
      BY <2>1, <2>4, <3>3
    <3>9. \A q \in Requests : q # item[w] => (Untouched(q)' <=> Untouched(q))
      BY <2>4, <3>2 DEF Untouched
    <3>10. ReportTellsCopied'
      BY <2>1, <2>4, <3>2, <3>5 DEF ReportTellsCopied
    <3>11. \A q \in Requests : cpc'[q] \notin {"waiting", "answered"} => Untouched(q)'
      BY <2>1, <3>5, <3>9 DEF ReportInv
    <3>12. \A v \in Workers : \A q \in Waiting(v)' : Untouched(q)'
      BY <3>7, <3>9 DEF ReportInv, Waiting
    <3>13. ASSUME NEW v \in Workers
           PROVE  /\ wpc'[v] \notin {"copy", "crashed"} => pos'[v] = 0
                  /\ wpc'[v] \in {"lookup", "compare", "dangling"} =>
                       report'[item'[v]].nbytes = 0 /\ copied'[item'[v]] = {}
                  /\ wpc'[v] = "copy" => /\ report'[item'[v]].nbytes = pos'[v]
                                         /\ copied'[item'[v]] = 0 .. (pos'[v] - 1)
                                         /\ pos'[v] = 0 \/ pos'[v] < FileBlocks[FileOf(v)']
      <4>1. FileOf(v)' = FileOf(v)
        BY <3>5 DEF FileOf
      <4>2. CASE v = w
        BY <2>1, <3>1, <3>3, <3>5, <3>8, <4>1, <4>2
      <4>3. CASE v # w
        <5>1. wpc[v] \in {"lookup", "compare", "dangling", "copy"} =>
                report'[item[v]] = report[item[v]] /\ copied'[item[v]] = copied[item[v]]
          BY <2>4, <3>2, <3>4, <3>6, <4>3
        <5> QED BY <3>4, <3>5, <4>1, <4>3, <5>1 DEF ReportInv
      <4> QED BY <4>2, <4>3
    <3> QED BY <3>10, <3>11, <3>12, <3>13 DEF ReportInv
  <2> QED BY <2>2, <2>3
<1>8. CASE ReadFails(w)
  <2>1. copied' = copied /\ copied[item[w]] = 0 .. (report[item[w]].nbytes - 1) /\ item[w] # None
    BY <1>8 DEF ReadFails, ReportInv, TypeInv, TypeOK
  <2> QED BY <1>8, <2>1, AnsweredReports DEF ReadFails
<1>9. CASE NothingToCopy(w)
  <2>1. ~flags[item[w]] => report[item[w]].nbytes = FileBlocks[FileOf(w)]
    BY <1>9, PrefetchAssumption DEF NothingToCopy, ReportInv, TypeInv, TypeOK, FileOf
  <2>2. copied' = copied /\ copied[item[w]] = 0 .. (report[item[w]].nbytes - 1) /\ item[w] # None
    BY <1>9 DEF NothingToCopy, ReportInv, TypeInv, TypeOK
  <2> QED BY <1>9, <2>1, <2>2, AnsweredReports DEF NothingToCopy
<1> QED BY <1>1, <1>2, <1>4, <1>5, <1>6, <1>7, <1>8, <1>9 DEF WorkerStep

\* Other steps may at most wake a worker, or leave it with a freed entry.
LEMMA EnvironmentReports ==
  ASSUME PrefetchInv, Environment
  PROVE  ReportInv' /\ ReportTellsCopied'
<1>1. UNCHANGED <<item, pos, cpc, target, flags, report, copied>>
  BY DEF Environment, ForgetFile, UserReads, Block_fetch_thread, Wakeup_fetch_thread,
     StartFinit, FinitStep, StopWorker, JoinWorker, queues, workers, callers
<1>2. \A v \in Workers : \/ wpc'[v] = wpc[v]
                         \/ wpc[v] = "wait" /\ wpc'[v] = "woken"
                         \/ wpc[v] = "compare" /\ wpc'[v] = "dangling"
  BY DEF PrefetchInv, TypeInv, TypeOK, Signal, Environment, ForgetFile, UserReads,
     Block_fetch_thread, Wakeup_fetch_thread, StartFinit, FinitStep, StopWorker,
     JoinWorker, queues, workers, callers
<1> QED BY <1>1, <1>2, ReportsKept

-----------------------------------------------------------------------------
(* The theorems.                                                           *)

\* The invariant holds in every reachable state.
LEMMA PrefetchInvAlways == Spec => []PrefetchInv
<1>1. ASSUME PrefetchInv, Next PROVE PrefetchInv'
  <2>1. CASE \E r \in Requests : Register(r) \/ Cancel(r) \/ CallerStep(r)
    BY <1>1, <2>1, CallerTypes, CallerQueues, PathsKept, CallerReports DEF PrefetchInv
  <2>2. CASE \E w \in Workers : WorkerStep(w) \/ SpuriousWakeup(w)
    BY <1>1, <2>2, WorkerTypes, WorkerQueues, PathsKept, WorkerReports DEF PrefetchInv
  <2>3. CASE Environment
    BY <1>1, <2>3, EnvironmentTypes, EnvironmentQueues, PathsKept,
       EnvironmentReports DEF PrefetchInv
  <2> QED BY <1>1, <2>1, <2>2, <2>3 DEF Next, Environment
<1>2. ASSUME PrefetchInv, UNCHANGED vars PROVE PrefetchInv'
  <2>1. QueueInv'
    BY <1>2, QueueUntouched DEF vars, queues, workers, callers, PrefetchInv
  <2> QED BY <1>2, <2>1
          DEF vars, queues, workers, callers, others, PrefetchInv, TypeInv, TypeOK,
              Waiting, PathInv, Pending, ReportInv, Untouched, FileOf, ReportTellsCopied
<1>3. PrefetchInv /\ [Next]_vars => PrefetchInv'
  BY <1>1, <1>2
<1> QED BY Start, <1>3, PTL DEF Spec

\* Every variable of the prefetch threads has its type: a worker past the lookup
\* has an item, and never more blocks than the file (prefetch.c:118 to 214,
\* 261 to 365).
THEOREM PrefetchTypeCorrect == Spec => []TypeOK
<1>1. PrefetchInv => TypeOK
  BY DEF PrefetchInv, TypeInv
<1> QED BY <1>1, PrefetchInvAlways, PTL

\* No file is copied by two workers at once, however many requests name it and
\* whatever the shutdown interrupts (prefetch.c:266 to 306): no two prefetches
\* mix the order of its blocks, though a user's reads still may.
THEOREM OneWorkerPerFileAlways == Spec => []OneWorkerPerFile
<1>1. PrefetchInv => OneWorkerPerFile
  BY DEF PrefetchInv, TypeInv, TypeOK, QueueInv, PathInv, Pending, OneWorkerPerFile,
     FileOf
<1> QED BY <1>1, PrefetchInvAlways, PTL

\* An answered request whose file was not found in the cache has had exactly
\* the nbytes blocks of its report read and given to the cache, and with status 0
\* and no cancellation those are all; the answer of line 126 alone says so of a
\* file of which it has read nothing (ReadCMHToCache, prefetch.c:118 to 214).
THEOREM ReportTellsCopiedAlways == Spec => []ReportTellsCopied
<1>1. PrefetchInv => ReportTellsCopied
  BY DEF PrefetchInv
<1> QED BY <1>1, PrefetchInvAlways, PTL

\* While a queue is not empty its tail is the node of a request that waits at
\* this worker and that no worker has taken.
TailWaits ==
  \A w \in Workers :
    head[w] # None =>
      /\ tail[w] \in Requests /\ cpc[tail[w]] = "waiting" /\ target[tail[w]] = w
      /\ next[tail[w]] = None
      /\ \A v \in Workers : item[v] # tail[w]

\* The node to which QueueCMHToRSC_fsize links the next one waits in the same
\* queue in every reachable state: it was not freed (prefetch.c:289 to 300).
THEOREM TailWaitsAlways == Spec => []TailWaits
<1>1. PrefetchInv => TailWaits
  BY PrefetchAssumption DEF PrefetchInv, QueueInv, Waiting, TailWaits
<1> QED BY <1>1, PrefetchInvAlways, PTL

\* What the properties find by following next from a worker's head is the
\* requests that wait there.
LEMMA QueuedIsWaiting ==
  ASSUME PrefetchInv, NEW w \in Workers
  PROVE  Queued(w) = Waiting(w)
<1> DEFINE m == Cardinality(Requests)
           g == CHOOSE f : Reaching(None, head[w], next, m, f)
<1>1. Queued(w) = g[m]
  BY Zenon DEF Queued, Reaching
<1>2. \E n, c : Chained(None, Waiting(w), head[w], next, n, c)
  BY DEF PrefetchInv, QueueInv
<1>3. Waiting(w) \subseteq Requests
  BY DEF Waiting
<1>4. g[m] = Waiting(w)
  BY <1>2, <1>3, FiniteRequests, WalkFinds
<1> QED BY <1>1, <1>4

\* Every request that waits for its answer is in the hand of one worker or in
\* the queue of one, and an answered one is in neither, when its caller frees
\* it: no interleaving of QueueCMHToRSC_fsize with the workers loses a node or
\* links a freed one (prefetch.c:284 to 300, 346 to 361).
THEOREM NoRequestLostAlways == Spec => []NoRequestLost
<1>1. ASSUME PrefetchInv, NEW r \in Requests
      PROVE  Cardinality({w \in Workers : r \in Queued(w)})
               + Cardinality({w \in Workers : item[w] = r})
               = IF cpc[r] = "waiting" THEN 1 ELSE 0
  <2> DEFINE queued == {w \in Workers : r \in Queued(w)}
             taken == {w \in Workers : item[w] = r}
  <2>1. \A w \in Workers : Queued(w) = Waiting(w)
    BY <1>1, QueuedIsWaiting
  <2>2. /\ \A w \in Workers : item[w] # None => cpc[item[w]] = "waiting" /\ target[item[w]] = w
        /\ target[r] \in Workers /\ r # None
    BY <1>1, PrefetchAssumption DEF PrefetchInv, QueueInv, TypeInv, TypeOK
  <2>3. Cardinality({}) = 0
    BY FS_EmptySet
  <2>4. Cardinality({target[r]}) = 1
    BY FS_Singleton
  <2>5. CASE cpc[r] # "waiting"
    <3>1. queued = {} /\ taken = {}
      BY <2>1, <2>2, <2>5 DEF Waiting
    <3> HIDE DEF queued, taken
    <3>2. Cardinality(queued) + Cardinality(taken) = IF cpc[r] = "waiting" THEN 1 ELSE 0
      BY <2>3, <2>5, <3>1
    <3> QED BY <3>2 DEF queued, taken
  <2>6. CASE cpc[r] = "waiting" /\ item[target[r]] = r
    <3>1. queued = {} /\ taken = {target[r]}
      BY <2>1, <2>2, <2>6 DEF Waiting
    <3> HIDE DEF queued, taken
    <3>2. Cardinality(queued) + Cardinality(taken) = IF cpc[r] = "waiting" THEN 1 ELSE 0
      BY <2>3, <2>4, <2>6, <3>1
    <3> QED BY <3>2 DEF queued, taken
  <2>7. CASE cpc[r] = "waiting" /\ item[target[r]] # r
    <3>1. queued = {target[r]} /\ taken = {}
      BY <2>1, <2>2, <2>7 DEF Waiting
    <3> HIDE DEF queued, taken
    <3>2. Cardinality(queued) + Cardinality(taken) = IF cpc[r] = "waiting" THEN 1 ELSE 0
      BY <2>3, <2>4, <2>7, <3>1
    <3> QED BY <3>2 DEF queued, taken
  <2> QED BY <2>5, <2>6, <2>7
<1>2. PrefetchInv => NoRequestLost
  BY <1>1 DEF NoRequestLost
<1> QED BY <1>2, PrefetchInvAlways, PTL

\* fw->tail ends the queue of its worker whenever the queue is not empty, so the
\* node of the next QueueCMHToRSC_fsize is linked behind the others and behind
\* none that was freed (prefetch.c:289 to 298).
THEOREM TailEndsQueueAlways == Spec => []TailEndsQueue
<1>1. PrefetchInv => TailEndsQueue
  BY QueuedIsWaiting DEF PrefetchInv, QueueInv, TailEndsQueue
<1> QED BY <1>1, PrefetchInvAlways, PTL

=============================================================================
