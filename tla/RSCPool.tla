------------------------------ MODULE RSCPool -------------------------------
(***************************************************************************)
(* What the cache promises about its blocks, whatever lists and headers it *)
(* keeps them in: a block is free, or held by the one Insert in progress,  *)
(* or a block of one file, or a block of a file that was removed and has   *)
(* not been returned yet.  A block changes file only by way of the free    *)
(* blocks, and the blocks of a removed file all become free again.         *)
(***************************************************************************)
EXTENDS FiniteSets

CONSTANTS Blocks, Paths

VARIABLES free, held, files, dying

vars == <<free, held, files, dying>>

Init ==
  /\ free = Blocks
  /\ held = {}
  /\ files = [p \in Paths |-> {}]
  /\ dying = {}

\* An Insert allocates a block, and then links it to a file.
Take(b) ==
  /\ b \in free /\ held = {}
  /\ free' = free \ {b} /\ held' = {b}
  /\ UNCHANGED <<files, dying>>

Give(p) ==
  /\ held # {}
  /\ files' = [files EXCEPT ![p] = @ \cup held]
  /\ held' = {}
  /\ UNCHANGED <<free, dying>>

\* A file is removed, by a call or by an eviction, which never takes place
\* while an earlier removal is unfinished.
Drop(p) ==
  /\ dying = {}
  /\ dying' = files[p]
  /\ files' = [files EXCEPT ![p] = {}]
  /\ UNCHANGED <<free, held>>

Release(b) ==
  /\ b \in dying
  /\ dying' = dying \ {b} /\ free' = free \cup {b}
  /\ UNCHANGED <<held, files>>

\* A truncation gives up one block of a file.
Trim(p, b) ==
  /\ b \in files[p]
  /\ files' = [files EXCEPT ![p] = @ \ {b}] /\ free' = free \cup {b}
  /\ UNCHANGED <<held, dying>>

Next ==
  \/ \E b \in Blocks : Take(b) \/ Release(b)
  \/ \E p \in Paths : Give(p) \/ Drop(p)
  \/ \E p \in Paths, b \in Blocks : Trim(p, b)

Moves == Init /\ [][Next]_vars

\* The blocks of a removed file come back.
Spec == Moves /\ WF_vars(\E b \in Blocks : Release(b))

=============================================================================
