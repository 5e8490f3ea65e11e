------------------------------ MODULE UploadPool ------------------------------
(***************************************************************************)
(* useObjectUpload: the files of one batch are uploaded by workers that    *)
(* take the next file from a shared cursor, at most MaxConcurrent at once. *)
(* A batch goes on when the page that started it is left.                  *)
(***************************************************************************)
EXTENDS Integers, FiniteSets

CONSTANTS
  MaxFiles,        \* the largest batch (a bound on the user's selection)
  MaxConcurrent    \* MAX_CONCURRENT

ASSUME PoolAssumption ==
  /\ MaxFiles \in Nat \ {0}
  /\ MaxConcurrent \in Nat \ {0}

VARIABLES
  running,   \* running.current: a batch is in progress
  total,     \* files.length
  next,      \* the cursor: how many files were taken
  busy,      \* the files whose upload is in flight
  done,      \* how many uploads succeeded
  failed,    \* how many uploads failed
  sent       \* how often each file's upload was called (kept for the properties)

poolVars == <<running, total, next, busy, done, failed, sent>>

PoolInit ==
  /\ running = FALSE
  /\ total = 0 /\ next = 0 /\ done = 0 /\ failed = 0
  /\ busy = {}
  /\ sent = [f \in 1..MaxFiles |-> 0]

Smaller(a, b) == IF a <= b THEN a ELSE b

\* How many workers a batch of n files gets.
Workers(n) == Smaller(MaxConcurrent, n)

\* start(files): every worker takes a file before any upload is answered.
Start(n) ==
  /\ ~running
  /\ n \in 1..MaxFiles
  /\ running' = TRUE
  /\ total' = n
  /\ next' = Workers(n)
  /\ busy' = 1..Workers(n)
  /\ done' = 0 /\ failed' = 0
  /\ sent' = [f \in 1..MaxFiles |-> IF f <= Workers(n) THEN 1 ELSE 0]

\* Variant for the checks: the cursor is moved after the upload only.
TakeUnmoved(f) ==
  /\ UNCHANGED next
  /\ IF next < total
     THEN /\ busy' = (busy \ {f}) \cup {next + 1}
          /\ sent' = [sent EXCEPT ![next + 1] = @ + 1]
     ELSE busy' = busy \ {f} /\ UNCHANGED sent

\* The worker that uploaded f goes on: it takes the file at the cursor, or
\* returns when none is left.
TakeNext(f) ==
  IF next < total
  THEN /\ next' = next + 1
       /\ busy' = (busy \ {f}) \cup {next + 1}
       /\ sent' = [sent EXCEPT ![next + 1] = @ + 1]
  ELSE /\ busy' = busy \ {f}
       /\ UNCHANGED <<next, sent>>

\* The upload of f is answered; a failure does not stop its worker.
Uploaded(f) ==
  /\ f \in busy
  /\ done' = done + 1
  /\ TakeNext(f)
  /\ UNCHANGED <<running, total, failed>>

UploadFailed(f) ==
  /\ f \in busy
  /\ failed' = failed + 1
  /\ TakeNext(f)
  /\ UNCHANGED <<running, total, done>>

\* All workers have returned: the outcome is shown and another batch may start.
Finish ==
  /\ running
  /\ busy = {}
  /\ running' = FALSE
  /\ UNCHANGED <<total, next, busy, done, failed, sent>>

PoolNext ==
  \/ \E n \in 1..MaxFiles : Start(n)
  \/ \E f \in busy : Uploaded(f) \/ UploadFailed(f)
  \/ Finish

PoolSpec == PoolInit /\ [][PoolNext]_poolVars
-----------------------------------------------------------------------------
PoolTypeOK ==
  /\ running \in BOOLEAN
  /\ total \in 0..MaxFiles /\ next \in 0..total
  /\ busy \subseteq 1..next
  /\ done \in Nat /\ failed \in Nat
  /\ sent \in [1..MaxFiles -> Nat]

\* Every file is uploaded once and only once: what the cursor passed was sent
\* once, is in flight or counted, and nothing beyond it was sent; a batch that is
\* over has sent every one of its files, the failed ones included.
EachFileOnce ==
  /\ \A f \in 1..MaxFiles : sent[f] = IF f <= next THEN 1 ELSE 0
  /\ done + failed + Cardinality(busy) = next
  /\ ~running => next = total /\ busy = {}

\* At most MaxConcurrent uploads of a batch are in flight, and no worker idles
\* while files wait.
BoundedPool ==
  /\ Cardinality(busy) <= MaxConcurrent
  /\ next < total => Cardinality(busy) = MaxConcurrent

\* Both: the pool of one batch never loses a file, sends one twice, or grows.
PoolIsSound == EachFileOnce /\ BoundedPool
=============================================================================
