------------------------------- MODULE SpiLayer -------------------------------
(***************************************************************************)
(* w5500_spi.h: the custom SPI layer under the IDF driver of the W5500.    *)
(* Driver tasks (receive task, transmitters, link poll) read and write the *)
(* chip under one mutex.  A read of the socket's receive buffer is folded  *)
(* once into the 16 kB buffer, and one that fails is tried twice more: at  *)
(* the offset the driver gave, then at that offset masked.  Reads into an  *)
(* unaligned destination go through the one static bounce buffer.          *)
(*                                                                         *)
(* The data of a transaction is named by the place it starts at: a cell of *)
(* the receive buffer, whose offsets the chip masks, or a register.  The   *)
(* driver's 16 bit read pointer runs over four times the buffer.           *)
(***************************************************************************)
EXTENDS Integers

CONSTANTS
  Tasks,      \* driver tasks
  NoTask,     \* nobody: the mutex is free
  Size,       \* kW5500RxBufferSize
  Offsets,    \* the offsets (cmd) the driver passes
  MaxCalls    \* bound on the calls of the driver

ASSUME SpiAssumption ==
  /\ NoTask \notin Tasks
  /\ Size \in Nat \ {0}
  /\ Offsets \subseteq 0..(4 * Size - 1)
  /\ MaxCalls \in Nat

\* What the driver asks for: the block (receive buffer or registers), the offset,
\* whether the destination needs the bounce buffer.  A write goes out of its own
\* buffer, to the send buffer or a register.
Request ==
  [what : {"read"}, rx : BOOLEAN, cmd : Offsets, bounce : BOOLEAN]
    \cup [what : {"write"}, rx : {FALSE}, cmd : Offsets, bounce : {FALSE}]

NoRequest == [what |-> "write", rx |-> FALSE, cmd |-> 0, bounce |-> FALSE]

VARIABLES
  lock,       \* the task holding the mutex
  stage,      \* where each task stands
  req,        \* what it asks for
  outcome,    \* what its last call returned
  data,       \* the place its destination was filled from, -1 for nothing yet
  gBounce,    \* the place the bounce buffer was filled from
  splitReads, failures, savedByRetry, savedByFold, lost, bounced,  \* the counters
  plain,      \* history: failed writes and register reads
  calls       \* history: calls made

counters == <<splitReads, failures, savedByRetry, savedByFold, lost, bounced>>
vars == <<lock, stage, req, outcome, data, gBounce, counters, plain, calls>>

Attempts == {"first", "retry", "fold"}
\* A transaction read into the bounce buffer, still to be copied out.
CopyOf == [first |-> "copy_first", retry |-> "copy_retry", fold |-> "copy_fold"]
Copies == {"copy_first", "copy_retry", "copy_fold"}

Init ==
  /\ lock = NoTask
  /\ stage = [t \in Tasks |-> "idle"]
  /\ req = [t \in Tasks |-> NoRequest]
  /\ outcome = [t \in Tasks |-> "none"]
  /\ data = [t \in Tasks |-> -1]
  /\ gBounce = -1
  /\ splitReads = 0 /\ failures = 0 /\ savedByRetry = 0 /\ savedByFold = 0
  /\ lost = 0 /\ bounced = 0 /\ plain = 0
  /\ calls = 0

\* The driver calls w5500SpiRead() or w5500SpiWrite().
Enter(t) ==
  /\ stage[t] = "idle"
  /\ calls < MaxCalls
  /\ calls' = calls + 1
  /\ \E r \in Request : req' = [req EXCEPT ![t] = r]
  /\ stage' = [stage EXCEPT ![t] = "locking"]
  /\ outcome' = [outcome EXCEPT ![t] = "none"]
  /\ data' = [data EXCEPT ![t] = -1]
  /\ UNCHANGED <<lock, gBounce, counters, plain>>

\* xSemaphoreTake() gives up after 500 ms: only while another task holds the mutex.
LockTimeout(t) ==
  /\ stage[t] = "locking"
  /\ lock # NoTask
  /\ stage' = [stage EXCEPT ![t] = "idle"]
  /\ outcome' = [outcome EXCEPT ![t] = "timeout"]
  /\ UNCHANGED <<lock, req, data, gBounce, counters, plain, calls>>

\* MUTANT: a mutex nobody waits for.
LockFree(t) == stage[t] = "locking"

\* The mutex can be taken.
LockAvailable(t) == stage[t] = "locking" /\ lock = NoTask

\* The first attempt is at an offset at or past the end: it will be folded.
Folded(t) == req[t].rx /\ req[t].cmd >= Size

Lock(t) ==
  /\ LockAvailable(t)
  /\ lock' = t
  /\ stage' = [stage EXCEPT ![t] = "first"]
  /\ splitReads' = IF Folded(t) THEN splitReads + 1 ELSE splitReads
  /\ UNCHANGED <<req, outcome, data, gBounce, failures, savedByRetry, savedByFold, lost,
                 bounced, plain, calls>>

\* MUTANT: the end of the buffer is taken off every offset.
OffsetAlwaysFolded(t, s) ==
  IF s = "fold" THEN req[t].cmd % Size
  ELSE IF s = "first" THEN req[t].cmd - Size ELSE req[t].cmd

\* The offset an attempt puts on the wire.  The retry repeats the driver's offset, not
\* the folded one that failed.
Offset(t, s) ==
  IF s = "fold" THEN req[t].cmd % Size
  ELSE IF s = "first" /\ Folded(t) THEN req[t].cmd - Size ELSE req[t].cmd

\* The chip masks the offsets of the receive buffer.
Cell(t, offset) == IF req[t].rx THEN offset % Size ELSE offset

\* The call is over: counted by the attempt that went through, mutex given back.
Succeed(t, s) ==
  /\ savedByRetry' = IF s = "retry" THEN savedByRetry + 1 ELSE savedByRetry
  /\ savedByFold' = IF s = "fold" THEN savedByFold + 1 ELSE savedByFold
  /\ stage' = [stage EXCEPT ![t] = "idle"]
  /\ outcome' = [outcome EXCEPT ![t] = "ok"]
  /\ lock' = NoTask

\* spi_device_polling_transmit() returns ESP_OK.
TransmitOK(t) ==
  LET s == stage[t] IN
  /\ s \in Attempts
  /\ IF req[t].bounce
     THEN /\ gBounce' = Cell(t, Offset(t, s))
          /\ stage' = [stage EXCEPT ![t] = CopyOf[s]]
          /\ UNCHANGED <<lock, outcome, data, savedByRetry, savedByFold>>
     ELSE /\ data' = [data EXCEPT ![t] = Cell(t, Offset(t, s))]
          /\ Succeed(t, s)
          /\ UNCHANGED gBounce
  /\ UNCHANGED <<req, splitReads, failures, lost, bounced, plain, calls>>

\* The bounce buffer is copied to the destination.
CopyOut(t) ==
  /\ stage[t] \in Copies
  /\ data' = [data EXCEPT ![t] = gBounce]
  /\ bounced' = bounced + 1
  /\ \E s \in Attempts : stage[t] = CopyOf[s] /\ Succeed(t, s)
  /\ UNCHANGED <<req, gBounce, splitReads, failures, lost, plain, calls>>

\* The call is over and failed.
Fail(t) ==
  /\ stage' = [stage EXCEPT ![t] = "idle"]
  /\ outcome' = [outcome EXCEPT ![t] = "fail"]
  /\ lock' = NoTask

\* MUTANT: a call that gives up after the second attempt forgets the mutex.
FirstFailsKeepsLock(t) ==
  /\ stage[t] = "first"
  /\ failures' = failures + 1
  /\ IF req[t].rx
     THEN /\ stage' = [stage EXCEPT ![t] = "retry"]
          /\ UNCHANGED <<lock, outcome, plain>>
     ELSE /\ stage' = [stage EXCEPT ![t] = "idle"]
          /\ outcome' = [outcome EXCEPT ![t] = "fail"]
          /\ plain' = plain + 1
          /\ UNCHANGED lock
  /\ UNCHANGED <<req, data, gBounce, splitReads, savedByRetry, savedByFold, lost, bounced, calls>>

\* The first attempt fails: another one for the receive buffer, the end for the rest.
FirstFails(t) ==
  /\ stage[t] = "first"
  /\ failures' = failures + 1
  /\ IF req[t].rx
     THEN /\ stage' = [stage EXCEPT ![t] = "retry"]
          /\ UNCHANGED <<lock, outcome, plain>>
     ELSE Fail(t) /\ plain' = plain + 1
  /\ UNCHANGED <<req, data, gBounce, splitReads, savedByRetry, savedByFold, lost, bounced, calls>>

\* The second attempt fails: the third is at the masked offset.
RetryFails(t) ==
  /\ stage[t] = "retry"
  /\ stage' = [stage EXCEPT ![t] = "fold"]
  /\ UNCHANGED <<lock, req, outcome, data, gBounce, counters, plain, calls>>

\* MUTANT: the last failure is not counted.
FoldFailsSilently(t) ==
  /\ stage[t] = "fold"
  /\ Fail(t)
  /\ UNCHANGED <<req, data, gBounce, counters, plain, calls>>

\* MUTANT: the two rescues are tried until one goes through.
FoldFailsTriesAgain(t) ==
  /\ stage[t] = "fold"
  /\ stage' = [stage EXCEPT ![t] = "retry"]
  /\ UNCHANGED <<lock, req, outcome, data, gBounce, counters, plain, calls>>

\* The last rescue fails too.
FoldFails(t) ==
  /\ stage[t] = "fold"
  /\ lost' = lost + 1
  /\ Fail(t)
  /\ UNCHANGED <<req, data, gBounce, splitReads, failures, savedByRetry, savedByFold, bounced,
                 plain, calls>>

Step(t) ==
  \/ LockTimeout(t) \/ Lock(t)
  \/ TransmitOK(t) \/ CopyOut(t) \/ FirstFails(t) \/ RetryFails(t) \/ FoldFails(t)

Next == \E t \in Tasks : Enter(t) \/ Step(t)

Spec == Init /\ [][Next]_vars

\* A transmission ends, and the scheduler comes back to every task.
FairSpec == Spec /\ \A t \in Tasks : WF_vars(Step(t))

-----------------------------------------------------------------------------
\* Every place a task can stand at.
Stages == {"idle", "locking"} \cup Attempts \cup Copies

\* The types: no transaction is ever put at an offset below the buffer.
TypeOK ==
  /\ lock \in Tasks \cup {NoTask}
  /\ stage \in [Tasks -> Stages]
  /\ req \in [Tasks -> Request \cup {NoRequest}]
  /\ outcome \in [Tasks -> {"none", "ok", "fail", "timeout"}]
  /\ data \in [Tasks -> Nat \cup {-1}]
  /\ gBounce \in Nat \cup {-1}
  /\ splitReads \in Nat /\ failures \in Nat /\ savedByRetry \in Nat
  /\ savedByFold \in Nat /\ lost \in Nat /\ bounced \in Nat
  /\ plain \in Nat /\ calls \in Nat

\* The mutex is held by the task between xSemaphoreTake() and xSemaphoreGive(), on
\* every path out of the call, and by no other.
LockHeld == \A t \in Tasks : stage[t] \in Attempts \cup Copies <=> lock = t

\* A read that returns ESP_OK filled its destination from the cell the driver asked
\* for, whichever attempt went through and whoever else used the bounce buffer.
OwnData == \A t \in Tasks : outcome[t] = "ok" => data[t] = Cell(t, req[t].cmd)

\* A receive read between its first failure and its end.
Rescue == {"retry", "fold", "copy_retry", "copy_fold"}
Rescuing == \E t \in Tasks : stage[t] \in Rescue

\* "counted, so this is not silent": each failure ends up in exactly one counter.
FailuresAccounted ==
  failures = savedByRetry + savedByFold + lost + plain + (IF Rescuing THEN 1 ELSE 0)

\* A call is under way from the wait for the mutex on; its data is the driver's once it
\* has returned ESP_OK.
Bus == INSTANCE SpiBus WITH
         pending <- {t \in Tasks : stage[t] # "idle"},
         asked   <- req,
         answer  <- outcome,
         filled  <- [t \in Tasks |-> IF outcome[t] = "ok" THEN data[t] ELSE -1]

\* Attempts, folding, mutex and bounce buffer amount to calls that are answered in one
\* piece: the layer implements what the driver is promised.
ImplementsBus == Bus!Spec

\* Every call ends: at most three transactions, or the wait for the mutex runs out.
CallEnds == \A t \in Tasks : (stage[t] # "idle") ~> (stage[t] = "idle")

=============================================================================
