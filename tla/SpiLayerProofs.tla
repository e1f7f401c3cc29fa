--------------------------- MODULE SpiLayerProofs ---------------------------
(***************************************************************************)
(* The SPI layer, for any set of tasks, buffer size and offsets: the mutex *)
(* is held where it should be, a read that succeeds has its own data, and  *)
(* every failure is in exactly one counter.                                *)
(***************************************************************************)
EXTENDS SpiLayer, TLAPS

USE SpiAssumption DEF SpiAssumption

\* Only the receive buffer is read again.
RescueIsRx == \A t \in Tasks : stage[t] \in Rescue => req[t].rx

\* Between the transaction and memcpy() the bounce buffer is that of the task.
BounceIsOwn == \A t \in Tasks : stage[t] \in Copies => gBounce = Cell(t, req[t].cmd)

SpiInv == TypeOK /\ LockHeld /\ RescueIsRx /\ BounceIsOwn /\ OwnData /\ FailuresAccounted

-----------------------------------------------------------------------------
\* The remainder is the one number below n that differs by a multiple of n.
LEMMA RemainderUnique ==
  ASSUME NEW n \in Nat \ {0}, NEW a \in Int, NEW q \in Int, NEW r \in 0..(n - 1),
         a = n * q + r
  PROVE  a % n = r
OBVIOUS

\* Masking twice is masking once.
LEMMA MaskTwice ==
  ASSUME NEW n \in Nat \ {0}, NEW a \in Int
  PROVE  a % n \in 0..(n - 1) /\ (a % n) % n = a % n
OBVIOUS

\* Taking off one length of the buffer leaves the cell.
LEMMA FoldKeepsCell ==
  ASSUME NEW n \in Nat \ {0}, NEW a \in Int
  PROVE  (a - n) % n = a % n
<1> DEFINE q == a \div n
           r == a % n
<1>1. q \in Int /\ r \in 0..(n - 1) /\ a = n * q + r
  OBVIOUS
<1> HIDE DEF q, r
<1>2. q - 1 \in Int /\ a - n = n * (q - 1) + r
  BY <1>1
<1>3. (a - n) % n = r
  BY <1>1, <1>2, RemainderUnique
<1> QED BY <1>3 DEF r

\* Every attempt of w5500SpiRead() is at the cell the driver asked for.
LEMMA EveryAttemptOwn ==
  ASSUME NEW t \in Tasks, NEW s \in Attempts, req[t] \in Request \cup {NoRequest},
         s = "first" \/ req[t].rx
  PROVE  /\ Cell(t, Offset(t, s)) = Cell(t, req[t].cmd)
         /\ Cell(t, Offset(t, s)) \in Nat
<1>0. Size \in Int /\ Size > 0 /\ Size \in Nat \ {0}
  OBVIOUS
<1>1. req[t].cmd \in Nat /\ req[t].rx \in BOOLEAN
  <2>0. \A c \in Offsets : c \in Nat
    OBVIOUS
  <2>1. CASE req[t] \in [what : {"read"}, rx : BOOLEAN, cmd : Offsets, bounce : BOOLEAN]
    BY <2>0, <2>1
  <2>2. CASE req[t] \in [what : {"write"}, rx : {FALSE}, cmd : Offsets, bounce : {FALSE}]
    BY <2>0, <2>2
  <2>3. CASE req[t] = NoRequest
    BY <2>3 DEF NoRequest
  <2> QED BY <2>1, <2>2, <2>3 DEF Request
<1>2. \/ Offset(t, s) = req[t].cmd
      \/ req[t].rx /\ Offset(t, s) = req[t].cmd - Size
      \/ req[t].rx /\ Offset(t, s) = req[t].cmd % Size
  BY DEF Offset, Folded, Attempts
<1> DEFINE c == req[t].cmd
<1> HIDE DEF c
<1>2a. c % Size \in Nat /\ (c % Size) % Size = c % Size
  <2>1. c \in Int
    BY <1>1 DEF c
  <2>2. c % Size \in 0..(Size - 1) /\ (c % Size) % Size = c % Size
    BY <2>1, <1>0, MaskTwice, Zenon
  <2> QED BY <2>2, <1>0
<1>2b. (c - Size) % Size = c % Size
  <2>1. c \in Int
    BY <1>1 DEF c
  <2> QED BY <2>1, <1>0, FoldKeepsCell, Zenon
<1>3. CASE Offset(t, s) = req[t].cmd
  BY <1>1, <1>2a, <1>3 DEF Cell, c
<1>4. CASE req[t].rx /\ Offset(t, s) = req[t].cmd - Size
  BY <1>2a, <1>2b, <1>4 DEF Cell, c
<1>5. CASE req[t].rx /\ Offset(t, s) = req[t].cmd % Size
  BY <1>2a, <1>5 DEF Cell, c
<1> QED BY <1>2, <1>3, <1>4, <1>5

-----------------------------------------------------------------------------
(* One lemma per action: it keeps the invariant. *)

Held == Attempts \cup Copies

\* While a task holds the mutex nobody else is between take and give, so the only
\* rescue there can be is its own.
LEMMA OnlyTheHolder ==
  ASSUME LockHeld, NEW t \in Tasks, stage[t] \in Held
  PROVE  /\ lock = t
         /\ \A u \in Tasks \ {t} : stage[u] \notin Held
         /\ Rescuing <=> stage[t] \in Rescue
<1>1. lock = t
  BY DEF LockHeld, Held
<1>2. \A u \in Tasks \ {t} : stage[u] \notin Held
  BY <1>1 DEF LockHeld, Held
<1>3. Rescue \subseteq Held
  BY DEF Rescue, Held, Attempts, Copies
<1> QED BY <1>1, <1>2, <1>3 DEF Rescuing

\* A call begins.
LEMMA EnterKeeps ==
  ASSUME SpiInv, NEW t \in Tasks, Enter(t)
  PROVE  SpiInv'
<1> USE DEF SpiInv
<1>1. PICK r \in Request : req' = [req EXCEPT ![t] = r]
  BY DEF Enter
<1>2. TypeOK'
  BY <1>1 DEF TypeOK, Enter, counters, Stages
<1>3. \A u \in Tasks : \/ stage'[u] = stage[u]
                       \/ u = t /\ stage[t] = "idle" /\ stage'[t] = "locking"
  BY DEF TypeOK, Enter
<1>4. LockHeld'
  BY <1>3 DEF LockHeld, Enter, Attempts, Copies
<1>5. RescueIsRx' /\ (Rescuing' <=> Rescuing)
  <2>1. \A u \in Tasks : stage'[u] \in Rescue <=> stage[u] \in Rescue
    BY <1>3 DEF Rescue
  <2>2. \A u \in Tasks \ {t} : req'[u] = req[u]
    <3>1. DOMAIN req = Tasks
      BY DEF TypeOK
    <3> QED BY <1>1, <3>1
  <2>3. RescueIsRx'
    <3>1. stage'[t] \notin Rescue
      BY DEF TypeOK, Enter, Rescue
    <3> QED BY <2>1, <2>2, <3>1 DEF RescueIsRx
  <2>4. Rescuing' <=> Rescuing
    BY <2>1 DEF Rescuing
  <2> QED BY <2>3, <2>4
<1>6. BounceIsOwn'
  BY <1>1, <1>3 DEF BounceIsOwn, Copies, Enter, Cell, TypeOK
<1>7. OwnData'
  BY <1>1 DEF OwnData, Enter, Cell, TypeOK
<1>8. FailuresAccounted'
  BY <1>5 DEF FailuresAccounted, Enter, counters
<1> QED BY <1>2, <1>4, <1>5, <1>6, <1>7, <1>8

\* The wait for the mutex runs out.
LEMMA LockTimeoutKeeps ==
  ASSUME SpiInv, NEW t \in Tasks, LockTimeout(t)
  PROVE  SpiInv'
<1> USE DEF SpiInv
<1>1. TypeOK'
  BY DEF TypeOK, LockTimeout, counters, Stages
<1>2. \A u \in Tasks : \/ stage'[u] = stage[u]
                       \/ u = t /\ stage[t] = "locking" /\ stage'[t] = "idle"
  BY DEF TypeOK, LockTimeout
<1>3. LockHeld'
  BY <1>2 DEF LockHeld, LockTimeout, Attempts, Copies
<1>4. RescueIsRx' /\ (Rescuing' <=> Rescuing)
  BY <1>2 DEF RescueIsRx, Rescue, Rescuing, LockTimeout
<1>5. BounceIsOwn'
  BY <1>2 DEF BounceIsOwn, Copies, LockTimeout, Cell
<1>6. OwnData'
  BY DEF OwnData, LockTimeout, Cell, TypeOK
<1>7. FailuresAccounted'
  BY <1>4 DEF FailuresAccounted, LockTimeout, counters
<1> QED BY <1>1, <1>3, <1>4, <1>5, <1>6, <1>7

\* The mutex is taken.
LEMMA LockKeeps ==
  ASSUME SpiInv, NEW t \in Tasks, Lock(t)
  PROVE  SpiInv'
<1> USE DEF SpiInv
<1>1. TypeOK'
  BY DEF TypeOK, Lock, LockAvailable, Stages, Attempts
<1>2. \A u \in Tasks : \/ stage'[u] = stage[u]
                       \/ u = t /\ stage[t] = "locking" /\ stage'[t] = "first"
  BY DEF TypeOK, Lock, LockAvailable
<1>3. LockHeld'
  <2>1. \A u \in Tasks : stage[u] \notin Attempts \cup Copies
    BY DEF Lock, LockAvailable, LockHeld
  <2>2. stage'[t] \in Attempts /\ lock' = t
    BY DEF Lock, LockAvailable, TypeOK, Attempts
  <2>3. \A u \in Tasks \ {t} : stage'[u] = stage[u]
    BY <1>2
  <2> QED BY <2>1, <2>2, <2>3 DEF LockHeld
<1>4. RescueIsRx' /\ (Rescuing' <=> Rescuing)
  BY <1>2 DEF RescueIsRx, Rescue, Rescuing, Lock
<1>5. BounceIsOwn'
  BY <1>2 DEF BounceIsOwn, Copies, Lock, Cell
<1>6. OwnData'
  BY DEF OwnData, Lock, Cell
<1>7. FailuresAccounted'
  BY <1>4 DEF FailuresAccounted, Lock
<1> QED BY <1>1, <1>3, <1>4, <1>5, <1>6, <1>7

\* Giving the mutex back ends the only rescue and the only use of the bounce buffer.
LEMMA GivenBack ==
  ASSUME TypeOK, LockHeld, NEW t \in Tasks, stage[t] \in Held,
         stage' = [stage EXCEPT ![t] = "idle"], lock' = NoTask
  PROVE  LockHeld' /\ ~Rescuing' /\ RescueIsRx' /\ BounceIsOwn'
<1>1. \A u \in Tasks : stage'[u] \notin Held
  BY OnlyTheHolder DEF TypeOK, Held, Attempts, Copies
<1>2. Rescue \subseteq Held /\ Copies \subseteq Held
  BY DEF Rescue, Held, Attempts, Copies
<1>3. LockHeld'
  BY <1>1 DEF LockHeld, Held
<1> QED BY <1>1, <1>2, <1>3 DEF Rescuing, RescueIsRx, BounceIsOwn

\* Every attempt of the invariant's states reads the right place.
LEMMA AttemptOwn ==
  ASSUME SpiInv, NEW t \in Tasks, stage[t] \in Attempts
  PROVE  /\ Cell(t, Offset(t, stage[t])) = Cell(t, req[t].cmd)
         /\ Cell(t, Offset(t, stage[t])) \in Nat
<1>1. stage[t] = "first" \/ req[t].rx
  BY DEF SpiInv, RescueIsRx, Rescue, Attempts
<1>2. req[t] \in Request \cup {NoRequest}
  BY DEF SpiInv, TypeOK
<1> QED BY <1>1, <1>2, EveryAttemptOwn

\* A transmission goes through.
LEMMA TransmitOKKeeps ==
  ASSUME SpiInv, NEW t \in Tasks, TransmitOK(t)
  PROVE  SpiInv'
<1> USE DEF SpiInv
<1> DEFINE s == stage[t]
<1>0. s \in Attempts /\ s \in Held
  BY DEF TransmitOK, Held
<1>1. lock = t /\ (\A u \in Tasks \ {t} : stage[u] \notin Held) /\ (Rescuing <=> s \in Rescue)
  BY <1>0, OnlyTheHolder
<1>2. Cell(t, Offset(t, s)) = Cell(t, req[t].cmd) /\ Cell(t, Offset(t, s)) \in Nat
  BY <1>0, AttemptOwn
<1>3. UNCHANGED <<req, splitReads, failures, lost, bounced, plain, calls>>
  BY DEF TransmitOK
<1>4. CASE req[t].bounce
  <2>1. /\ gBounce' = Cell(t, Offset(t, s))
        /\ stage' = [stage EXCEPT ![t] = CopyOf[s]]
        /\ UNCHANGED <<lock, outcome, data, savedByRetry, savedByFold>>
    BY <1>4 DEF TransmitOK
  <2>2. CopyOf[s] \in Copies /\ (CopyOf[s] \in Rescue <=> s \in Rescue)
    BY <1>0 DEF CopyOf, Copies, Rescue, Attempts
  <2>3. stage'[t] = CopyOf[s] /\ \A u \in Tasks \ {t} : stage'[u] = stage[u]
    BY <2>1 DEF TypeOK
  <2>4. TypeOK'
    BY <1>2, <1>3, <2>1, <2>2 DEF TypeOK, Stages
  <2>5. LockHeld'
    BY <1>1, <2>1, <2>2, <2>3 DEF LockHeld, Held
  <2>6. RescueIsRx'
    BY <1>0, <1>3, <2>2, <2>3 DEF RescueIsRx
  <2>7. BounceIsOwn'
    BY <1>1, <1>2, <1>3, <2>1, <2>3 DEF BounceIsOwn, Held, Cell
  <2>8. OwnData'
    BY <1>3, <2>1 DEF OwnData, Cell
  <2>9. Rescuing' <=> Rescuing
    BY <1>1, <2>2, <2>3 DEF Rescuing, Rescue, Held, Attempts, Copies
  <2>10. FailuresAccounted'
    BY <1>3, <2>1, <2>9 DEF FailuresAccounted
  <2> QED BY <2>4, <2>5, <2>6, <2>7, <2>8, <2>10
<1>5. CASE ~req[t].bounce
  <2>1. data' = [data EXCEPT ![t] = Cell(t, Offset(t, s))] /\ Succeed(t, s) /\ gBounce' = gBounce
    BY <1>5 DEF TransmitOK
  <2>2. TypeOK'
    BY <1>2, <1>3, <2>1 DEF TypeOK, Stages, Succeed
  <2>3. LockHeld' /\ ~Rescuing' /\ RescueIsRx' /\ BounceIsOwn'
    BY <1>0, <2>1, GivenBack DEF Succeed
  <2>4. OwnData'
    BY <1>2, <1>3, <2>1 DEF OwnData, Succeed, Cell, TypeOK
  <2>5. FailuresAccounted'
    BY <1>0, <1>1, <1>3, <2>1, <2>3 DEF FailuresAccounted, Succeed, Attempts, Rescue, TypeOK
  <2> QED BY <2>2, <2>3, <2>4, <2>5
<1> QED BY <1>4, <1>5

\* The bounce buffer is copied out.
LEMMA CopyOutKeeps ==
  ASSUME SpiInv, NEW t \in Tasks, CopyOut(t)
  PROVE  SpiInv'
<1> USE DEF SpiInv
<1>0. stage[t] \in Copies /\ stage[t] \in Held
  BY DEF CopyOut, Held
<1>1. PICK s \in Attempts : stage[t] = CopyOf[s] /\ Succeed(t, s)
  BY DEF CopyOut
<1>2. stage[t] \in Rescue <=> s \in {"retry", "fold"}
  BY <1>1 DEF CopyOf, Rescue, Attempts
<1>3. Rescuing <=> stage[t] \in Rescue
  BY <1>0, OnlyTheHolder
<1>4. /\ data' = [data EXCEPT ![t] = gBounce]
      /\ bounced' = bounced + 1
      /\ UNCHANGED <<req, gBounce, splitReads, failures, lost, plain, calls>>
  BY DEF CopyOut
<1>5. TypeOK'
  BY <1>1, <1>4 DEF TypeOK, Stages, Succeed
<1>6. LockHeld' /\ ~Rescuing' /\ RescueIsRx' /\ BounceIsOwn'
  BY <1>0, <1>1, GivenBack DEF Succeed
<1>7. OwnData'
  BY <1>0, <1>1, <1>4 DEF OwnData, BounceIsOwn, Succeed, Cell, TypeOK
<1>8. FailuresAccounted'
  BY <1>1, <1>2, <1>3, <1>4, <1>6 DEF FailuresAccounted, Succeed, Attempts, TypeOK
<1> QED BY <1>5, <1>6, <1>7, <1>8

\* The first attempt fails.
LEMMA FirstFailsKeeps ==
  ASSUME SpiInv, NEW t \in Tasks, FirstFails(t)
  PROVE  SpiInv'
<1> USE DEF SpiInv
<1>0. stage[t] = "first" /\ stage[t] \in Held /\ stage[t] \notin Rescue
  BY DEF FirstFails, Held, Attempts, Rescue
<1>1. lock = t /\ (\A u \in Tasks \ {t} : stage[u] \notin Held) /\ ~Rescuing
  BY <1>0, OnlyTheHolder
<1>2. /\ failures' = failures + 1
      /\ UNCHANGED <<req, data, gBounce, splitReads, savedByRetry, savedByFold, lost, bounced,
                     calls>>
  BY DEF FirstFails
<1>3. CASE req[t].rx
  <2>1. stage' = [stage EXCEPT ![t] = "retry"] /\ UNCHANGED <<lock, outcome, plain>>
    BY <1>3 DEF FirstFails
  <2>2. stage'[t] = "retry" /\ \A u \in Tasks \ {t} : stage'[u] = stage[u]
    BY <2>1 DEF TypeOK
  <2>3. TypeOK'
    BY <1>2, <2>1 DEF TypeOK, Stages, Attempts
  <2>4. LockHeld'
    BY <1>0, <2>1, <2>2 DEF LockHeld, Held, Attempts
  <2>5. RescueIsRx'
    BY <1>2, <1>3, <2>2 DEF RescueIsRx
  <2>6. BounceIsOwn'
    BY <1>2, <2>2 DEF BounceIsOwn, Copies, Cell
  <2>7. OwnData'
    BY <1>2, <2>1 DEF OwnData, Cell
  <2>8. Rescuing'
    BY <2>2 DEF Rescuing, Rescue
  <2>9. FailuresAccounted'
    BY <1>1, <1>2, <2>1, <2>8 DEF FailuresAccounted, TypeOK
  <2> QED BY <2>3, <2>4, <2>5, <2>6, <2>7, <2>9
<1>4. CASE ~req[t].rx
  <2>1. Fail(t) /\ plain' = plain + 1
    BY <1>4 DEF FirstFails
  <2>2. TypeOK'
    BY <1>2, <2>1 DEF TypeOK, Stages, Fail
  <2>3. LockHeld' /\ ~Rescuing' /\ RescueIsRx' /\ BounceIsOwn'
    BY <1>0, <2>1, GivenBack DEF Fail
  <2>4. OwnData'
    BY <1>2, <2>1 DEF OwnData, Fail, Cell, TypeOK
  <2>5. FailuresAccounted'
    BY <1>1, <1>2, <2>1, <2>3 DEF FailuresAccounted, TypeOK
  <2> QED BY <2>2, <2>3, <2>4, <2>5
<1> QED BY <1>3, <1>4

\* The retry fails.
LEMMA RetryFailsKeeps ==
  ASSUME SpiInv, NEW t \in Tasks, RetryFails(t)
  PROVE  SpiInv'
<1> USE DEF SpiInv
<1>1. /\ stage[t] = "retry"
      /\ stage' = [stage EXCEPT ![t] = "fold"]
      /\ UNCHANGED <<lock, req, outcome, data, gBounce, counters, plain, calls>>
  BY DEF RetryFails
<1>2. stage'[t] = "fold" /\ \A u \in Tasks \ {t} : stage'[u] = stage[u]
  BY <1>1 DEF TypeOK
<1>3. TypeOK'
  BY <1>1 DEF TypeOK, Stages, Attempts, counters
<1>4. LockHeld'
  BY <1>1, <1>2 DEF LockHeld, Attempts
<1>5. RescueIsRx'
  BY <1>1, <1>2 DEF RescueIsRx, Rescue
<1>6. BounceIsOwn'
  BY <1>1, <1>2 DEF BounceIsOwn, Copies, Cell
<1>7. OwnData'
  BY <1>1 DEF OwnData, Cell
<1>8. Rescuing' <=> Rescuing
  BY <1>1, <1>2 DEF Rescuing, Rescue
<1>9. FailuresAccounted'
  BY <1>1, <1>8 DEF FailuresAccounted, counters
<1> QED BY <1>3, <1>4, <1>5, <1>6, <1>7, <1>9

\* The fold fails: the read is lost.
LEMMA FoldFailsKeeps ==
  ASSUME SpiInv, NEW t \in Tasks, FoldFails(t)
  PROVE  SpiInv'
<1> USE DEF SpiInv
<1>0. stage[t] = "fold" /\ stage[t] \in Held /\ stage[t] \in Rescue
  BY DEF FoldFails, Held, Attempts, Rescue
<1>1. Rescuing
  BY <1>0 DEF Rescuing
<1>2. /\ lost' = lost + 1 /\ Fail(t)
      /\ UNCHANGED <<req, data, gBounce, splitReads, failures, savedByRetry, savedByFold,
                     bounced, plain, calls>>
  BY DEF FoldFails
<1>3. TypeOK'
  BY <1>2 DEF TypeOK, Stages, Fail
<1>4. LockHeld' /\ ~Rescuing' /\ RescueIsRx' /\ BounceIsOwn'
  BY <1>0, <1>2, GivenBack DEF Fail
<1>5. OwnData'
  BY <1>2 DEF OwnData, Fail, Cell, TypeOK
<1>6. FailuresAccounted'
  BY <1>1, <1>2, <1>4 DEF FailuresAccounted, TypeOK
<1> QED BY <1>3, <1>4, <1>5, <1>6

-----------------------------------------------------------------------------
\* w5500SpiInit() leaves a layer in which the invariant holds.
LEMMA InitSpi == Init => SpiInv
<1> SUFFICES ASSUME Init PROVE SpiInv
  OBVIOUS
<1>1. \A t \in Tasks : stage[t] = "idle" /\ outcome[t] = "none"
  BY DEF Init
<1>2. "idle" \notin Attempts \cup Copies /\ "idle" \notin Rescue
  BY DEF Attempts, Copies, Rescue
<1>3. TypeOK
  BY DEF Init, TypeOK, Stages
<1>4. LockHeld
  BY <1>1, <1>2 DEF LockHeld, Init
<1>5. ~Rescuing /\ RescueIsRx /\ BounceIsOwn
  BY <1>1, <1>2 DEF Rescuing, RescueIsRx, BounceIsOwn
<1>6. OwnData
  BY <1>1 DEF OwnData
<1>7. FailuresAccounted
  BY <1>5 DEF FailuresAccounted, Init
<1> QED BY <1>3, <1>4, <1>5, <1>6, <1>7 DEF SpiInv

\* The invariant is inductive.
THEOREM SpiInvariant == Spec => []SpiInv
<1>1. SpiInv /\ [Next]_vars => SpiInv'
  <2> SUFFICES ASSUME SpiInv, [Next]_vars PROVE SpiInv'
    OBVIOUS
  <2>1. CASE UNCHANGED vars
    BY <2>1 DEF vars, counters, SpiInv, TypeOK, LockHeld, RescueIsRx, BounceIsOwn, OwnData,
                FailuresAccounted, Rescuing, Cell
  <2>2. CASE Next
    <3>1. PICK t \in Tasks : Enter(t) \/ Step(t)
      BY <2>2 DEF Next
    <3> QED
      BY <3>1, EnterKeeps, LockTimeoutKeeps, LockKeeps, TransmitOKKeeps, CopyOutKeeps,
         FirstFailsKeeps, RetryFailsKeeps, FoldFailsKeeps DEF Step
  <2> QED BY <2>1, <2>2
<1> QED BY <1>1, InitSpi, PTL DEF Spec

\* The types, for any tasks, buffer size and offsets.
THEOREM SpiTypes == Spec => []TypeOK
<1>1. SpiInv => TypeOK
  BY DEF SpiInv
<1> QED BY <1>1, SpiInvariant, PTL

\* The mutex is held exactly between xSemaphoreTake() and xSemaphoreGive().
THEOREM MutexHeld == Spec => []LockHeld
<1>1. SpiInv => LockHeld
  BY DEF SpiInv
<1> QED BY <1>1, SpiInvariant, PTL

\* Whoever shares the bounce buffer and whichever of the three attempts went through, a
\* call that returns ESP_OK has the data the driver asked for.
THEOREM ReadsOwnData == Spec => []OwnData
<1>1. SpiInv => OwnData
  BY DEF SpiInv
<1> QED BY <1>1, SpiInvariant, PTL

\* No failure is silent and none is counted twice.
THEOREM EveryFailureCounted == Spec => []FailuresAccounted
<1>1. SpiInv => FailuresAccounted
  BY DEF SpiInv
<1> QED BY <1>1, SpiInvariant, PTL

-----------------------------------------------------------------------------
(* The refinement: every step is a step of the abstract bus, or none. *)

\* The abstract variables.
Pending == {u \in Tasks : stage[u] # "idle"}
Filled  == [u \in Tasks |-> IF outcome[u] = "ok" THEN data[u] ELSE -1]

\* A call whose stage changes without becoming idle changes nothing the driver sees.
LEMMA Unseen ==
  ASSUME TypeOK, NEW t \in Tasks, NEW s, s # "idle", stage[t] # "idle",
         stage' = [stage EXCEPT ![t] = s], UNCHANGED <<req, outcome, data, lost>>
  PROVE  UNCHANGED Bus!vars
<1>1. Pending' = Pending
  BY DEF Pending, TypeOK
<1>2. Filled' = Filled
  BY DEF Filled
<1> QED BY <1>1, <1>2 DEF Bus!vars, Pending, Filled

\* What the end of a call does to the abstract variables.
LEMMA Ended ==
  ASSUME TypeOK, NEW t \in Tasks, stage[t] # "idle", NEW a,
         stage' = [stage EXCEPT ![t] = "idle"], outcome' = [outcome EXCEPT ![t] = a],
         UNCHANGED req
  PROVE  Bus!End(t, a)
<1>1. t \in Pending /\ Pending' = Pending \ {t}
  BY DEF Pending, TypeOK
<1> QED BY <1>1 DEF Bus!End, Pending

\* A call that fails or times out leaves the destination out of it.
LEMMA NothingFilled ==
  ASSUME TypeOK, NEW t \in Tasks, NEW a, a # "ok", outcome[t] # "ok",
         outcome' = [outcome EXCEPT ![t] = a], UNCHANGED data
  PROVE  Filled' = Filled
BY DEF Filled, TypeOK

\* A call that goes through is a success of the abstract bus.
LEMMA SuccessIsOne ==
  ASSUME TypeOK, NEW t \in Tasks, NEW s, stage[t] # "idle", Succeed(t, s),
         data' = [data EXCEPT ![t] = Cell(t, req[t].cmd)], UNCHANGED <<req, lost>>
  PROVE  Bus!Succeed(t)
<1>1. Bus!End(t, "ok")
  BY Ended DEF Succeed
<1>2. Filled' = [Filled EXCEPT ![t] = Bus!Place(req[t])]
  BY DEF Filled, Bus!Place, Cell, Succeed, TypeOK
<1> QED BY <1>1, <1>2 DEF Bus!Succeed, Filled

\* A call under way has no answer yet.
Unanswered == \A t \in Tasks : stage[t] # "idle" => outcome[t] = "none"

\* A step that leaves a call under way, or begins one, leaves it without an answer.
LEMMA UnansweredStays ==
  ASSUME TypeOK, Unanswered, [Next]_vars
  PROVE  Unanswered'
<1>1. CASE UNCHANGED vars
  BY <1>1 DEF vars, Unanswered
<1>2. CASE Next
  <2>1. PICK t \in Tasks : Enter(t) \/ Step(t)
    BY <1>2 DEF Next
  <2>2. \A u \in Tasks \ {t} : stage'[u] = stage[u] /\ outcome'[u] = outcome[u]
    BY <2>1 DEF TypeOK, Enter, Step, LockTimeout, Lock, TransmitOK, CopyOut, FirstFails,
                RetryFails, FoldFails, Succeed, Fail
  <2>3. stage'[t] # "idle" => outcome'[t] = "none"
    <3>1. CASE Enter(t)
      BY <3>1 DEF TypeOK, Enter
    <3>2. CASE LockTimeout(t) \/ CopyOut(t) \/ FoldFails(t)
      BY <3>2 DEF TypeOK, LockTimeout, CopyOut, FoldFails, Succeed, Fail
    <3>3. CASE Lock(t) \/ RetryFails(t)
      BY <3>3 DEF TypeOK, Unanswered, Lock, LockAvailable, RetryFails
    <3>4. CASE TransmitOK(t) \/ FirstFails(t)
      BY <3>4 DEF TypeOK, Unanswered, TransmitOK, FirstFails, Succeed, Fail, Attempts
    <3> QED BY <2>1, <3>1, <3>2, <3>3, <3>4 DEF Step
  <2> QED BY <2>2, <2>3 DEF Unanswered
<1> QED BY <1>1, <1>2

\* A call begins.
LEMMA EnterIsCall ==
  ASSUME TypeOK, NEW t \in Tasks, Enter(t)
  PROVE  \E r \in Request : Bus!Call(t, r)
<1>1. PICK r \in Request : req' = [req EXCEPT ![t] = r]
  BY DEF Enter
<1>2. t \notin Pending /\ Pending' = Pending \cup {t}
  BY DEF Pending, Enter, TypeOK
<1>3. Filled' = [Filled EXCEPT ![t] = -1]
  BY DEF Filled, Enter, TypeOK
<1>4. Bus!Call(t, r)
  BY <1>1, <1>2, <1>3 DEF Bus!Call, Pending, Filled, Enter, counters
<1> QED BY <1>4

\* The wait runs out while the holder of the mutex has a call under way.
LEMMA LockTimeoutIsTimeOut ==
  ASSUME TypeOK, LockHeld, Unanswered, NEW t \in Tasks, LockTimeout(t)
  PROVE  Bus!TimeOut(t)
<1>1. stage[t] = "locking" /\ outcome[t] = "none"
  BY DEF LockTimeout, Unanswered
<1>2. Bus!End(t, "timeout")
  BY <1>1, Ended DEF LockTimeout
<1>3. Filled' = Filled
  BY <1>1, NothingFilled DEF LockTimeout
<1>4. Pending # {t}
  <2>1. lock \in Tasks /\ stage[lock] \in Attempts \cup Copies
    BY DEF LockTimeout, TypeOK, LockHeld
  <2>2. lock # t /\ stage[lock] # "idle"
    BY <1>1, <2>1 DEF Attempts, Copies
  <2> QED BY <2>1, <2>2 DEF Pending
<1> QED BY <1>2, <1>3, <1>4 DEF Bus!TimeOut, Pending, Filled, LockTimeout, counters

\* A call that fails, with or without a loss, is a failure of the abstract bus.
LEMMA FailureIsOne ==
  ASSUME TypeOK, Unanswered, NEW t \in Tasks, stage[t] # "idle", Fail(t),
         lost' = IF req[t].rx THEN lost + 1 ELSE lost, UNCHANGED <<req, data>>
  PROVE  Bus!Fail(t)
<1>1. Bus!End(t, "fail")
  BY Ended DEF Fail
<1>2. Filled' = Filled
  BY NothingFilled DEF Fail, Unanswered
<1> QED BY <1>1, <1>2 DEF Bus!Fail, Filled

\* A transmission: the end of the call, or one more step towards the bounce buffer.
LEMMA TransmitIsOne ==
  ASSUME SpiInv, NEW t \in Tasks, TransmitOK(t)
  PROVE  Bus!Succeed(t) \/ UNCHANGED Bus!vars
<1>1. TypeOK /\ stage[t] \in Attempts /\ stage[t] # "idle"
  BY DEF SpiInv, TransmitOK, Attempts
<1>2. CASE req[t].bounce
  <2>1. CopyOf[stage[t]] # "idle"
    BY <1>1 DEF CopyOf, Attempts
  <2>2. /\ stage' = [stage EXCEPT ![t] = CopyOf[stage[t]]]
        /\ UNCHANGED <<req, outcome, data, lost>>
    BY <1>2 DEF TransmitOK
  <2> QED BY <1>1, <2>1, <2>2, Unseen
<1>3. CASE ~req[t].bounce
  <2>1. /\ Succeed(t, stage[t])
        /\ data' = [data EXCEPT ![t] = Cell(t, Offset(t, stage[t]))]
        /\ UNCHANGED <<req, lost>>
    BY <1>3 DEF TransmitOK
  <2>2. Cell(t, Offset(t, stage[t])) = Cell(t, req[t].cmd)
    BY <1>1, AttemptOwn
  <2> QED BY <1>1, <2>1, <2>2, SuccessIsOne
<1> QED BY <1>2, <1>3

\* The copy ends the call, with the data of the task.
LEMMA CopyIsSuccess ==
  ASSUME SpiInv, NEW t \in Tasks, CopyOut(t)
  PROVE  Bus!Succeed(t)
<1>1. TypeOK /\ stage[t] # "idle" /\ gBounce = Cell(t, req[t].cmd)
  BY DEF SpiInv, BounceIsOwn, CopyOut, Copies
<1>2. PICK s \in Attempts : Succeed(t, s)
  BY DEF CopyOut
<1>3. data' = [data EXCEPT ![t] = Cell(t, req[t].cmd)] /\ UNCHANGED <<req, lost>>
  BY <1>1 DEF CopyOut
<1> QED BY <1>1, <1>2, <1>3, SuccessIsOne

\* A failed attempt ends the call, or is made good for and not seen.
LEMMA FirstFailureIsOne ==
  ASSUME SpiInv, Unanswered, NEW t \in Tasks, FirstFails(t)
  PROVE  Bus!Fail(t) \/ UNCHANGED Bus!vars
<1>1. TypeOK /\ stage[t] # "idle" /\ UNCHANGED <<req, data, lost>>
  BY DEF SpiInv, FirstFails
<1>2. CASE req[t].rx
  <2>1. stage' = [stage EXCEPT ![t] = "retry"] /\ UNCHANGED outcome
    BY <1>2 DEF FirstFails
  <2> QED BY <1>1, <2>1, Unseen
<1>3. CASE ~req[t].rx
  <2>1. Fail(t)
    BY <1>3 DEF FirstFails
  <2> QED BY <1>1, <1>3, <2>1, FailureIsOne
<1> QED BY <1>2, <1>3

\* Every step of the layer is a step of the abstract bus or is not seen.
LEMMA StepIsOne ==
  ASSUME SpiInv, Unanswered, [Next]_vars
  PROVE  [Bus!Next]_Bus!vars
<1>1. CASE UNCHANGED vars
  BY <1>1 DEF vars, counters, Bus!vars
<1>2. CASE Next
  <2>0. TypeOK /\ LockHeld
    BY DEF SpiInv
  <2>1. PICK t \in Tasks : Enter(t) \/ Step(t)
    BY <1>2 DEF Next
  <2>2. CASE Enter(t)
    BY <2>0, <2>2, EnterIsCall DEF Bus!Next
  <2>3. CASE LockTimeout(t)
    BY <2>0, <2>3, LockTimeoutIsTimeOut DEF Bus!Next
  <2>4. CASE Lock(t)
    <3>1. /\ stage[t] # "idle" /\ stage' = [stage EXCEPT ![t] = "first"]
          /\ UNCHANGED <<req, outcome, data, lost>>
      BY <2>4 DEF Lock, LockAvailable
    <3> QED BY <2>0, <3>1, Unseen
  <2>5. CASE TransmitOK(t)
    BY <2>5, TransmitIsOne DEF Bus!Next
  <2>6. CASE CopyOut(t)
    BY <2>6, CopyIsSuccess DEF Bus!Next
  <2>7. CASE FirstFails(t)
    BY <2>7, FirstFailureIsOne DEF Bus!Next
  <2>8. CASE RetryFails(t)
    <3>1. /\ stage[t] # "idle" /\ stage' = [stage EXCEPT ![t] = "fold"]
          /\ UNCHANGED <<req, outcome, data, lost>>
      BY <2>8 DEF RetryFails, counters
    <3> QED BY <2>0, <3>1, Unseen
  <2>9. CASE FoldFails(t)
    <3>1. req[t].rx
      BY <2>9 DEF FoldFails, SpiInv, RescueIsRx, Rescue
    <3>2. stage[t] # "idle" /\ Fail(t) /\ lost' = lost + 1 /\ UNCHANGED <<req, data>>
      BY <2>9 DEF FoldFails
    <3>3. Bus!Fail(t)
      BY <2>0, <3>1, <3>2, FailureIsOne
    <3> QED BY <3>3 DEF Bus!Next
  <2> QED BY <2>1, <2>2, <2>3, <2>4, <2>5, <2>6, <2>7, <2>8, <2>9 DEF Step
<1> QED BY <1>1, <1>2

\* Attempts, folds, the mutex and the bounce buffer are not to be seen from the driver:
\* w5500SpiRead() and w5500SpiWrite() behave like calls answered in one piece.
THEOREM LayerImplementsBus == Spec => ImplementsBus
<1>1. Init => Bus!Init
  BY DEF Init, Bus!Init
<1>2. Init => Unanswered
  BY DEF Init, Unanswered
<1>3. SpiInv => TypeOK
  BY DEF SpiInv
<1>4. Spec => []Unanswered
  BY <1>2, <1>3, SpiInvariant, UnansweredStays, PTL DEF Spec
<1> QED BY <1>1, <1>4, SpiInvariant, StepIsOne, PTL DEF Spec, ImplementsBus, Bus!Spec

=============================================================================
