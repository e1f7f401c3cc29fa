-------------------------- MODULE RigControlProofs --------------------------
(***************************************************************************)
(* Controls of the rig, for any requests, any number of workers and tests  *)
(* and any order of polling: the tests alone cut nobody off, a run that    *)
(* ends well leaves its port open, and the page shows no old value for     *)
(* longer than two polls.                                                  *)
(***************************************************************************)
EXTENDS RigControl, TLAPS

\* A port other than that of the tests is only ever shut by the page, and no port is
\* shut without anybody having written it.
OnlyThePage == \A s \in shut : by[s] = "page" \/ (s = ACTIVE_PORT /\ by[s] = "test")

\* A test is under way exactly while it is neither idle nor over.
RunningTests == \A t \in Tests : test[t] # "idle" <=> ended[t] = "running"

\* While the port of the tests is shut by one of them, some test has failed or has the
\* opening still to do.
SomeoneToOpen ==
  ACTIVE_PORT \in shut /\ by[ACTIVE_PORT] = "test"
    => \E t \in Tests : ended[t] = "failed" \/ (ended[t] = "running" /\ test[t] # "after")

\* What a poll has read is true once a poll began after the last change, and so is what
\* is shown one poll later.
OutFresh  == age >= 1 => \A i \in Item : out[i] \in {"none", Show(Truth(i))}
PollsFresh == OutFresh /\ ViewFresh

ShutInv == OnlyThePage /\ RunningTests /\ SomeoneToOpen

-----------------------------------------------------------------------------
(* The rig. *)

\* The slots the program names are slots.
LEMMA NamedSlots ==
  /\ ACTIVE_PORT \in Slot /\ ACTIVE_PORT \in RingEnd
  /\ PcPort \in Slot /\ PcPort # ACTIVE_PORT
  /\ RingEnd \subseteq Slot
BY DEF Slot, RingEnd, Switches, RING_PORTS, ACTIVE_PORT, PcPort

\* The requests a page sends name slots of their kind.
LEMMA RequestSlots ==
  ASSUME NEW r \in Offered
  PROVE  /\ r.kind = "port" => r.slot \in Slot
         /\ r.kind # "port" => r.slot \in RingEnd
<1>1. r \in Request
  BY RigAssumption DEF RigAssumption
<1> QED BY <1>1 DEF Request

\* The items are a fixed set.
LEMMA ItemsPolled ==
  /\ Len(PollOrder) \in Nat
  /\ DOMAIN PollOrder = 1..Len(PollOrder)
  /\ \A n \in DOMAIN PollOrder : PollOrder[n] \in Item
BY RigAssumption DEF RigAssumption, Item

\* The steps of the test.
LEMMA NextSteps ==
  /\ DOMAIN AfterStep = {"before", "close", "during", "open"}
  /\ AfterStep["before"] = "close" /\ AfterStep["close"] = "during"
  /\ AfterStep["during"] = "open" /\ AfterStep["open"] = "after"
BY DEF AfterStep

-----------------------------------------------------------------------------
(* Types. *)

\* Writing a flag keeps the types of the rig.
LEMMA WriteTypes ==
  ASSUME TypeOK, NEW slot \in Slot, NEW value \in BOOLEAN, NEW who \in {"page", "test"},
         WriteShutdown(slot, value, who)
  PROVE  /\ shut' \subseteq Slot /\ stp' \subseteq RingEnd
         /\ by' \in [Slot -> {"nobody", "page", "test"}]
BY DEF TypeOK, WriteShutdown

\* A change restarts the count of polls or leaves it.
LEMMA AgingTypes ==
  ASSUME TypeOK, Aging
  PROVE  age' \in 0..2
<1>1. age' = 0 \/ age' = age
  BY DEF Aging
<1> QED BY <1>1 DEF TypeOK

\* A request keeps the types.
LEMMA WorkerTypes ==
  ASSUME TypeOK, NEW w \in Workers, Ask(w) \/ Get(w) \/ Set(w) \/ GiveUp(w)
  PROVE  TypeOK'
<1>1. CASE Ask(w)
  <2>1. PICK r \in Offered :
          req' = IF r.kind = "frer" THEN req
                 ELSE [req EXCEPT ![w] = [step |-> "get", r |-> {r}]]
    BY <1>1 DEF Ask
  <2>2. req' \in [Workers -> [step : {"idle", "get", "set"}, r : SUBSET Offered]]
    BY <2>1 DEF TypeOK
  <2> QED BY <1>1, <2>2 DEF Ask, TypeOK, rig, poll
<1>2. CASE Get(w)
  BY <1>2 DEF Get, TypeOK, rig, poll, count
<1>3. CASE Set(w)
  <2>1. PICK r \in req[w].r :
          IF r.kind = "port" THEN WriteShutdown(r.slot, r.value, "page")
                             ELSE WriteStp(r.slot, r.value)
    BY <1>3 DEF Set
  <2>2. r \in Offered
    BY DEF TypeOK
  <2>3. /\ shut' \subseteq Slot /\ stp' \subseteq RingEnd
        /\ by' \in [Slot -> {"nobody", "page", "test"}]
    <3>1. CASE r.kind = "port"
      <4>1. r.slot \in Slot /\ WriteShutdown(r.slot, r.value, "page")
        BY <2>1, <2>2, <3>1, RequestSlots
      <4> QED BY <4>1 DEF TypeOK, WriteShutdown
    <3>2. CASE r.kind # "port"
      <4>1. r.slot \in RingEnd /\ WriteStp(r.slot, r.value)
        BY <2>1, <2>2, <3>2, RequestSlots
      <4> QED BY <4>1 DEF TypeOK, WriteStp
    <3> QED BY <3>1, <3>2
  <2>4. req' \in [Workers -> [step : {"idle", "get", "set"}, r : SUBSET Offered]]
    BY <1>3 DEF Set, TypeOK
  <2>5. age' \in 0..2
    BY <1>3, AgingTypes DEF Set
  <2> QED BY <1>3, <2>3, <2>4, <2>5 DEF Set, TypeOK, poll, count
<1>4. CASE GiveUp(w)
  BY <1>4 DEF GiveUp, TypeOK, rig, poll, count
<1> QED BY <1>1, <1>2, <1>3, <1>4

\* A step of the failover test keeps the types.
LEMMA TestTypes ==
  ASSUME TypeOK, NEW t \in Tests, Start(t) \/ Watch(t) \/ Change(t) \/ Finish(t) \/ Abort(t)
  PROVE  TypeOK'
<1>1. CASE Start(t)
  BY <1>1, NextSteps DEF Start, TypeOK, rig, poll
<1>2. CASE Watch(t)
  BY <1>2, NextSteps DEF Watch, TypeOK, rig, poll, count
<1>3. CASE Change(t)
  <2>1. /\ shut' \subseteq Slot /\ stp' \subseteq RingEnd
        /\ by' \in [Slot -> {"nobody", "page", "test"}]
    BY <1>3, NamedSlots, WriteTypes DEF Change, Write
  <2>2. age' \in 0..2
    BY <1>3, AgingTypes DEF Change, Write
  <2> QED BY <1>3, <2>1, <2>2, NextSteps DEF Change, Write, TypeOK, poll, count
<1>4. CASE Finish(t)
  BY <1>4 DEF Finish, TypeOK, rig, poll, count
<1>5. CASE Abort(t)
  <2>1. CASE Write(t)
    <3>1. /\ shut' \subseteq Slot /\ stp' \subseteq RingEnd
          /\ by' \in [Slot -> {"nobody", "page", "test"}]
      BY <2>1, NamedSlots, WriteTypes DEF Write
    <3>2. age' \in 0..2
      BY <2>1, AgingTypes DEF Write
    <3> QED BY <1>5, <2>1, <3>1, <3>2 DEF Abort, Write, TypeOK, poll, count
  <2>2. CASE UNCHANGED <<rig, req, poll, age, count>>
    BY <1>5, <2>2 DEF Abort, TypeOK, rig, poll, count
  <2> QED BY <1>5, <2>1, <2>2 DEF Abort
<1> QED BY <1>1, <1>2, <1>3, <1>4, <1>5

\* A step of the poller keeps the types.
LEMMA PollerTypes ==
  ASSUME TypeOK, Poller
  PROVE  TypeOK'
<1>1. CASE Read
  <2>1. pos \in 1..Len(PollOrder) /\ pos' = pos + 1
    BY <1>1, ItemsPolled DEF Read
  <2>2. out' \in [Item -> {"none", "yes", "no"}]
    BY <1>1, ItemsPolled DEF Read, TypeOK, Show
  <2> QED BY <1>1, <2>1, <2>2, ItemsPolled DEF Read, TypeOK, rig, count
<1>2. CASE ErrorAnswer
  BY <1>2, ItemsPolled DEF ErrorAnswer, TypeOK, rig, count
<1>3. CASE Fail
  BY <1>3 DEF Fail, TypeOK, rig, count
<1>4. CASE Publish
  BY <1>4, ItemsPolled DEF Publish, TypeOK, rig, count
<1> QED BY <1>1, <1>2, <1>3, <1>4 DEF Poller

\* The types.
THEOREM RigTypes == Spec => []TypeOK
<1>1. Init => TypeOK
  BY NamedSlots, ItemsPolled, NextSteps DEF Init, TypeOK
<1>2. TypeOK /\ [Next]_vars => TypeOK'
  <2> SUFFICES ASSUME TypeOK, [Next]_vars PROVE TypeOK'
    OBVIOUS
  <2>1. CASE UNCHANGED vars
    BY <2>1 DEF vars, TypeOK, rig, poll, count
  <2>2. CASE Next
    BY <2>2, WorkerTypes, TestTypes, PollerTypes DEF Next
  <2> QED BY <2>1, <2>2
<1> QED BY <1>1, <1>2, PTL DEF Spec

-----------------------------------------------------------------------------
(* Who shut what. *)

\* A flag written by the page, and what it leaves of the others' ports.
LEMMA PageWrites ==
  ASSUME TypeOK, ShutInv, NEW slot \in Slot, NEW value \in BOOLEAN,
         WriteShutdown(slot, value, "page"), UNCHANGED <<test, ended>>
  PROVE  ShutInv'
<1>1. by'[slot] = "page" /\ \A s \in Slot \ {slot} : by'[s] = by[s]
  BY DEF TypeOK, WriteShutdown
<1>2. shut' \subseteq shut \cup {slot}
  BY DEF WriteShutdown
<1>3. OnlyThePage'
  BY <1>1, <1>2 DEF TypeOK, ShutInv, OnlyThePage
<1>4. SomeoneToOpen'
  BY <1>1, <1>2, NamedSlots DEF ShutInv, SomeoneToOpen
<1> QED BY <1>3, <1>4 DEF ShutInv, RunningTests

\* Requests keep it.
LEMMA WorkerShuts ==
  ASSUME TypeOK, ShutInv, NEW w \in Workers, Ask(w) \/ Get(w) \/ Set(w) \/ GiveUp(w)
  PROVE  ShutInv'
<1>1. CASE Ask(w) \/ Get(w) \/ GiveUp(w)
  BY <1>1 DEF Ask, Get, GiveUp, rig, ShutInv, OnlyThePage, RunningTests, SomeoneToOpen
<1>2. CASE Set(w)
  <2>1. PICK r \in req[w].r :
          IF r.kind = "port" THEN WriteShutdown(r.slot, r.value, "page")
                             ELSE WriteStp(r.slot, r.value)
    BY <1>2 DEF Set
  <2>2. r \in Offered
    BY DEF TypeOK
  <2>3. CASE r.kind = "port"
    <3>1. r.slot \in Slot /\ r.value \in BOOLEAN
      <4>1. r \in Request
        BY <2>2, RigAssumption DEF RigAssumption
      <4> QED BY <2>2, <2>3, <4>1, RequestSlots DEF Request
    <3>2. WriteShutdown(r.slot, r.value, "page")
      BY <2>1, <2>3
    <3> QED BY <1>2, <3>1, <3>2, PageWrites DEF Set
  <2>4. CASE r.kind # "port"
    BY <1>2, <2>1, <2>4 DEF Set, WriteStp, ShutInv, OnlyThePage, RunningTests, SomeoneToOpen
  <2> QED BY <2>3, <2>4
<1> QED BY <1>1, <1>2

\* The write of a test that is under way: the port is open, or the test has yet to open
\* it or has failed.
LEMMA TestWrites ==
  ASSUME TypeOK, ShutInv, NEW t \in Tests, test[t] \in {"close", "open"}, Write(t),
         RunningTests',
         ended'[t] = "failed" \/ (ended'[t] = "running" /\ (test[t] = "close" => test'[t] # "after"))
  PROVE  ShutInv'
<1>1. WriteShutdown(ACTIVE_PORT, test[t] = "close", "test")
  BY DEF Write
<1>2. by'[ACTIVE_PORT] = "test" /\ \A s \in Slot \ {ACTIVE_PORT} : by'[s] = by[s]
  BY <1>1, NamedSlots DEF TypeOK, WriteShutdown
<1>3. shut' \subseteq shut \cup {ACTIVE_PORT} /\ (test[t] # "close" => ACTIVE_PORT \notin shut')
  BY <1>1 DEF WriteShutdown
<1>4. OnlyThePage'
  BY <1>2, <1>3 DEF TypeOK, ShutInv, OnlyThePage
<1>5. SomeoneToOpen'
  BY <1>3 DEF SomeoneToOpen
<1> QED BY <1>4, <1>5 DEF ShutInv

\* Steps of a test keep it.
LEMMA TestShuts ==
  ASSUME TypeOK, ShutInv, NEW t \in Tests,
         Start(t) \/ Watch(t) \/ Change(t) \/ Finish(t) \/ Abort(t)
  PROVE  ShutInv'
<1>0. \A u \in Tests \ {t} : test'[u] = test[u] /\ ended'[u] = ended[u]
  BY DEF TypeOK, Start, Watch, Change, Finish, Abort
<1>1. RunningTests'
  <2>1. test'[t] # "idle" <=> ended'[t] = "running"
    <3>1. CASE Start(t) \/ Finish(t) \/ Abort(t)
      BY <3>1 DEF TypeOK, Start, Finish, Abort
    <3>2. CASE Watch(t) \/ Change(t)
      BY <3>2, NextSteps DEF TypeOK, Watch, Change, ShutInv, RunningTests
    <3> QED BY <3>1, <3>2
  <2> QED BY <1>0, <2>1 DEF ShutInv, RunningTests
<1>2. CASE Start(t) \/ Watch(t) \/ Finish(t) \/ (Abort(t) /\ UNCHANGED rig)
  <2>1. UNCHANGED rig
    BY <1>2 DEF Start, Watch, Finish
  <2>2. OnlyThePage'
    BY <2>1 DEF rig, ShutInv, OnlyThePage
  <2>3. SomeoneToOpen'
    <3> SUFFICES ASSUME ACTIVE_PORT \in shut', by'[ACTIVE_PORT] = "test"
                 PROVE  \E u \in Tests :
                          ended'[u] = "failed" \/ (ended'[u] = "running" /\ test'[u] # "after")
      BY DEF SomeoneToOpen
    <3>1. PICK u \in Tests : ended[u] = "failed" \/ (ended[u] = "running" /\ test[u] # "after")
      BY <2>1 DEF rig, ShutInv, SomeoneToOpen
    <3>2. CASE u # t
      BY <1>0, <3>1, <3>2
    <3>3. CASE u = t /\ (Start(t) \/ Abort(t))
      BY <3>3 DEF TypeOK, Start, Abort
    <3>4. CASE u = t /\ Watch(t)
      BY <3>1, <3>4, NextSteps DEF TypeOK, Watch
    <3>5. CASE u = t /\ Finish(t)
      BY <3>1, <3>5 DEF Finish, ShutInv, RunningTests
    <3> QED BY <1>2, <3>2, <3>3, <3>4, <3>5
  <2> QED BY <1>1, <2>2, <2>3 DEF ShutInv
<1>3. CASE Change(t)
  <2>1. test[t] \in {"close", "open"} /\ Write(t) /\ ended'[t] = "running"
    BY <1>3 DEF Change, ShutInv, RunningTests
  <2>2. test[t] = "close" => test'[t] # "after"
    BY <1>3, NextSteps DEF Change, TypeOK
  <2> QED BY <1>1, <2>1, <2>2, TestWrites
<1>4. CASE Abort(t) /\ test[t] \in {"close", "open"} /\ Write(t)
  <2>1. ended'[t] = "failed"
    BY <1>4 DEF Abort, TypeOK
  <2> QED BY <1>1, <1>4, <2>1, TestWrites
<1>5. Abort(t) => UNCHANGED rig \/ (test[t] \in {"close", "open"} /\ Write(t))
  BY DEF Abort
<1> QED BY <1>2, <1>3, <1>4, <1>5

\* The invariant about shut ports.
LEMMA ShutInvariant == Spec => []ShutInv
<1>1. Init => ShutInv
  <2> SUFFICES ASSUME Init PROVE ShutInv
    OBVIOUS
  <2>1. \A s \in shut : s = ACTIVE_PORT /\ by[s] = "test"
    BY NamedSlots DEF Init
  <2>2. OnlyThePage
    BY <2>1 DEF OnlyThePage
  <2>3. RunningTests
    BY DEF Init, RunningTests
  <2>4. SomeoneToOpen
    <3> SUFFICES ASSUME ACTIVE_PORT \in shut
                 PROVE  \E t \in Tests : ended[t] = "failed"
      BY DEF SomeoneToOpen
    <3>1. PICK t \in Tests : TRUE
      BY RigAssumption DEF RigAssumption
    <3>2. ended[t] = "failed"
      BY DEF Init
    <3> QED BY <3>2
  <2> QED BY <2>2, <2>3, <2>4 DEF ShutInv
<1>2. TypeOK /\ ShutInv /\ [Next]_vars => ShutInv'
  <2> SUFFICES ASSUME TypeOK, ShutInv, [Next]_vars PROVE ShutInv'
    OBVIOUS
  <2>1. CASE UNCHANGED vars
    BY <2>1 DEF vars, rig, ShutInv, OnlyThePage, RunningTests, SomeoneToOpen
  <2>2. CASE Poller
    <3>1. UNCHANGED <<rig, test, ended>>
      BY <2>2 DEF Poller, Read, ErrorAnswer, Fail, Publish
    <3> QED BY <3>1 DEF rig, ShutInv, OnlyThePage, RunningTests, SomeoneToOpen
  <2> QED BY <2>1, <2>2, WorkerShuts, TestShuts DEF Next
<1> QED BY <1>1, <1>2, RigTypes, PTL DEF Spec

\* The failover tests by themselves never cut the PC off, however many of them run,
\* overlap or break off.
THEOREM TestsNeverCutOff == Spec => []CutOffByPage
<1>1. OnlyThePage => CutOffByPage
  <2> SUFFICES ASSUME OnlyThePage, ~Reach("switch2") PROVE \E s \in shut : by[s] = "page"
    BY DEF CutOffByPage
  <2>1. PcPort \in shut \/ \E sw \in Switches : <<sw, "Gi 1/2">> \in shut
    BY DEF Reach, RingLinkUp, RING_PORTS
  <2>2. \E s \in shut : s # ACTIVE_PORT
    BY <2>1, NamedSlots DEF ACTIVE_PORT
  <2> QED BY <2>2 DEF OnlyThePage
<1>2. ShutInv => OnlyThePage
  BY DEF ShutInv
<1> QED BY <1>1, <1>2, ShutInvariant, PTL

\* When every test has ended well, the port is open or the page shut it.
THEOREM TestsRestore == Spec => []RestoredWhenDone
<1>1. TypeOK /\ ShutInv => RestoredWhenDone
  BY DEF TypeOK, ShutInv, OnlyThePage, SomeoneToOpen, RestoredWhenDone
<1> QED BY <1>1, RigTypes, ShutInvariant, PTL

-----------------------------------------------------------------------------
(* What the page shows. *)

\* The truth about an item is that of the ports and of spanning tree.
LEMMA SameRigSameTruth ==
  ASSUME UNCHANGED <<shut, stp>>
  PROVE  \A i : Truth(i)' = Truth(i)
BY DEF Truth, RingLinkUp

\* A change that is noted keeps what is shown fresh: either the count starts again or no
\* item changed.
LEMMA AgedFresh ==
  ASSUME PollsFresh, Aging, UNCHANGED poll
  PROVE  PollsFresh'
<1>1. CASE \E i \in Item : Truth(i)' # Truth(i)
  BY <1>1 DEF Aging, PollsFresh, OutFresh, ViewFresh
<1>2. CASE \A i \in Item : Truth(i)' = Truth(i)
  BY <1>2 DEF Aging, PollsFresh, OutFresh, ViewFresh, poll
<1> QED BY <1>1, <1>2

\* A step that leaves the rig alone.
LEMMA StillFresh ==
  ASSUME PollsFresh, UNCHANGED <<rig, poll, age>>
  PROVE  PollsFresh'
BY SameRigSameTruth DEF rig, poll, PollsFresh, OutFresh, ViewFresh

\* Neither requests nor tests make an old value appear.
LEMMA OthersFresh ==
  ASSUME PollsFresh,
         \/ \E w \in Workers : Ask(w) \/ Get(w) \/ Set(w) \/ GiveUp(w)
         \/ \E t \in Tests : Start(t) \/ Watch(t) \/ Change(t) \/ Finish(t) \/ Abort(t)
  PROVE  PollsFresh'
<1>1. \/ Aging /\ UNCHANGED poll
      \/ UNCHANGED <<rig, poll, age>>
  <2>1. CASE \E w \in Workers : Ask(w) \/ Get(w) \/ Set(w) \/ GiveUp(w)
    BY <2>1 DEF Ask, Get, Set, GiveUp
  <2>2. CASE \E t \in Tests : Start(t) \/ Watch(t) \/ Change(t) \/ Finish(t) \/ Abort(t)
    BY <2>2 DEF Start, Watch, Change, Finish, Abort, Write
  <2> QED BY <2>1, <2>2
<1> QED BY <1>1, AgedFresh, StillFresh

\* A poll reads the truth, and puts up only what it read itself.
LEMMA PollerFresh ==
  ASSUME TypeOK, PollsFresh, Poller
  PROVE  PollsFresh'
<1>0. \A i : Truth(i)' = Truth(i)
  BY SameRigSameTruth DEF Poller, Read, ErrorAnswer, Fail, Publish, rig
<1>1. CASE Read
  BY <1>0, <1>1 DEF Read, TypeOK, PollsFresh, OutFresh, ViewFresh
<1>2. CASE ErrorAnswer \/ Fail
  BY <1>0, <1>2 DEF ErrorAnswer, Fail, PollsFresh, OutFresh, ViewFresh
<1>3. CASE Publish
  <2>1. age' = 2 => age >= 1
    BY <1>3 DEF Publish, TypeOK
  <2> QED BY <1>0, <1>3, <2>1 DEF Publish, PollsFresh, OutFresh, ViewFresh
<1> QED BY <1>1, <1>2, <1>3 DEF Poller

\* Two polls after a change the page shows nothing older than it.
THEOREM PageFresh == Spec => []ViewFresh
<1>1. Init => PollsFresh
  BY DEF Init, PollsFresh, OutFresh, ViewFresh
<1>2. TypeOK /\ PollsFresh /\ [Next]_vars => PollsFresh'
  <2> SUFFICES ASSUME TypeOK, PollsFresh, [Next]_vars PROVE PollsFresh'
    OBVIOUS
  <2>1. CASE UNCHANGED vars
    BY <2>1, StillFresh DEF vars
  <2>2. CASE Poller
    BY <2>2, PollerFresh
  <2> QED BY <2>1, <2>2, OthersFresh DEF Next
<1>3. PollsFresh => ViewFresh
  BY DEF PollsFresh
<1> QED BY <1>1, <1>2, <1>3, RigTypes, PTL DEF Spec

=============================================================================
