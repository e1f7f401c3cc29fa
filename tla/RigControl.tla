------------------------------ MODULE RigControl ------------------------------
(***************************************************************************)
(* Who changes the switches by hand, and who shows them: the endpoints of  *)
(* pc/webapp/server.py that shut a port or turn spanning tree on and off,  *)
(* the failover test (pc/redundancy_failover_test.py) that shuts a ring    *)
(* link and opens it again, and the poller of the dashboard, which reads   *)
(* both switches call by call and puts up what it read in one piece.       *)
(*                                                                         *)
(* Every call travels through the ports it may have shut: a call to a      *)
(* switch that is cut off fails, and one that cuts its own way takes       *)
(* effect with its answer lost.                                            *)
(***************************************************************************)
EXTENDS Integers, Sequences

CONSTANTS
  BoardPorts,   \* the ports of switch2 the boards hang off
  Workers,      \* threads that serve requests
  Offered,      \* the requests the page may send
  PollOrder,    \* the items the poller reads, in its order, switch1 first
  MaxRequests,  \* bound on the requests
  Tests,        \* processes that run the failover test
  MaxTests      \* bound on the runs of the test

Switches   == {"switch1", "switch2"}
RING_PORTS == {"Gi 1/1", "Gi 1/2"}
RingEnd    == Switches \X RING_PORTS
PcPort     == <<"switch1", "Gi 1/6">>
Slot       == RingEnd \cup {PcPort} \cup {<<"switch2", p>> : p \in BoardPorts}

\* Shut or open a port, switch spanning tree of a ring end, activate a FRER instance.
Request == [kind : {"port"}, slot : Slot, value : BOOLEAN]
             \cup [kind : {"stp", "frer"}, slot : RingEnd, value : BOOLEAN]

\* The port of switch2 the failover test shuts.
ACTIVE_PORT == <<"switch2", "Gi 1/1">>

\* What the poller can read of a switch: the link of a port, whether spanning tree is on,
\* and whether an instance of FRER has counters.
Readable == ({"link"} \X Slot) \cup ({"stp", "frer"} \X RingEnd)

\* What it does read.
Item == {PollOrder[n] : n \in DOMAIN PollOrder}

ASSUME RigAssumption ==
  /\ Offered \subseteq Request
  /\ PollOrder \in Seq(Readable)
  /\ Tests # {}
  /\ MaxRequests \in Nat
  /\ MaxTests \in Nat

VARIABLES
  shut,      \* the ports that are shut
  stp,       \* the ring ends with spanning tree on
  by,        \* history: who wrote the shutdown flag of each port last
  req,       \* what each worker is doing
  test,      \* where each failover test stands
  ended,     \* how its last run ended
  pos,       \* the item the poller reads next
  out,       \* what this poll has read so far
  up,        \* the switches this poll has not found unreachable
  view,      \* what the page shows of each item
  viewUp,    \* the switches it shows as reachable
  age,       \* history: polls put up since an item last changed, up to 2
  requests, tests  \* history: requests sent, tests started

rig   == <<shut, stp, by>>
poll  == <<pos, out, up, view, viewUp>>
count == <<requests, tests>>
vars  == <<rig, req, test, ended, poll, age, count>>

-----------------------------------------------------------------------------
(* The rig. *)

RingLinkUp(p) == \A sw \in Switches : <<sw, p>> \notin shut

\* The PC reaches switch2 through switch1 and a ring link; spanning tree sees to it
\* that one link forwards.
Reach(sw) ==
  /\ PcPort \notin shut
  /\ sw = "switch2" => \E p \in RING_PORTS : RingLinkUp(p)

\* What a call for an item answers.
Truth(i) ==
  IF i[1] = "stp" THEN i[2] \in stp
  ELSE IF i[1] = "frer" THEN TRUE
  ELSE IF i[2] \in RingEnd THEN RingLinkUp(i[2][2]) ELSE i[2] \notin shut

\* A change of an item is noted.
Aging == age' = IF \E i \in Item : Truth(i)' # Truth(i) THEN 0 ELSE age

\* Every port is open, but for the one an earlier test may have left shut.
Init ==
  /\ shut \in {{}, {ACTIVE_PORT}}
  /\ stp = RingEnd
  /\ by = [s \in Slot |-> IF s \in shut THEN "test" ELSE "nobody"]
  /\ req = [w \in Workers |-> [step |-> "idle", r |-> {}]]
  /\ test = [t \in Tests |-> "idle"]
  /\ ended = [t \in Tests |-> IF shut = {} THEN "none" ELSE "failed"]
  /\ pos = 1
  /\ out = [i \in Item |-> "none"]
  /\ up = Switches
  /\ view = [i \in Item |-> "none"]
  /\ viewUp = {}
  /\ age = 0
  /\ requests = 0
  /\ tests = 0

-----------------------------------------------------------------------------
(* Requests of the page. *)

\* A worker takes up a request.  The endpoint of FRER names an instance that is not
\* defined, and raises before its first call.
Ask(w) ==
  /\ req[w].step = "idle"
  /\ requests < MaxRequests
  /\ requests' = requests + 1
  /\ \E r \in Offered :
       req' = IF r.kind = "frer" THEN req ELSE [req EXCEPT ![w] = [step |-> "get", r |-> {r}]]
  /\ UNCHANGED <<rig, test, ended, poll, age, tests>>

\* The configuration is read.
Get(w) ==
  /\ req[w].step = "get"
  /\ \E r \in req[w].r : Reach(r.slot[1])
  /\ req' = [req EXCEPT ![w] = [step |-> "set", r |-> req[w].r]]
  /\ UNCHANGED <<rig, test, ended, poll, age, count>>

\* The shutdown flag of a port is written, by the page or by a test.
WriteShutdown(slot, value, who) ==
  /\ shut' = IF value THEN shut \cup {slot} ELSE shut \ {slot}
  /\ by' = [by EXCEPT ![slot] = who]
  /\ UNCHANGED stp

WriteStp(slot, value) ==
  /\ stp' = IF value THEN stp \cup {slot} ELSE stp \ {slot}
  /\ UNCHANGED <<shut, by>>

\* It is written back; the request is over, with or without the answer.
Set(w) ==
  /\ req[w].step = "set"
  /\ \E r \in req[w].r :
       /\ Reach(r.slot[1])
       /\ IF r.kind = "port" THEN WriteShutdown(r.slot, r.value, "page")
                             ELSE WriteStp(r.slot, r.value)
  /\ req' = [req EXCEPT ![w] = [step |-> "idle", r |-> {}]]
  /\ Aging
  /\ UNCHANGED <<test, ended, poll, count>>

\* rpc() raises, and the page gets a 500.
GiveUp(w) ==
  /\ req[w].step # "idle"
  /\ req' = [req EXCEPT ![w] = [step |-> "idle", r |-> {}]]
  /\ UNCHANGED <<rig, test, ended, poll, age, count>>

-----------------------------------------------------------------------------
(* The failover test. *)

\* Its steps in order: watch, shut the port, watch, open it, watch.
AfterStep == [before |-> "close", close |-> "during", during |-> "open", open |-> "after"]

Start(t) ==
  /\ test[t] = "idle"
  /\ tests < MaxTests
  /\ tests' = tests + 1
  /\ test' = [test EXCEPT ![t] = "before"]
  /\ ended' = [ended EXCEPT ![t] = "running"]
  /\ UNCHANGED <<rig, req, poll, age, requests>>

\* A watch is over, and the configuration of the port has been read.
Watch(t) ==
  /\ test[t] \in {"before", "during"}
  /\ Reach("switch2")
  /\ test' = [test EXCEPT ![t] = AfterStep[test[t]]]
  /\ UNCHANGED <<rig, req, ended, poll, age, count>>

\* MUTANT: the test shuts a ring link that is up instead of a fixed one.
ShutsAnOpenLink(t) ==
  /\ Reach("switch2")
  /\ \E p \in RING_PORTS :
       /\ test[t] = "close" => RingLinkUp(p)
       /\ WriteShutdown(<<"switch2", p>>, test[t] = "close", "test")
  /\ Aging
  /\ UNCHANGED <<req, poll, count>>

\* MUTANT: the test turns the flag over instead of writing what it wants.
Toggles(t) ==
  /\ Reach("switch2")
  /\ WriteShutdown(ACTIVE_PORT, ACTIVE_PORT \notin shut, "test")
  /\ Aging
  /\ UNCHANGED <<req, poll, count>>

\* port.config.set reaches the switch.
Write(t) ==
  /\ Reach("switch2")
  /\ WriteShutdown(ACTIVE_PORT, test[t] = "close", "test")
  /\ Aging
  /\ UNCHANGED <<req, poll, count>>

\* set_port_shutdown() of the test: with the answer the test goes on.
Change(t) ==
  /\ test[t] \in {"close", "open"}
  /\ Write(t)
  /\ Reach("switch2")'
  /\ test' = [test EXCEPT ![t] = AfterStep[test[t]]]
  /\ UNCHANGED ended

Finish(t) ==
  /\ test[t] = "after"
  /\ test' = [test EXCEPT ![t] = "idle"]
  /\ ended' = [ended EXCEPT ![t] = "ok"]
  /\ UNCHANGED <<rig, req, poll, age, count>>

\* A call or a zenoh session fails, before or after the switch acted: nothing is undone.
Abort(t) ==
  /\ test[t] # "idle"
  /\ \/ test[t] \in {"close", "open"} /\ Write(t)
     \/ UNCHANGED <<rig, req, poll, age, count>>
  /\ test' = [test EXCEPT ![t] = "idle"]
  /\ ended' = [ended EXCEPT ![t] = "failed"]

-----------------------------------------------------------------------------
(* The poller. *)

ItemSwitch(i) == i[2][1]

Show(b) == IF b THEN "yes" ELSE "no"

\* A call answers; an error answered for anything but a link leaves the item out.
Read ==
  /\ pos \in DOMAIN PollOrder
  /\ LET i == PollOrder[pos] IN
     /\ Reach(ItemSwitch(i))
     /\ out' = [out EXCEPT ![i] = Show(Truth(i))]
  /\ pos' = pos + 1
  /\ UNCHANGED <<rig, req, test, ended, up, view, viewUp, age, count>>

ErrorAnswer ==
  /\ pos \in DOMAIN PollOrder
  /\ LET i == PollOrder[pos] IN Reach(ItemSwitch(i)) /\ i[1] # "link"
  /\ pos' = pos + 1
  /\ UNCHANGED <<rig, req, test, ended, out, up, view, viewUp, age, count>>

\* MUTANT: a switch that fails keeps the poller trying.
FailTriesAgain ==
  /\ pos \in DOMAIN PollOrder
  /\ up' = up \ {ItemSwitch(PollOrder[pos])}
  /\ UNCHANGED <<pos, rig, req, test, ended, out, view, viewUp, age, count>>

\* MUTANT: the poller's thread dies with the exception.
FailKills ==
  /\ pos \in DOMAIN PollOrder
  /\ pos' = 0
  /\ up' = up \ {ItemSwitch(PollOrder[pos])}
  /\ UNCHANGED <<rig, req, test, ended, out, view, viewUp, age, count>>

\* A call fails (or the link of a port is answered with an error): the poll of this
\* switch is over, what it has read so far is kept.
Fail ==
  /\ pos \in DOMAIN PollOrder
  /\ up' = up \ {ItemSwitch(PollOrder[pos])}
  /\ \E n \in 1..(Len(PollOrder) + 1) :
       /\ n > pos
       /\ \A k \in pos..(n - 1) : ItemSwitch(PollOrder[k]) = ItemSwitch(PollOrder[pos])
       /\ n \in DOMAIN PollOrder => ItemSwitch(PollOrder[n]) # ItemSwitch(PollOrder[pos])
       /\ pos' = n
  /\ UNCHANGED <<rig, req, test, ended, out, view, viewUp, age, count>>

\* MUTANT: an item that was not read keeps what was shown before.
PublishMerged ==
  /\ pos = Len(PollOrder) + 1
  /\ view' = [i \in Item |-> IF out[i] = "none" THEN view[i] ELSE out[i]]
  /\ viewUp' = up
  /\ pos' = 1
  /\ out' = [i \in Item |-> "none"]
  /\ up' = Switches
  /\ age' = IF age < 2 THEN age + 1 ELSE 2
  /\ UNCHANGED <<rig, req, test, ended, count>>

\* Both halves are put up under the lock, and a second later the next poll begins.
Publish ==
  /\ pos = Len(PollOrder) + 1
  /\ view' = out
  /\ viewUp' = up
  /\ pos' = 1
  /\ out' = [i \in Item |-> "none"]
  /\ up' = Switches
  /\ age' = IF age < 2 THEN age + 1 ELSE 2
  /\ UNCHANGED <<rig, req, test, ended, count>>

Poller == Read \/ ErrorAnswer \/ Fail \/ Publish

Next ==
  \/ \E w \in Workers : Ask(w) \/ Get(w) \/ Set(w) \/ GiveUp(w)
  \/ \E t \in Tests : Start(t) \/ Watch(t) \/ Change(t) \/ Finish(t) \/ Abort(t)
  \/ Poller

Spec == Init /\ [][Next]_vars

\* The poller's thread runs on, and a call that can be answered is not failed for ever.
FairSpec ==
  /\ Spec
  /\ WF_vars(Poller)
  /\ \A n \in DOMAIN PollOrder : SF_vars(pos = n /\ Read)

-----------------------------------------------------------------------------
\* The types.
TypeOK ==
  /\ shut \subseteq Slot
  /\ stp \subseteq RingEnd
  /\ by \in [Slot -> {"nobody", "page", "test"}]
  /\ req \in [Workers -> [step : {"idle", "get", "set"}, r : SUBSET Offered]]
  /\ test \in [Tests -> DOMAIN AfterStep \cup {"idle", "after"}]
  /\ ended \in [Tests -> {"none", "running", "ok", "failed"}]
  /\ pos \in 1..(Len(PollOrder) + 1)
  /\ out \in [Item -> {"none", "yes", "no"}]
  /\ view \in [Item -> {"none", "yes", "no"}]
  /\ up \subseteq Switches /\ viewUp \subseteq Switches
  /\ age \in 0..2
  /\ requests \in Nat /\ tests \in Nat

\* "remotely reversible": the failover tests alone, repeated, overlapping or broken off
\* anywhere, never cut the PC off; if it is cut off, the page shut a port that still is.
CutOffByPage ==
  ~Reach("switch2") => \E s \in shut : by[s] = "page"

\* When the last run of every test ended well the port is open again, unless the page
\* had the last word on it.
RestoredWhenDone ==
  (\A t \in Tests : ended[t] \in {"none", "ok"}) /\ ACTIVE_PORT \in shut
    => by[ACTIVE_PORT] = "page"

\* What the page shows is true, or something changed since the poll before last was put
\* up: a poll that fails half way shows less, never what an older poll had read.
ViewFresh ==
  age = 2 => \A i \in Item : view[i] \in {"none", Show(Truth(i))}

\* The page shows a switch as it is.
ViewExact(sw) ==
  IF Reach(sw)
  THEN /\ sw \in viewUp
       /\ \A n \in DOMAIN PollOrder :
            ItemSwitch(PollOrder[n]) = sw => view[PollOrder[n]] = Show(Truth(PollOrder[n]))
  ELSE sw \notin viewUp

\* However polls fail, the page comes to show the switches as they are, also when one
\* has been cut off, and also after that.
ViewConverges == \A sw \in Switches : []<>ViewExact(sw)

=============================================================================
