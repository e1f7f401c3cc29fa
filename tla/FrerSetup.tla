------------------------------ MODULE FrerSetup ------------------------------
(***************************************************************************)
(* pc/frer_setup.py: the script that turns the two D10 switches into a     *)
(* FRER ring, as the sequence of JSON-RPC calls it makes, and the switch   *)
(* configuration those calls build.  A call may fail with or without having*)
(* taken effect (the 6 s timeout runs out on the answer), and ends the     *)
(* script there; nothing is undone.  A quiet call that the switch answers  *)
(* with an error had no effect, and the script goes on regardless.  The    *)
(* dashboard starts the script again at any time, also while another one   *)
(* runs (POST /api/frer/reapply).                                          *)
(*                                                                         *)
(* Streams and instances are named by the end of the flow they serve, a    *)
(* MAC by its owner.  What the switch does with its configuration is       *)
(* external: it is taken from the notes at the head of the script.         *)
(***************************************************************************)
EXTENDS Integers, Sequences, FiniteSets, SequencesExt

CONSTANTS
  BOARDS,     \* the boards, in the order of the table
  Port,       \* Port[b]: the port of switch2 board b hangs off
  UpVlan,     \* UpVlan[b]: the FRER VLAN of b's flow to the PC
  DOWN_VLAN,  \* the FRER VLAN of all flows from the PC
  Leftovers,  \* what earlier attempts may have left: sets of ends
  Scripts,    \* processes that run the script
  MaxRuns,    \* bound on the runs started
  MaxRefused  \* bound on classifiers left with the old key by refused detaches, at a time

Board == ToSet(BOARDS)

SWITCHES   == <<"switch1", "switch2">>
RING_PORTS == <<"Gi 1/1", "Gi 1/2">>
PC_PORT_SW1 == "Gi 1/6"

\* What the table keeps to: each board once, on a port of its own that is not a ring port.
ASSUME TableAssumption ==
  /\ BOARDS \in Seq(Board) /\ IsInjective(BOARDS)
  /\ IsInjective(Port) /\ DOMAIN Port = Board
  /\ \A b \in Board : Port[b] \notin ToSet(RING_PORTS)
  /\ UpVlan \in [Board -> Int \ {1}]
  /\ DOWN_VLAN \in Int \ {1}
  /\ MaxRuns \in Nat
  /\ MaxRefused \in Nat

ALL_VLANS  == {DOWN_VLAN} \cup {UpVlan[b] : b \in Board}

RingSlot  == ToSet(SWITCHES) \X ToSet(RING_PORTS)
BoardSlot == {<<"switch2", Port[b]>> : b \in Board}
Slot      == RingSlot \cup BoardSlot \cup {<<"switch1", PC_PORT_SW1>>}

\* A flow is <<b, "down">> or <<b, "up">>; it has a generation and a recovery end.
End == Board \X {"down", "up"} \X {"gen", "rec"}

ASSUME LeftoversAssumption == \A leftover \in Leftovers : leftover \subseteq End

EndSwitch(e) == IF (e[2] = "down") = (e[3] = "rec") THEN "switch2" ELSE "switch1"
EndPorts(e)  == IF e[3] = "rec" THEN RING_PORTS
                ELSE IF e[2] = "down" THEN <<PC_PORT_SW1>> ELSE <<Port[e[1]]>>
FlowVlan(b, d) == IF d = "down" THEN DOWN_VLAN ELSE UpVlan[b]

-----------------------------------------------------------------------------
(* The calls of main(), in order. *)

Call(method, sw, on, arg) == [method |-> method, sw |-> sw, on |-> on, arg |-> arg]

set_matching(sw, p) == <<Call("vcl_cfg.get", sw, p, {}), Call("vcl_cfg.set", sw, p, {})>>
set_vlan(sw, p, change) == <<Call("vlan.get", sw, p, {}), Call("vlan.set", sw, p, change)>>
disable_stp(sw, p) == <<Call("cist.get", sw, p, {}), Call("cist.set", sw, p, {})>>

\* MUTANT: attach without detaching first.
AttachOnly(e, p) == <<Call("attach", EndSwitch(e), p, e)>>

\* Re-attach rather than assume; the del is quiet.
attach_stream(e, p) == <<Call("detach", EndSwitch(e), p, e), Call("attach", EndSwitch(e), p, e)>>

put_stream(e) == <<Call("stream.add", EndSwitch(e), e, {}), Call("stream.set", EndSwitch(e), e, {})>>
put_frer(e)   == <<Call("frer.add", EndSwitch(e), e, {}), Call("frer.set", EndSwitch(e), e, {})>>

Each(seq, Op(_)) == FlattenSeq([i \in DOMAIN seq |-> Op(seq[i])])

\* One end of a flow: its stream, the classifiers on its ports, its instance.
Install(e) ==
  put_stream(e) \o Each(EndPorts(e), LAMBDA p : attach_stream(e, p)) \o put_frer(e)

\* MUTANT: generation first.
FlowGenerationFirst(b, d) == Install(<<b, d, "gen">>) \o Install(<<b, d, "rec">>)

\* Recovery goes in first, every time.
Flow(b, d) == Install(<<b, d, "rec">>) \o Install(<<b, d, "gen">>)

\* keep: the VLANs the port already carries stay; native 0: left alone.
VlanChange(add, tagging, native, keep) ==
  [add |-> add, tagging |-> tagging, native |-> native, keep |-> keep]

\* MUTANT: a FRER VLAN as the native VLAN of the ring ports (note 3).
RingPartNativeFrer ==
  Each(SWITCHES, LAMBDA sw : Each(RING_PORTS, LAMBDA p :
    set_matching(sw, p) \o set_vlan(sw, p, VlanChange(ALL_VLANS, "tagAll", DOWN_VLAN, TRUE))
      \o disable_stp(sw, p)))

\* MUTANT: the VLANs added board by board.
RingPartByBoard ==
  Each(SWITCHES, LAMBDA sw : Each(RING_PORTS, LAMBDA p :
    set_matching(sw, p)
      \o Each(BOARDS, LAMBDA b :
           set_vlan(sw, p, VlanChange({DOWN_VLAN, UpVlan[b]}, "tagAll", 1, TRUE)))
      \o disable_stp(sw, p)))

RingPart ==
  Each(SWITCHES, LAMBDA sw : Each(RING_PORTS, LAMBDA p :
    set_matching(sw, p) \o set_vlan(sw, p, VlanChange(ALL_VLANS, "tagAll", 1, TRUE))
      \o disable_stp(sw, p)))

EdgePart ==
  set_matching("switch1", PC_PORT_SW1)
  \o set_vlan("switch1", PC_PORT_SW1, VlanChange({1} \cup ALL_VLANS, "untagAll", 0, TRUE))
  \o Each(BOARDS, LAMBDA b :
       set_matching("switch2", Port[b])
       \o set_vlan("switch2", Port[b],
                   VlanChange({1, DOWN_VLAN, UpVlan[b]}, "untagAll", 0, FALSE)))

sorted(S) == [i \in 1..Cardinality(S) |-> CHOOSE v \in S : Cardinality({u \in S : u <= v}) = i]

VlanPart ==
  Each(SWITCHES, LAMBDA sw : Each(sorted(ALL_VLANS), LAMBDA v :
    <<Call("flooding.set", sw, v, {}), Call("learn.set", sw, v, {})>>))

FlowPart == Each(BOARDS, LAMBDA b : Flow(b, "down") \o Flow(b, "up"))

DeliveryPart ==
  Each(BOARDS, LAMBDA b :
    <<Call("fdb.add", "switch2", b, "down"), Call("fdb.add", "switch1", b, "up")>>)

main == RingPart \o EdgePart \o VlanPart \o FlowPart \o DeliveryPart

-----------------------------------------------------------------------------
(* What a call does to the configuration. *)

\* The static entry that delivers the recovered frames of a flow.
Delivery(b, d) ==
  IF d = "down" THEN <<"switch2", DOWN_VLAN, b, Port[b]>>
                ELSE <<"switch1", UpVlan[b], "pc", PC_PORT_SW1>>

\* What a get answers with.
Answer(call, c) ==
  CASE call.method = "vcl_cfg.get" -> {c.matching[<<call.sw, call.on>>]}
    [] call.method = "vlan.get"    -> {c.vlan[<<call.sw, call.on>>]}
    [] call.method = "cist.get"    -> {c.stp[<<call.sw, call.on>>]}
    [] OTHER                       -> {}

Merged(old, change) ==
  [vlans   |-> change.add \cup (IF change.keep THEN old.vlans ELSE {}),
   tagging |-> change.tagging,
   native  |-> IF change.native = 0 THEN old.native ELSE change.native]

\* A classifier keeps the key of the matching mode its port had when it was
\* attached; attaching what is attached changes nothing.
Attached(c, sw, p, e) ==
  IF \E k \in {"default", "dmac_dip"} : <<sw, p, e, k>> \in c.attached
  THEN c.attached
  ELSE c.attached \cup {<<sw, p, e, c.matching[<<sw, p>>]>>}

\* The configuration after a call; got is what the get before it answered.
Effect(call, c, got) ==
  LET at == <<call.sw, call.on>>
      m  == call.method
  IN [matching  |-> IF m = "vcl_cfg.set" /\ got # {"dmac_dip"}
                    THEN [c.matching EXCEPT ![at] = "dmac_dip"] ELSE c.matching,
      vlan      |-> IF m = "vlan.set"
                    THEN [c.vlan EXCEPT ![at] = Merged(CHOOSE old \in got : TRUE, call.arg)]
                    ELSE c.vlan,
      stp       |-> IF m = "cist.set" /\ got # {FALSE}
                    THEN [c.stp EXCEPT ![at] = FALSE] ELSE c.stp,
      flooding  |-> IF m = "flooding.set" THEN c.flooding \cup {at} ELSE c.flooding,
      unlearned |-> IF m = "learn.set" THEN c.unlearned \cup {at} ELSE c.unlearned,
      streams   |-> IF m \in {"stream.add", "stream.set"}
                    THEN c.streams \cup {call.on} ELSE c.streams,
      attached  |-> IF m = "detach"
                    THEN c.attached \ {<<call.sw, call.on, call.arg, k>> : k \in {"default", "dmac_dip"}}
                    ELSE IF m = "attach" THEN Attached(c, call.sw, call.on, call.arg)
                    ELSE c.attached,
      instances |-> IF m \in {"frer.add", "frer.set"}
                    THEN c.instances \cup {call.on} ELSE c.instances,
      fdb       |-> IF m = "fdb.add"
                    THEN c.fdb \cup {Delivery(call.on, call.arg)} ELSE c.fdb]

VARIABLES
  conf,     \* the running configuration of both switches
  pc,       \* pc[s]: the call script s makes next, 0 when it is not running
  read,     \* read[s]: what its last get answered
  result,   \* result[s]: how its last run ended
  refused,  \* history: classifiers that still have the old key because the switch refused
            \* the last detach of them
  runs      \* history: runs started

vars == <<conf, pc, read, result, refused, runs>>

\* As shipped: every matching mode at its default, spanning tree on, the ring and
\* the PC in VLAN 1, board ports in every VLAN.
Shipped(leftover) ==
  [matching  |-> [x \in Slot |-> "default"],
   vlan      |-> [x \in Slot |-> [vlans |-> {1} \cup (IF x \in BoardSlot THEN ALL_VLANS ELSE {}),
                                  tagging |-> "untagThis", native |-> 1]],
   stp       |-> [x \in RingSlot |-> TRUE],
   flooding  |-> {},
   unlearned |-> {},
   streams   |-> leftover,
   attached  |-> UNION {{<<EndSwitch(e), p, e, "default">> : p \in ToSet(EndPorts(e))} :
                          e \in leftover},
   instances |-> leftover,
   fdb       |-> {}]

\* With the streams and instances an earlier attempt may have left, their classifiers
\* attached before the ports' matching mode was corrected.
Init ==
  /\ \E leftover \in Leftovers : conf = Shipped(leftover)
  /\ pc = [s \in Scripts |-> 0]
  /\ read = [s \in Scripts |-> {}]
  /\ result = [s \in Scripts |-> "none"]
  /\ refused = {}
  /\ runs = 0

Start(s) ==
  /\ pc[s] = 0
  /\ runs < MaxRuns
  /\ runs' = runs + 1
  /\ pc' = [pc EXCEPT ![s] = 1]
  /\ result' = [result EXCEPT ![s] = "running"]
  /\ UNCHANGED <<conf, read, refused>>

\* The script goes on to its next call, or ends well.
GoOn(s) ==
  IF pc[s] = Len(main)
  THEN pc' = [pc EXCEPT ![s] = 0] /\ result' = [result EXCEPT ![s] = "ok"]
  ELSE pc' = [pc EXCEPT ![s] = @ + 1] /\ UNCHANGED result

\* rpc() returns a result.  The set_matching and disable_stp that find nothing to change
\* make no call.
Proceed(s) ==
  /\ pc[s] # 0
  /\ conf' = Effect(main[pc[s]], conf, read[s])
  /\ read' = [read EXCEPT ![s] = Answer(main[pc[s]], conf)]
  /\ refused' = refused \cap conf'.attached
  /\ GoOn(s)
  /\ UNCHANGED runs

\* The classifier a call is about, as attached before the matching mode was corrected.
OldKey(call) == <<call.sw, call.on, call.arg, "default">>

\* The switch answers a quiet call with an error: it did nothing, and rpc() returns None.
Swallow(s) ==
  /\ pc[s] # 0
  /\ main[pc[s]].method \in {"stream.add", "detach", "frer.add"}
  /\ read' = [read EXCEPT ![s] = {}]
  /\ refused' = (IF main[pc[s]].method = "detach" THEN refused \cup {OldKey(main[pc[s]])}
                                                  ELSE refused) \cap conf.attached
  /\ Cardinality(refused') <= MaxRefused
  /\ GoOn(s)
  /\ UNCHANGED <<conf, runs>>

\* rpc() raises: the switch answers with an error, unless the call is quiet, or no answer
\* comes, before or after the switch acted.  Or the process is killed (reapply gives it 60 s).
Abort(s) ==
  /\ pc[s] # 0
  /\ conf' \in {conf, Effect(main[pc[s]], conf, read[s])}
  /\ pc' = [pc EXCEPT ![s] = 0]
  /\ read' = [read EXCEPT ![s] = {}]
  /\ result' = [result EXCEPT ![s] = "failed"]
  /\ refused' = refused \cap conf'.attached
  /\ UNCHANGED runs

Next == \E s \in Scripts : Start(s) \/ Proceed(s) \/ Swallow(s) \/ Abort(s)

Spec == Init /\ [][Next]_vars

-----------------------------------------------------------------------------
\* Types; no port ever has a native VLAN other than 1, so untagged probes stay out
\* of the FRER VLANs.
TypeOK ==
  /\ conf.matching \in [Slot -> {"default", "dmac_dip"}]
  /\ \A x \in Slot : /\ conf.vlan[x].vlans \subseteq {1} \cup ALL_VLANS
                     /\ conf.vlan[x].tagging \in {"untagThis", "tagAll", "untagAll"}
                     /\ conf.vlan[x].native = 1
  /\ conf.stp \in [RingSlot -> BOOLEAN]
  /\ conf.flooding \cup conf.unlearned \subseteq ToSet(SWITCHES) \X ALL_VLANS
  /\ conf.streams \cup conf.instances \subseteq End
  /\ refused \subseteq conf.attached
  /\ conf.fdb \subseteq {Delivery(b, d) : b \in Board, d \in {"down", "up"}}
  /\ pc \in [Scripts -> 0..Len(main)]
  /\ \A s \in Scripts : result[s] = "running" <=> pc[s] # 0

\* The end takes frames into the FRER pipeline, but for those of the classifiers in X.
LiveBut(e, X) ==
  /\ e \in conf.streams
  /\ e \in conf.instances
  /\ \A p \in ToSet(EndPorts(e)) : \/ <<EndSwitch(e), p, e, "dmac_dip">> \in conf.attached
                                 \/ <<EndSwitch(e), p, e, "default">> \in X

Live(e) == LiveBut(e, {})

\* Both copies of the flow's frames reach the recovery end with the tag it matches.
Carried(b, d) ==
  \A x \in RingSlot : /\ FlowVlan(b, d) \in conf.vlan[x].vlans
                      /\ conf.vlan[x].tagging = "tagAll"

\* Flows whose generation end is live while something of the recovery end is missing, other than
\* a classifier the switch refused to detach: the frames it floods are absorbed by nothing.
Unabsorbed ==
  {f \in Board \X {"down", "up"} :
     /\ Live(<<f[1], f[2], "gen">>)
     /\ ~(LiveBut(<<f[1], f[2], "rec">>, refused) /\ Carried(f[1], f[2]))}

\* "Recovery goes in FIRST, every time": the first run never floods a flow, wherever it is
\* broken off.  Every later one takes the recovery of one flow at a time out of the live
\* configuration (attach_stream), so each run, broken off or overlapping, leaves one at most.
\* Beyond that a flow is flooded only for a recovery classifier with the old key, of which the
\* switch refused the last detach: the script swallows the refusal and goes on to the generation.
UnabsorbedBound == Cardinality(Unabsorbed) <= IF runs = 0 THEN 0 ELSE runs - 1

\* Everything the script sets up for a flow, from the board's port round both sides of the ring
\* to the PC's, but for the classifiers in X.
ServedBut(b, d, X) ==
  /\ LiveBut(<<b, d, "gen">>, X)
  /\ LiveBut(<<b, d, "rec">>, X)
  /\ Carried(b, d)
  /\ Delivery(b, d) \in conf.fdb
  /\ \A x \in {<<"switch2", Port[b]>>, <<"switch1", PC_PORT_SW1>>} :
       /\ FlowVlan(b, d) \in conf.vlan[x].vlans
       /\ conf.vlan[x].tagging = "untagAll"
  /\ ToSet(SWITCHES) \X {FlowVlan(b, d)} \subseteq conf.flooding \cap conf.unlearned
  /\ \A x \in RingSlot : ~conf.stp[x]

Served(b, d) == ServedBut(b, d, {})

ConfiguredBut(X) == \A b \in Board, d \in {"down", "up"} : ServedBut(b, d, X)

\* When every run, also of two that overlapped, ended well, the switches are configured,
\* whatever an earlier attempt had left behind or broken off.  What may be missing then is a
\* classifier that kept its old key because the switch refused the last detach of it: the
\* script swallows that, and its attach finds the classifier there.
SuccessMeansConfigured ==
  (\A s \in Scripts : result[s] \in {"ok", "none"}) /\ runs > 0 => ConfiguredBut(refused)

\* "Re-attach rather than assume" is all that ever interrupts a flow in service: no step of a
\* script takes it out but the detach of a classifier of the flow's own, although set_vlan
\* writes back a port configuration that another script may have changed since it was read;
\* and unless the script breaks off there, its very next call, made on what the detach left,
\* puts back exactly what the detach took, with the right key.
ServiceKept ==
  [][conf' # conf => \A b \in Board, d \in {"down", "up"} :
       Served(b, d) /\ ~Served(b, d)' =>
         \E s \in Scripts : /\ pc[s] # 0
                            /\ pc'[s] # pc[s]
                            /\ main[pc[s]].method = "detach"
                            /\ main[pc[s]].arg \in {<<b, d, "gen">>, <<b, d, "rec">>}
                            /\ pc'[s] # 0 => Effect(main[pc'[s]], conf', read'[s]) = conf]_vars

=============================================================================
