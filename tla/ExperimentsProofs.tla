--------------------------- MODULE ExperimentsProofs ---------------------------
(***************************************************************************)
(* Proofs about Experiments, for any number of queues and of runs: the     *)
(* types (TypesHold), what is filed as before, during and after            *)
(* (QosLabelsHold, CongestionLabelsHold), and what a run that ended well   *)
(* leaves behind (RestoresHold).                                           *)
(*                                                                         *)
(* The invariant says what each phase of a script knows about the network, *)
(* and, which the labels alone do not say, about the window of the board's *)
(* next line: a collection may begin only once the samples made before it  *)
(* have gone out.                                                          *)
(***************************************************************************)
EXTENDS Experiments, TLAPS

Phases == {"idle", "before", "on", "pause_on", "during", "off", "pause_off",
           "flood", "join", "pause", "after"}

\* What set_shaper() has done in each phase of the QoS script.
QosShapes ==
  /\ pc["qos"] \notin {"on", "off"} => queue = 1
  /\ pc["qos"] = "on" => 1..(queue - 1) \subseteq shaped
  /\ pc["qos"] \in {"pause_on", "during"} => shaped = 1..Queues
  /\ pc["qos"] = "off" => shaped \cap 1..(queue - 1) = {}
  /\ pc["qos"] \in {"pause_off", "after"} => shaped = {}
  /\ ended["qos"] = "ok" => pc["qos"] = "idle" /\ shaped = {}

\* The window holds nothing of an earlier phase once a line has gone out.
Flushed(pause, phase, shaping) ==
  pc["qos"] = phase \/ (pc["qos"] = pause /\ flushed["qos"]) => window.shaping \subseteq {shaping}

QosWindow == Flushed("pause_on", "during", "all") /\ Flushed("pause_off", "after", "none")

\* Who floods.
FloodKnown ==
  /\ flood => pc["congestion"] \in {"during", "join"}
  /\ ended["congestion"] = "ok" => pc["congestion"] = "idle"
  /\ strays > 0 => broken["congestion"]

\* With the first line of a collection the round trips made before it have gone out.
CongestionWindow ==
  pc["congestion"] \in {"before", "after"} /\ lines["congestion"] > 0 /\ ~broken["congestion"]
    => window.flooding \subseteq {FALSE}

ExperimentsInv ==
  /\ TypeOK
  /\ QosShapes
  /\ QosWindow
  /\ QosLabels
  /\ FloodKnown
  /\ CongestionWindow
  /\ CongestionLabels

-----------------------------------------------------------------------------
\* No samples, no conditions.
LEMMA EmptyWindow == Empty \in Window
BY DEF Empty, Window

\* The initial states: nothing runs, nothing is shaped.
LEMMA InitEstablishes == Init => ExperimentsInv
<1> SUFFICES ASSUME Init PROVE ExperimentsInv
  OBVIOUS
<1> USE DEF Init, Scripts
<1>1. TypeOK
  <2>1. pc \in [Scripts -> {"idle", "before", "on", "pause_on", "during", "off", "pause_off",
                         "flood", "join", "pause", "after"}]
    OBVIOUS
  <2>2. ended \in [Scripts -> {"none", "running", "ok", "failed"}]
    OBVIOUS
  <2>3. queue \in 1..Queues
    BY ExperimentAssumption DEF ExperimentAssumption
  <2>4. shaped \subseteq 1..Queues
    OBVIOUS
  <2>5. flood \in BOOLEAN /\ strays \in Nat
    OBVIOUS
  <2>6. window \in Window /\ latest \in [Scripts -> Window]
    BY EmptyWindow
  <2>7. lines \in [Scripts -> 0..2] /\ flushed \in [Scripts -> BOOLEAN]
    OBVIOUS
  <2>8. broken \in [Scripts -> BOOLEAN] /\ runs \in [Scripts -> Nat]
    OBVIOUS
  <2>9. QED
    BY <2>1, <2>2, <2>3, <2>4, <2>5, <2>6, <2>7, <2>8 DEF TypeOK
<1>2. QosShapes /\ QosWindow /\ QosLabels
  BY DEF QosShapes, QosWindow, Flushed, QosLabels
<1>3. FloodKnown /\ CongestionWindow /\ CongestionLabels
  BY DEF FloodKnown, CongestionWindow, CongestionLabels
<1>4. QED
  BY <1>1, <1>2, <1>3 DEF ExperimentsInv

\* Whatever phase a script goes on to, its collection and its pause are in range.
LEMMA GoToTypes ==
  ASSUME TypeOK, NEW s \in Scripts, NEW phase \in Phases, GoTo(s, phase)
  PROVE  /\ pc' \in [Scripts -> Phases]
         /\ latest' \in [Scripts -> Window]
         /\ lines' \in [Scripts -> 0..2]
         /\ flushed' \in [Scripts -> BOOLEAN]
<1>1. pc' \in [Scripts -> Phases]
  BY DEF GoTo, TypeOK, Phases
<1>2. latest' \in [Scripts -> Window]
  BY EmptyWindow DEF GoTo, TypeOK
<1>3. lines' \in [Scripts -> 0..2]
  BY DEF GoTo, TypeOK
<1>4. flushed' \in [Scripts -> BOOLEAN]
  BY DEF GoTo, TypeOK
<1>5. QED
  BY <1>1, <1>2, <1>3, <1>4

\* A step of the types: every action keeps the variables in their ranges.
LEMMA TypesStep == TypeOK /\ [Next]_vars => TypeOK'
<1> SUFFICES ASSUME TypeOK, [Next]_vars PROVE TypeOK'
  OBVIOUS
<1>0. "qos" \in Scripts /\ "congestion" \in Scripts
  BY DEF Scripts
<1> USE <1>0 DEF TypeOK, net, Phases
<1>1. CASE RoundTrip
  BY <1>1 DEF RoundTrip, Window, Shaping, Flooding
<1>2. CASE Report
  BY <1>2, EmptyWindow DEF Report, Collecting
<1>3. ASSUME NEW s \in Scripts, Start(s) PROVE TypeOK'
  BY <1>3, GoToTypes DEF Start
<1>4. ASSUME NEW s \in Scripts, Finish(s) PROVE TypeOK'
  BY <1>4, GoToTypes DEF Finish
<1>5. ASSUME NEW s \in Scripts, NEW from, NEW to \in Phases, Collected(s, from, to)
      PROVE  TypeOK'
  BY <1>5, GoToTypes DEF Collected
<1>6. ASSUME NEW enable \in BOOLEAN, NEW from, NEW to \in Phases, SetShaper(enable, from, to)
      PROVE  TypeOK'
  <2>1. queue' \in 1..Queues
    BY <1>6, ExperimentAssumption DEF SetShaper, ExperimentAssumption
  <2>2. shaped' \subseteq 1..Queues
    BY <1>6 DEF SetShaper, SetQueue
  <2>3. QED
    BY <1>6, <2>1, <2>2, GoToTypes DEF SetShaper
<1>7. ASSUME NEW from, NEW to \in Phases, Pause(from, to) PROVE TypeOK'
  BY <1>7, GoToTypes DEF Pause
<1>8. CASE BreakQos
  <2>1. queue' \in 1..Queues
    BY <1>8, ExperimentAssumption DEF BreakQos, Break, ExperimentAssumption
  <2>2. shaped' \subseteq 1..Queues
    BY <1>8 DEF BreakQos, SetQueue
  <2>3. QED
    BY <1>8, <2>1, <2>2, GoToTypes DEF BreakQos, Break
<1>9. CASE StartFlood
  BY <1>9, GoToTypes DEF StartFlood
<1>10. CASE FloodEnds
  <2>1. flood' \in BOOLEAN
    BY <1>10 DEF FloodEnds
  <2>2. strays' \in Nat
    <3>1. strays' = strays \/ (strays > 0 /\ strays' = strays - 1)
      BY <1>10 DEF FloodEnds
    <3>2. QED
      BY <3>1
  <2>3. QED
    BY <1>10, <2>1, <2>2 DEF FloodEnds
<1>11. CASE Join
  BY <1>11, GoToTypes DEF Join
<1>12. CASE BreakCongestion
  <2>1. strays' \in Nat
    BY <1>12 DEF BreakCongestion
  <2>2. broken' \in [Scripts -> BOOLEAN] /\ ended' \in [Scripts -> {"none", "running", "ok", "failed"}]
    BY <1>12 DEF BreakCongestion, Break
  <2>3. queue' = queue
    BY <1>12 DEF BreakCongestion, Break
  <2>4. QED
    BY <1>12, <2>1, <2>2, <2>3, GoToTypes DEF BreakCongestion, Break
<1>13. CASE UNCHANGED vars
  BY <1>13 DEF vars
<1>14. QED
  BY <1>1, <1>2, <1>3, <1>4, <1>5, <1>6, <1>7, <1>8, <1>9, <1>10, <1>11, <1>12, <1>13
     DEF Next, QosNext, CongestionNext

\* The phases of the QoS script: a collection under a condition begins only when the
\* condition holds of every queue.
LEMMA ShapesStep == ExperimentsInv /\ [Next]_vars => QosShapes'
<1> SUFFICES ASSUME ExperimentsInv, [Next]_vars PROVE QosShapes'
  OBVIOUS
<1>0. /\ TypeOK /\ QosShapes
      /\ Queues \in Nat \ {0}
  BY ExperimentAssumption DEF ExperimentsInv, ExperimentAssumption
<1>1. CASE /\ UNCHANGED <<queue, shaped>>
           /\ pc'["qos"] = pc["qos"]
           /\ ended'["qos"] = ended["qos"]
  BY <1>0, <1>1 DEF QosShapes
<1>2. CASE \/ RoundTrip \/ Report \/ CongestionNext \/ UNCHANGED vars
  <2>1. UNCHANGED <<queue, shaped>> /\ pc'["qos"] = pc["qos"] /\ ended'["qos"] = ended["qos"]
    BY <1>2, <1>0
       DEF RoundTrip, Report, CongestionNext, vars, Start, Collected, StartFlood, Join, Finish,
           BreakCongestion, Break, FloodEnds, GoTo, net, TypeOK, Scripts
  <2>2. QED
    BY <1>1, <2>1
<1>3. CASE Start("qos") \/ Finish("qos")
  BY <1>0, <1>3 DEF Start, Finish, GoTo, net, QosShapes, TypeOK, Scripts
<1>4. CASE Collected("qos", "before", "on")
  BY <1>0, <1>4 DEF Collected, GoTo, net, QosShapes, TypeOK, Scripts
<1>5. CASE SetShaper(TRUE, "on", "pause_on")
  <2>1. shaped' = shaped \cup {queue} /\ queue \in 1..Queues
    BY <1>0, <1>5 DEF SetShaper, SetQueue, TypeOK
  <2>2. CASE queue = Queues
    <3>1. 1..(Queues - 1) \subseteq shaped /\ shaped \subseteq 1..Queues
      BY <1>0, <1>5, <2>2 DEF SetShaper, QosShapes, TypeOK
    <3>2. shaped' = 1..Queues
      <4>1. \A q \in 1..Queues : q \in 1..(Queues - 1) \/ q = Queues
        BY <1>0
      <4>2. 1..Queues \subseteq shaped'
        BY <2>1, <2>2, <3>1, <4>1
      <4>3. shaped' \subseteq 1..Queues
        BY <2>1, <3>1
      <4>4. QED
        BY <4>2, <4>3
    <3>3. pc'["qos"] = "pause_on" /\ queue' = 1 /\ ended'["qos"] # "ok"
      BY <1>0, <1>5, <2>2 DEF SetShaper, GoTo, QosShapes, TypeOK, Scripts
    <3>4. QED
      BY <3>2, <3>3 DEF QosShapes
  <2>3. CASE queue # Queues
    BY <1>0, <1>5, <2>1, <2>3 DEF SetShaper, QosShapes, TypeOK, Scripts
  <2>4. QED
    BY <2>2, <2>3
<1>6. CASE Pause("pause_on", "during") \/ Pause("pause_off", "after")
  BY <1>0, <1>6 DEF Pause, GoTo, net, QosShapes, TypeOK, Scripts
<1>7. CASE Collected("qos", "during", "off")
  BY <1>0, <1>7 DEF Collected, GoTo, net, QosShapes, TypeOK, Scripts
<1>8. CASE SetShaper(FALSE, "off", "pause_off")
  <2>1. shaped' = shaped \ {queue} /\ queue \in 1..Queues /\ shaped \subseteq 1..Queues
    BY <1>0, <1>8 DEF SetShaper, SetQueue, TypeOK
  <2>2. CASE queue = Queues
    BY <1>0, <1>8, <2>1, <2>2 DEF SetShaper, GoTo, QosShapes, TypeOK, Scripts
  <2>3. CASE queue # Queues
    BY <1>0, <1>8, <2>1, <2>3 DEF SetShaper, QosShapes, TypeOK, Scripts
  <2>4. QED
    BY <2>2, <2>3
<1>9. CASE BreakQos
  BY <1>0, <1>9 DEF BreakQos, Break, GoTo, QosShapes, TypeOK, Scripts
<1>10. QED
  BY <1>2, <1>3, <1>4, <1>5, <1>6, <1>7, <1>8, <1>9 DEF Next, QosNext

\* What is filed under a condition was measured under it: a line goes out in the pause
\* before, and every round trip since was made under the condition.
LEMMA WindowStep == ExperimentsInv /\ [Next]_vars => QosWindow' /\ QosLabels'
<1> SUFFICES ASSUME ExperimentsInv, [Next]_vars PROVE QosWindow' /\ QosLabels'
  OBVIOUS
<1>0. /\ TypeOK /\ QosShapes /\ QosWindow /\ QosLabels
      /\ Queues \in Nat \ {0}
  BY ExperimentAssumption DEF ExperimentsInv, ExperimentAssumption
<1> USE DEF QosWindow, Flushed, QosLabels
<1>1. CASE UNCHANGED window /\ pc'["qos"] = pc["qos"] /\ latest'["qos"] = latest["qos"]
           /\ flushed'["qos"] = flushed["qos"]
  BY <1>0, <1>1
<1>2. CASE RoundTrip
  <2>1. /\ UNCHANGED <<pc, latest, flushed>>
        /\ window'.shaping = window.shaping \cup {Shaping}
    BY <1>2 DEF RoundTrip
  <2>2. pc["qos"] \in {"pause_on", "during"} => Shaping = "all"
    <3>1. 1..Queues # {}
      BY <1>0
    <3>2. QED
      BY <1>0, <3>1 DEF QosShapes, Shaping
  <2>3. pc["qos"] \in {"pause_off", "after"} => Shaping = "none"
    BY <1>0 DEF QosShapes, Shaping
  <2>4. QED
    BY <1>0, <2>1, <2>2, <2>3
<1>3. CASE Report
  <2>1. UNCHANGED pc /\ window'.shaping = {}
    BY <1>3 DEF Report, Empty
  <2>2. latest'["qos"] = latest["qos"] \/ (latest'["qos"] = window /\ "qos" \in Collecting)
    BY <1>3, <1>0 DEF Report, TypeOK, Scripts
  <2>3. QED
    BY <1>0, <2>1, <2>2
<1>4. CASE CongestionNext \/ UNCHANGED vars
  <2>1. UNCHANGED window /\ pc'["qos"] = pc["qos"] /\ latest'["qos"] = latest["qos"]
        /\ flushed'["qos"] = flushed["qos"]
    BY <1>4, <1>0
       DEF CongestionNext, vars, Start, Collected, StartFlood, Join, Finish,
           BreakCongestion, Break, FloodEnds, GoTo, net, TypeOK, Scripts
  <2>2. QED
    BY <1>1, <2>1
<1>5. ASSUME NEW phase \in {"idle", "before", "on", "off", "pause_on", "pause_off"},
             GoTo("qos", phase), UNCHANGED window
      PROVE  QosWindow' /\ QosLabels'
  <2>1. pc'["qos"] = phase /\ flushed'["qos"] = (window = Empty)
    BY <1>0, <1>5 DEF GoTo, TypeOK, Scripts
  <2>2. window = Empty => window'.shaping = {}
    BY <1>5 DEF Empty
  <2>3. QED
    BY <1>0, <1>5, <2>1, <2>2
<1>6. CASE \/ Start("qos") \/ Finish("qos") \/ BreakQos
           \/ Collected("qos", "before", "on") \/ Collected("qos", "during", "off")
  BY <1>5, <1>6 DEF Start, Finish, BreakQos, Break, Collected, net
<1>7. CASE SetShaper(TRUE, "on", "pause_on") \/ SetShaper(FALSE, "off", "pause_off")
  BY <1>1, <1>5, <1>7 DEF SetShaper
<1>8. ASSUME NEW from, NEW to, Pause(from, to),
             <<from, to>> \in {<<"pause_on", "during">>, <<"pause_off", "after">>}
      PROVE  QosWindow' /\ QosLabels'
  <2>1. /\ pc["qos"] = from /\ flushed["qos"] /\ UNCHANGED window
        /\ pc'["qos"] = to /\ latest'["qos"] = Empty
    BY <1>0, <1>8 DEF Pause, GoTo, net, TypeOK, Scripts
  <2>2. latest'["qos"].shaping = {}
    BY <2>1 DEF Empty
  <2>3. QED
    BY <1>0, <1>8, <2>1, <2>2
<1>9. QED
  BY <1>2, <1>3, <1>4, <1>6, <1>7, <1>8 DEF Next, QosNext

\* Who floods: only the phases of a flood have one, and only a run broken off leaves one.
LEMMA FloodStep == ExperimentsInv /\ [Next]_vars => FloodKnown'
<1> SUFFICES ASSUME ExperimentsInv, [Next]_vars PROVE FloodKnown'
  OBVIOUS
<1>0. TypeOK /\ FloodKnown
  BY DEF ExperimentsInv
<1>1. CASE /\ UNCHANGED <<flood, strays>> /\ pc'["congestion"] = pc["congestion"]
           /\ ended'["congestion"] = ended["congestion"]
           /\ broken'["congestion"] = broken["congestion"]
  BY <1>0, <1>1 DEF FloodKnown
<1>2. CASE RoundTrip \/ Report \/ QosNext \/ UNCHANGED vars
  <2>1. /\ UNCHANGED <<flood, strays>> /\ pc'["congestion"] = pc["congestion"]
        /\ ended'["congestion"] = ended["congestion"]
        /\ broken'["congestion"] = broken["congestion"]
    <3>1. CASE RoundTrip \/ UNCHANGED vars
      BY <3>1 DEF RoundTrip, vars
    <3>2. CASE Report
      BY <3>2 DEF Report
    <3>3. CASE QosNext
      <4>1. ASSUME NEW phase, GoTo("qos", phase) PROVE pc'["congestion"] = pc["congestion"]
        BY <1>0, <4>1 DEF GoTo, TypeOK, Scripts
      <4>2. CASE Start("qos") \/ Finish("qos") \/ BreakQos
        BY <1>0, <4>1, <4>2 DEF Start, Finish, BreakQos, Break, net, TypeOK, Scripts
      <4>3. ASSUME NEW from, NEW to, Collected("qos", from, to) \/ Pause(from, to)
            PROVE  UNCHANGED <<flood, strays, ended, broken>> /\ pc'["congestion"] = pc["congestion"]
        BY <4>1, <4>3 DEF Collected, Pause, net
      <4>4. ASSUME NEW enable, NEW from, NEW to, SetShaper(enable, from, to)
            PROVE  UNCHANGED <<flood, strays, ended, broken>> /\ pc'["congestion"] = pc["congestion"]
        BY <4>1, <4>4 DEF SetShaper
      <4>5. QED
        BY <3>3, <4>2, <4>3, <4>4 DEF QosNext
    <3>4. QED
      BY <1>2, <3>1, <3>2, <3>3
  <2>2. QED
    BY <1>1, <2>1
<1>3. CASE Start("congestion") \/ Finish("congestion")
  BY <1>0, <1>3 DEF Start, Finish, GoTo, net, FloodKnown, TypeOK, Scripts
<1>4. CASE \/ Collected("congestion", "before", "flood")
           \/ Collected("congestion", "during", "join")
           \/ Collected("congestion", "pause", "after")
  BY <1>0, <1>4 DEF Collected, GoTo, net, FloodKnown, TypeOK, Scripts
<1>5. CASE StartFlood
  BY <1>0, <1>5 DEF StartFlood, GoTo, FloodKnown, TypeOK, Scripts
<1>6. CASE FloodEnds
  BY <1>0, <1>6 DEF FloodEnds, FloodKnown, TypeOK
<1>7. CASE Join
  BY <1>0, <1>7 DEF Join, GoTo, net, FloodKnown, TypeOK, Scripts
<1>8. CASE BreakCongestion
  BY <1>0, <1>8 DEF BreakCongestion, Break, GoTo, FloodKnown, TypeOK, Scripts
<1>9. QED
  BY <1>2, <1>3, <1>4, <1>5, <1>6, <1>7, <1>8 DEF Next, CongestionNext

\* From the second line of a collection on, no sample of it is older than the first.
LEMMA LinesStep ==
  ExperimentsInv /\ [Next]_vars => CongestionWindow' /\ CongestionLabels'
<1> SUFFICES ASSUME ExperimentsInv, [Next]_vars PROVE CongestionWindow' /\ CongestionLabels'
  OBVIOUS
<1>0. TypeOK /\ FloodKnown /\ CongestionWindow /\ CongestionLabels
  BY DEF ExperimentsInv
<1> USE DEF CongestionWindow, CongestionLabels
<1>1. CASE /\ UNCHANGED window /\ pc'["congestion"] = pc["congestion"]
           /\ latest'["congestion"] = latest["congestion"]
           /\ lines'["congestion"] = lines["congestion"]
           /\ broken'["congestion"] = broken["congestion"]
  BY <1>0, <1>1
<1>2. CASE RoundTrip
  <2>1. /\ UNCHANGED <<pc, latest, lines, broken>>
        /\ window'.flooding = window.flooding \cup {Flooding}
    BY <1>2 DEF RoundTrip
  <2>2. pc["congestion"] \in {"before", "after"} /\ ~broken["congestion"] => Flooding = FALSE
    BY <1>0 DEF FloodKnown, Flooding, TypeOK
  <2>3. QED
    BY <1>0, <2>1, <2>2
<1>3. CASE Report
  <2>1. UNCHANGED <<pc, broken>> /\ window'.flooding = {}
    BY <1>3 DEF Report, Empty
  <2>2. \/ /\ latest'["congestion"] = latest["congestion"]
           /\ lines'["congestion"] = lines["congestion"]
        \/ /\ latest'["congestion"] = window
           /\ lines'["congestion"] = IF lines["congestion"] < 2 THEN lines["congestion"] + 1
                                    ELSE lines["congestion"]
    BY <1>3, <1>0 DEF Report, TypeOK, Scripts
  <2>3. lines["congestion"] \in 0..2
    BY <1>0 DEF TypeOK, Scripts
  <2>4. CongestionWindow'
    BY <2>1
  <2>5. CASE latest'["congestion"] = latest["congestion"]
             /\ lines'["congestion"] = lines["congestion"]
    BY <1>0, <2>1, <2>4, <2>5
  <2>6. CASE latest'["congestion"] = window
    <3>1. lines'["congestion"] = 2 => lines["congestion"] > 0
      BY <2>2, <2>3
    <3>2. QED
      BY <1>0, <2>1, <2>4, <2>6, <3>1
  <2>7. QED
    BY <2>2, <2>5, <2>6
<1>4. CASE QosNext \/ FloodEnds \/ UNCHANGED vars
  <2>1. /\ UNCHANGED window /\ pc'["congestion"] = pc["congestion"]
        /\ latest'["congestion"] = latest["congestion"]
        /\ lines'["congestion"] = lines["congestion"]
        /\ broken'["congestion"] = broken["congestion"]
    BY <1>0, <1>4
       DEF QosNext, FloodEnds, vars, Start, Collected, SetShaper, Pause, Finish, BreakQos,
           Break, GoTo, net, TypeOK, Scripts
  <2>2. QED
    BY <1>1, <2>1
<1>5. ASSUME NEW phase \in Phases, GoTo("congestion", phase)
      PROVE  CongestionWindow' /\ CongestionLabels'
  <2>1. lines'["congestion"] = 0
    BY <1>0, <1>5 DEF GoTo, TypeOK, Scripts
  <2>2. QED
    BY <2>1
<1>6. QED
  BY <1>2, <1>3, <1>4, <1>5
     DEF Next, CongestionNext, Start, Collected, StartFlood, Join, Finish, BreakCongestion, Break,
         Phases

-----------------------------------------------------------------------------
\* The invariant is inductive.
THEOREM LabelsInvariant == Spec => []ExperimentsInv
<1>1. ExperimentsInv /\ [Next]_vars => ExperimentsInv'
  BY TypesStep, ShapesStep, WindowStep, FloodStep, LinesStep DEF ExperimentsInv
<1>2. QED
  BY InitEstablishes, <1>1, PTL DEF Spec

\* The types of Experiments: also, set_shaper() never steps past its queues.
THEOREM TypesHold == Spec => []TypeOK
<1>1. ExperimentsInv => TypeOK
  BY DEF ExperimentsInv
<1>2. QED
  BY LabelsInvariant, <1>1, PTL

\* What qos_before_after.py files under "during" was measured with every shaper on and
\* what it files under "after" with every shaper off, for any number of queues.
THEOREM QosLabelsHold == Spec => []QosLabels
<1>1. ExperimentsInv => QosLabels
  BY DEF ExperimentsInv
<1>2. QED
  BY LabelsInvariant, <1>1, PTL

\* From its second line on a collection of congestion_before_after.py outside the flood
\* was measured without one, unless a run was broken off.
THEOREM CongestionLabelsHold == Spec => []CongestionLabels
<1>1. ExperimentsInv => CongestionLabels
  BY DEF ExperimentsInv
<1>2. QED
  BY LabelsInvariant, <1>1, PTL

\* A run of either script that ended well leaves no shaper on and no flood behind.
THEOREM RestoresHold == Spec => []SuccessRestores
<1>1. ExperimentsInv => SuccessRestores
  BY DEF ExperimentsInv, QosShapes, FloodKnown, SuccessRestores
<1>2. QED
  BY LabelsInvariant, <1>1, PTL

=============================================================================
