----------------------------- MODULE Experiments -----------------------------
(***************************************************************************)
(* The two measurements of the rig: pc/qos_before_after.py, which turns a  *)
(* shaper on for every queue of the boards' ports and off again, and       *)
(* pc/congestion_before_after.py, which floods a board from a thread of    *)
(* its own.  Each collects the 1 Hz lines of a board before, during and    *)
(* after, and keeps the last one.                                          *)
(*                                                                         *)
(* A line speaks of the round trips since the line before it, so what it   *)
(* says is abstracted to the conditions those were made under.  The round  *)
(* trips go through pc/zenoh_peer.py.  Nothing keeps the two scripts apart,*)
(* and either may be broken off anywhere, with nothing undone.             *)
(***************************************************************************)
EXTENDS Integers

CONSTANTS
  Queues,    \* number of (port, queue) pairs set_shaper() goes through
  MaxRuns    \* bound on the runs of each script

ASSUME ExperimentAssumption == Queues \in Nat \ {0} /\ MaxRuns \in Nat

Scripts == {"qos", "congestion"}

VARIABLES
  pc,        \* where each script stands
  ended,     \* how its last run ended
  queue,     \* the next (port, queue) pair of set_shaper()
  shaped,    \* the pairs whose shaper is on
  flood,     \* the flood thread of the running congestion script
  strays,    \* flood threads of runs broken off
  window,    \* the conditions of the board's round trips since its last line
  latest,    \* what collect_stats() has kept of the lines it saw
  lines,     \* lines it saw, up to 2
  flushed,   \* the board has sent a line, or had none to send, in this pause
  broken,    \* history: a run of the script was broken off
  runs       \* history: runs of each script

vars == <<pc, ended, queue, shaped, flood, strays, window, latest, lines, flushed, broken, runs>>
net  == <<shaped, flood, strays, window>>

\* Conditions: how many of the shapers are on, and whether the board is flooded.
Shaping  == IF shaped = {} THEN "none" ELSE IF shaped = 1..Queues THEN "all" ELSE "some"
Flooding == flood \/ strays > 0
Window   == [shaping : SUBSET {"none", "some", "all"}, flooding : SUBSET BOOLEAN]
Empty    == [shaping |-> {}, flooding |-> {}]

Init ==
  /\ pc = [s \in Scripts |-> "idle"]
  /\ ended = [s \in Scripts |-> "none"]
  /\ queue = 1
  /\ shaped = {}
  /\ flood = FALSE
  /\ strays = 0
  /\ window = Empty
  /\ latest = [s \in Scripts |-> Empty]
  /\ lines = [s \in Scripts |-> 0]
  /\ flushed = [s \in Scripts |-> FALSE]
  /\ broken = [s \in Scripts |-> FALSE]
  /\ runs = [s \in Scripts |-> 0]

-----------------------------------------------------------------------------
(* The board and its echo. *)

\* A ping is put back as a pong, short against everything else that happens here.
RoundTrip ==
  /\ window' = [shaping |-> window.shaping \cup {Shaping},
                flooding |-> window.flooding \cup {Flooding}]
  /\ UNCHANGED <<pc, ended, queue, shaped, flood, strays, latest, lines, flushed, broken, runs>>

Collecting == {s \in Scripts : pc[s] \in {"before", "during", "after"}}

\* The board publishes its line and begins a new window; each session that has
\* subscribed gets it, or loses it.
Report ==
  /\ window # Empty
  /\ window' = Empty
  /\ \E got \in SUBSET Collecting :
       /\ latest' = [s \in Scripts |-> IF s \in got THEN window ELSE latest[s]]
       /\ lines' = [s \in Scripts |-> IF s \in got /\ lines[s] < 2 THEN lines[s] + 1 ELSE lines[s]]
  /\ flushed' = [s \in Scripts |-> TRUE]
  /\ UNCHANGED <<pc, ended, queue, shaped, flood, strays, broken, runs>>

-----------------------------------------------------------------------------
(* What the scripts have in common. *)

\* The script goes on to its next phase; a collection begins with nothing, a pause
\* with what the board's window holds.
GoTo(s, phase) ==
  /\ pc' = [pc EXCEPT ![s] = phase]
  /\ latest' = [latest EXCEPT ![s] = Empty]
  /\ lines' = [lines EXCEPT ![s] = 0]
  /\ flushed' = [flushed EXCEPT ![s] = window = Empty]

Start(s) ==
  /\ pc[s] = "idle"
  /\ runs[s] < MaxRuns
  /\ runs' = [runs EXCEPT ![s] = @ + 1]
  /\ ended' = [ended EXCEPT ![s] = "running"]
  /\ GoTo(s, "before")
  /\ UNCHANGED <<net, queue, broken>>

\* The time of a collection is over.
Collected(s, from, to) ==
  /\ pc[s] = from
  /\ GoTo(s, to)
  /\ UNCHANGED <<net, ended, queue, broken, runs>>

Finish(s) ==
  /\ pc[s] = "after"
  /\ GoTo(s, "idle")
  /\ ended' = [ended EXCEPT ![s] = "ok"]
  /\ UNCHANGED <<net, queue, broken, runs>>

\* An exception leaves the script where it stands; a flood thread it started goes on.
Break(s) ==
  /\ pc[s] # "idle"
  /\ GoTo(s, "idle")
  /\ ended' = [ended EXCEPT ![s] = "failed"]
  /\ broken' = [broken EXCEPT ![s] = TRUE]
  /\ queue' = IF s = "qos" THEN 1 ELSE queue
  /\ UNCHANGED <<window, runs>>

-----------------------------------------------------------------------------
(* qos_before_after.py *)

\* One queueShaper.set, and the next of the loop.
SetQueue(enable) == shaped' = IF enable THEN shaped \cup {queue} ELSE shaped \ {queue}

\* MUTANT: turning off stops one short of the last queue.
SetShaperShort(enable, from, to) ==
  /\ pc["qos"] = from
  /\ SetQueue(enable)
  /\ IF queue = Queues \/ (~enable /\ queue = Queues - 1)
     THEN GoTo("qos", to) /\ queue' = 1
     ELSE queue' = queue + 1 /\ UNCHANGED <<pc, latest, lines, flushed>>
  /\ UNCHANGED <<ended, flood, strays, window, broken, runs>>

\* MUTANT: the second loop goes on where the first one ended.
SetShaperKeepsQueue(enable, from, to) ==
  /\ pc["qos"] = from
  /\ SetQueue(enable)
  /\ queue' = queue + 1
  /\ IF queue = Queues THEN GoTo("qos", to) ELSE UNCHANGED <<pc, latest, lines, flushed>>
  /\ UNCHANGED <<ended, flood, strays, window, broken, runs>>

\* set_shaper(), one call at a time.
SetShaper(enable, from, to) ==
  /\ pc["qos"] = from
  /\ SetQueue(enable)
  /\ IF queue = Queues
     THEN GoTo("qos", to) /\ queue' = 1
     ELSE queue' = queue + 1 /\ UNCHANGED <<pc, latest, lines, flushed>>
  /\ UNCHANGED <<ended, flood, strays, window, broken, runs>>

\* MUTANT: the pause is left out.
PauseSkipped(from, to) ==
  /\ pc["qos"] = from
  /\ GoTo("qos", to)
  /\ UNCHANGED <<net, ended, queue, broken, runs>>

\* time.sleep(2): twice the period of the board's lines.
Pause(from, to) ==
  /\ pc["qos"] = from
  /\ flushed["qos"]
  /\ GoTo("qos", to)
  /\ UNCHANGED <<net, ended, queue, broken, runs>>

BreakQos ==
  /\ Break("qos")
  /\ \/ UNCHANGED shaped
     \/ pc["qos"] = "on" /\ SetQueue(TRUE)
     \/ pc["qos"] = "off" /\ SetQueue(FALSE)
  /\ UNCHANGED <<flood, strays>>

QosNext ==
  \/ Start("qos")
  \/ Collected("qos", "before", "on")
  \/ SetShaper(TRUE, "on", "pause_on")
  \/ Pause("pause_on", "during")
  \/ Collected("qos", "during", "off")
  \/ SetShaper(FALSE, "off", "pause_off")
  \/ Pause("pause_off", "after")
  \/ Finish("qos")
  \/ BreakQos

-----------------------------------------------------------------------------
(* congestion_before_after.py *)

\* t.start(), and the collection under it.
StartFlood ==
  /\ pc["congestion"] = "flood"
  /\ flood' = TRUE
  /\ GoTo("congestion", "during")
  /\ UNCHANGED <<ended, queue, shaped, strays, window, broken, runs>>

\* The thread's ten seconds are over, or sendto() has raised in it.
FloodEnds ==
  /\ \/ flood /\ flood' = FALSE /\ UNCHANGED strays
     \/ strays > 0 /\ strays' = strays - 1 /\ UNCHANGED flood
  /\ UNCHANGED <<pc, ended, queue, shaped, window, latest, lines, flushed, broken, runs>>

\* MUTANT: t.join() is left out.
JoinSkipped ==
  /\ pc["congestion"] = "join"
  /\ GoTo("congestion", "pause")
  /\ UNCHANGED <<net, ended, queue, broken, runs>>

\* t.join()
Join ==
  /\ pc["congestion"] = "join"
  /\ ~flood
  /\ GoTo("congestion", "pause")
  /\ UNCHANGED <<net, ended, queue, broken, runs>>

BreakCongestion ==
  /\ Break("congestion")
  /\ flood' = FALSE
  /\ strays' = IF flood THEN strays + 1 ELSE strays
  /\ UNCHANGED shaped

\* time.sleep(1) is as long as the period of the lines: none is sure to fall into it.
CongestionNext ==
  \/ Start("congestion")
  \/ Collected("congestion", "before", "flood")
  \/ StartFlood
  \/ Collected("congestion", "during", "join")
  \/ Join
  \/ Collected("congestion", "pause", "after")
  \/ Finish("congestion")
  \/ BreakCongestion
  \/ FloodEnds

Next == RoundTrip \/ Report \/ QosNext \/ CongestionNext

Spec == Init /\ [][Next]_vars

-----------------------------------------------------------------------------
\* The types; the loops of set_shaper() stay within the queues.
TypeOK ==
  /\ pc \in [Scripts -> {"idle", "before", "on", "pause_on", "during", "off", "pause_off",
                         "flood", "join", "pause", "after"}]
  /\ ended \in [Scripts -> {"none", "running", "ok", "failed"}]
  /\ queue \in 1..Queues
  /\ shaped \subseteq 1..Queues
  /\ flood \in BOOLEAN
  /\ strays \in Nat
  /\ window \in Window
  /\ latest \in [Scripts -> Window]
  /\ lines \in [Scripts -> 0..2]
  /\ flushed \in [Scripts -> BOOLEAN]
  /\ broken \in [Scripts -> BOOLEAN]
  /\ runs \in [Scripts -> Nat]

\* What the QoS script files under "during" was measured with every shaper on, and what
\* it files under "after" with every shaper off, whatever an earlier run left behind.
QosLabels ==
  /\ pc["qos"] = "during" => latest["qos"].shaping \subseteq {"all"}
  /\ pc["qos"] = "after" => latest["qos"].shaping \subseteq {"none"}

\* From the second line on, what the congestion script files under "before" and "after"
\* was measured without a flood, unless a run that was broken off left its own.
CongestionLabels ==
  pc["congestion"] \in {"before", "after"} /\ lines["congestion"] = 2 /\ ~broken["congestion"]
    => latest["congestion"].flooding \subseteq {FALSE}

\* A run that ends well leaves the rig as it is meant to be: no shaper on, also when an
\* earlier run was broken off, and no flood but one of an earlier run.
SuccessRestores ==
  /\ ended["qos"] = "ok" => shaped = {}
  /\ ended["congestion"] = "ok" => ~flood
  /\ strays > 0 => broken["congestion"]

=============================================================================
