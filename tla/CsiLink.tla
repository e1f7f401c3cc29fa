------------------------------- MODULE CsiLink -------------------------------
(***************************************************************************)
(* csi_link.h: the table of the peers a board hears.  The WiFi task files  *)
(* every frame under its transmitter, one field at a time; the main task   *)
(* ranks the table and formats the busiest peers into a line, field by     *)
(* field, with no lock: "the reporting side only reads".                   *)
(*                                                                         *)
(* A measurement is named by the frame it was taken on, counted from one;  *)
(* 0 is the value csiClearLinks() puts.  What matters of a frame is        *)
(* whether its rssi and its variance pass the thresholds of the presence   *)
(* flag.  The two loads of one comparison of the ranking are one step.     *)
(***************************************************************************)
EXTENDS Naturals, Sequences, FiniteSets

CONSTANTS
  Macs,         \* transmitters in the air
  NoMac,        \* the all-zero MAC of a free slot
  MaxPeers,     \* CSI_MAX_PEERS
  ReportPeers,  \* CSI_REPORT_PEERS
  MaxFrames     \* bound on the frames heard

ASSUME CsiAssumption ==
  /\ NoMac \notin Macs
  /\ MaxPeers \in Nat \ {0}
  /\ ReportPeers \in Nat \ {0}
  /\ MaxFrames \in Nat

Slot  == 1..MaxPeers
Frame == [mac : Macs, strong : BOOLEAN, wobbly : BOOLEAN]

Free == [mac |-> NoMac, used |-> FALSE, mean |-> 0, var |-> 0, rssi |-> 0, frames |-> 0]

VARIABLES
  gCsiUp,   \* the access point was found and CSI enabled
  gLinks,   \* the table
  filling,  \* the slot the WiFi task is storing into, 0 for none
  store,    \* the store of csiRxCallback() that comes next
  stage,    \* where csiLinkLoop() stands
  at,       \* the slot its ranking looks at
  best,     \* the busiest one so far, 0 for none
  taken,    \* slots already in the line
  view,     \* the fields loaded for the next entry
  line,     \* the entries formatted so far
  present,  \* the presence flag
  heard,    \* history: the frames of the callback, in order
  quiet     \* history: the callback did not run during this report

wifiVars   == <<gLinks, filling, store, heard>>
reportVars == <<stage, at, best, taken, view, line, present>>
vars == <<gCsiUp, wifiVars, reportVars, quiet>>

\* csiLinkSetup() has run: a station may have failed to connect, for good.
Init ==
  /\ gCsiUp \in BOOLEAN
  /\ gLinks = [i \in Slot |-> Free]
  /\ filling = 0 /\ store = 1
  /\ stage = "idle" /\ at = 1 /\ best = 0 /\ taken = {}
  /\ view = [f \in {} |-> 0]
  /\ line = <<>> /\ present = FALSE
  /\ heard = <<>>
  /\ quiet = TRUE

-----------------------------------------------------------------------------
(* The WiFi task. *)

First(S) == CHOOSE i \in S : \A j \in S : i <= j

\* MUTANT: a slot is taken without looking for the peer's own.
linkSlotFresh(mac) ==
  LET free == {i \in Slot : ~gLinks[i].used}
  IN IF free # {} THEN First(free) ELSE 0

\* The slot of a transmitter, else the first free one, else none.
linkSlot(mac) ==
  LET own  == {i \in Slot : gLinks[i].used /\ gLinks[i].mac = mac}
      free == {i \in Slot : ~gLinks[i].used}
  IN IF own # {} THEN First(own) ELSE IF free # {} THEN First(free) ELSE 0

\* The table once linkSlot() returned i: used is stored last, so that the report
\* sees the slot whole.
Entered(i, mac) ==
  LET g == gLinks[i] IN
  IF g.used THEN gLinks
  ELSE [gLinks EXCEPT ![i] = [mac |-> mac, used |-> TRUE, mean |-> g.mean, var |-> g.var,
                              rssi |-> g.rssi, frames |-> 0]]

\* csiRxCallback() with a frame that has subcarriers: one of a transmitter the full
\* table has no place for is dropped.
Receive(f) ==
  LET i == linkSlot(f.mac) IN
  /\ gCsiUp
  /\ filling = 0
  /\ Len(heard) < MaxFrames
  /\ heard' = Append(heard, f)
  /\ filling' = i
  /\ gLinks' = IF i = 0 THEN gLinks ELSE Entered(i, f.mac)
  /\ quiet' = (quiet /\ stage = "idle")
  /\ UNCHANGED <<gCsiUp, store, reportVars>>

\* A frame too short for one subcarrier takes a slot all the same.
ReceiveEmpty(mac) ==
  LET i == linkSlot(mac) IN
  /\ gCsiUp
  /\ filling = 0
  /\ i # 0
  /\ gLinks' = Entered(i, mac)
  /\ quiet' = (quiet /\ stage = "idle")
  /\ UNCHANGED <<gCsiUp, filling, store, heard, reportVars>>

\* MUTANT: the frame is counted before it is measured.
StoreOrderCountFirst == <<"frames", "mean", "var", "rssi">>

StoreOrder == <<"mean", "var", "rssi", "frames">>

\* The next store of the callback; the frame is the last one heard.
Store ==
  LET f == StoreOrder[store]
      g == gLinks[filling] IN
  /\ filling # 0
  /\ gLinks' = [gLinks EXCEPT ![filling] =
                  [g EXCEPT ![f] = IF f = "frames" THEN g.frames + 1 ELSE Len(heard)]]
  /\ IF store = Len(StoreOrder)
     THEN store' = 1 /\ filling' = 0
     ELSE store' = store + 1 /\ UNCHANGED filling
  /\ UNCHANGED <<gCsiUp, heard, reportVars, quiet>>

-----------------------------------------------------------------------------
(* The main task. *)

Strong(n) == n # 0 /\ heard[n].strong
Wobbly(n) == n # 0 /\ heard[n].wobbly

\* csiLinkLoop() twice a second.
Begin ==
  /\ gCsiUp
  /\ stage = "idle"
  /\ stage' = "rank"
  /\ quiet' = (filling = 0)
  /\ UNCHANGED <<gCsiUp, wifiVars, at, best, taken, view, line, present>>

\* A slot in use that is not in the line yet.
Eligible(i) == gLinks[i].used /\ i \notin taken

\* MUTANT: the first peer is taken for the busiest.
BusierFirst(i) == best = 0

\* Strictly busier than the best so far, which is loaded again.
Busier(i) == best = 0 \/ gLinks[i].frames > gLinks[best].frames

\* One turn of the inner loop.
Rank ==
  /\ stage = "rank"
  /\ at <= MaxPeers
  /\ at' = at + 1
  /\ best' = IF Eligible(at) /\ Busier(at) THEN at ELSE best
  /\ UNCHANGED <<gCsiUp, wifiVars, stage, taken, view, line, present, quiet>>

\* Nobody is left who was heard.
GiveUp ==
  /\ stage = "rank"
  /\ at > MaxPeers
  /\ best # 0 => gLinks[best].frames = 0
  /\ stage' = "publish"
  /\ UNCHANGED <<gCsiUp, wifiVars, at, best, taken, view, line, present, quiet>>

\* The busiest slot left goes into the line.
Choose ==
  /\ stage = "rank"
  /\ at > MaxPeers
  /\ best # 0 /\ gLinks[best].frames # 0
  /\ taken' = taken \cup {best}
  /\ stage' = "rssi"
  /\ UNCHANGED <<gCsiUp, wifiVars, at, best, view, line, present, quiet>>

\* rssi > -75 && ampVar > 5: the second load only after the first.
LookRssi ==
  /\ stage = "rssi"
  /\ stage' = IF Strong(gLinks[best].rssi) THEN "var" ELSE "format"
  /\ UNCHANGED <<gCsiUp, wifiVars, at, best, taken, view, line, present, quiet>>

LookVar ==
  /\ stage = "var"
  /\ present' = (present \/ Wobbly(gLinks[best].var))
  /\ stage' = "format"
  /\ UNCHANGED <<gCsiUp, wifiVars, at, best, taken, view, line, quiet>>

\* The arguments of snprintf(), loaded in any order.
Load(f) ==
  /\ stage = "format"
  /\ f \in {"mean", "var", "rssi", "frames"} \ DOMAIN view
  /\ view' = [g \in DOMAIN view \cup {f} |-> IF g = f THEN gLinks[best][f] ELSE view[g]]
  /\ UNCHANGED <<gCsiUp, wifiVars, stage, at, best, taken, line, present, quiet>>

\* MUTANT: one rank too many.
FormatOneMore ==
  /\ stage = "format"
  /\ DOMAIN view = {"mean", "var", "rssi", "frames"}
  /\ line' = Append(line, [mac |-> gLinks[best].mac, mean |-> view.mean, var |-> view.var,
                           rssi |-> view.rssi, frames |-> view.frames])
  /\ stage' = IF Len(line') > ReportPeers THEN "publish" ELSE "rank"
  /\ at' = 1 /\ best' = 0
  /\ view' = [f \in {} |-> 0]
  /\ UNCHANGED <<gCsiUp, wifiVars, taken, present, quiet>>

\* The entry goes into the line; on to the next rank, if there is one.
Format ==
  /\ stage = "format"
  /\ DOMAIN view = {"mean", "var", "rssi", "frames"}
  /\ line' = Append(line, [mac |-> gLinks[best].mac, mean |-> view.mean, var |-> view.var,
                           rssi |-> view.rssi, frames |-> view.frames])
  /\ stage' = IF Len(line') = ReportPeers THEN "publish" ELSE "rank"
  /\ at' = 1 /\ best' = 0
  /\ view' = [f \in {} |-> 0]
  /\ UNCHANGED <<gCsiUp, wifiVars, taken, present, quiet>>

\* publishCabin(line, present)
Publish ==
  /\ stage = "publish"
  /\ stage' = "idle"
  /\ at' = 1 /\ best' = 0 /\ taken' = {}
  /\ line' = <<>> /\ present' = FALSE
  /\ quiet' = TRUE
  /\ UNCHANGED <<gCsiUp, wifiVars, view>>

Next ==
  \/ \E f \in Frame : Receive(f)
  \/ \E mac \in Macs : ReceiveEmpty(mac)
  \/ Store
  \/ Begin \/ Rank \/ GiveUp \/ Choose \/ LookRssi \/ LookVar
  \/ \E f \in {"mean", "var", "rssi", "frames"} : Load(f)
  \/ Format \/ Publish

Spec == Init /\ [][Next]_vars

-----------------------------------------------------------------------------
Link == [mac : Macs \cup {NoMac}, used : BOOLEAN, mean : 0..MaxFrames, var : 0..MaxFrames,
         rssi : 0..MaxFrames, frames : 0..MaxFrames]

\* Types; the line never has more entries than its buffer was sized for.
TypeOK ==
  /\ gCsiUp \in BOOLEAN
  /\ gLinks \in [Slot -> Link]
  /\ filling \in 0..MaxPeers
  /\ store \in 1..Len(StoreOrder)
  /\ stage \in {"idle", "rank", "rssi", "var", "format", "publish"}
  /\ at \in 1..(MaxPeers + 1)
  /\ best \in 0..MaxPeers
  /\ taken \subseteq Slot
  /\ view \in [DOMAIN view -> 0..MaxFrames]
  /\ line \in Seq([mac : Macs, mean : 0..MaxFrames, var : 0..MaxFrames, rssi : 0..MaxFrames,
                   frames : 0..MaxFrames])
  /\ Len(line) <= ReportPeers
  /\ present \in BOOLEAN /\ quiet \in BOOLEAN
  /\ heard \in Seq(Frame)

\* The frames heard of a transmitter so far.
FramesOf(mac) == {n \in 1..Len(heard) : heard[n].mac = mac}

\* A transmitter has one slot: its frames are never spread over two, one of which the
\* report would rank too low.
OneSlotPerPeer ==
  \A i, j \in Slot : gLinks[i].used /\ gLinks[j].used /\ gLinks[i].mac = gLinks[j].mac => i = j

\* Whatever the callback does meanwhile: every entry of the line is a peer the report
\* has not named before, each of its numbers was measured on a frame of that very
\* peer, and the peer is credited with no frame it did not send.
EntriesMeasured ==
  \A k \in 1..Len(line) :
    LET e == line[k] IN
    /\ \A l \in 1..(k - 1) : line[l].mac # e.mac
    /\ {e.mean, e.var, e.rssi} \subseteq FramesOf(e.mac)
    /\ e.frames \in 1..Cardinality(FramesOf(e.mac))

\* A report the callback does not overlap is exact: each entry is the peer's last
\* frame and all its frames, the busiest come first and nobody busier is left out,
\* and the flag is what the numbers of the line say.
QuietReportExact ==
  stage = "publish" /\ quiet =>
    /\ \A k \in 1..Len(line) :
         LET e == line[k] IN
         /\ {e.mean, e.var, e.rssi} = {First({n \in FramesOf(e.mac) : \A m \in FramesOf(e.mac) : m <= n})}
         /\ e.frames = Cardinality(FramesOf(e.mac))
         /\ k > 1 => line[k - 1].frames >= e.frames
    /\ \A i \in Slot \ taken : gLinks[i].frames > 0 =>
         Len(line) = ReportPeers /\ line[ReportPeers].frames >= gLinks[i].frames
    /\ present <=> \E k \in 1..Len(line) : Strong(line[k].rssi) /\ Wobbly(line[k].var)

=============================================================================
