----------------------------- MODULE CsiLinkProofs -----------------------------
(***************************************************************************)
(* Proofs about CsiLink, for any transmitters, slots, ranks and frames:    *)
(* the types (TypesHold), one slot for each transmitter (SlotsHold), and   *)
(* that whatever the callback does while a line is put together, each      *)
(* number of it was measured on the peer it is printed for (EntriesHold);  *)
(* and that a line the callback does not overlap is exact                  *)
(* (QuietReportsExact).                                                    *)
(*                                                                         *)
(* The invariant relates the table to the frames heard: a slot holds       *)
(* frames of its own transmitter only, and counts no more than were heard, *)
(* less the one being stored; and it says of the report that the slot it   *)
(* has chosen, and the slots in its line, stay who they are.               *)
(***************************************************************************)
EXTENDS CsiLink, FiniteSetTheorems, WellFoundedInduction, TLAPS

\* The frames heard of a transmitter, counted.
Count(mac) == Cardinality(FramesOf(mac))

Fields == {"mean", "var", "rssi", "frames"}

Entry == [mac : Macs, mean : 0..MaxFrames, var : 0..MaxFrames, rssi : 0..MaxFrames,
          frames : 0..MaxFrames]

WifiTypes ==
  /\ gLinks \in [Slot -> Link]
  /\ filling \in 0..MaxPeers
  /\ store \in 1..4
  /\ heard \in Seq(Frame)
  /\ Len(heard) <= MaxFrames

ReportTypes ==
  /\ stage \in {"idle", "rank", "rssi", "var", "format", "publish"}
  /\ at \in 1..(MaxPeers + 1)
  /\ best \in 0..MaxPeers
  /\ taken \subseteq Slot
  /\ view \in [DOMAIN view -> 0..MaxFrames]
  /\ line \in Seq(Entry)
  /\ Len(line) <= ReportPeers
  /\ present \in BOOLEAN

\* Nothing but frames of its own transmitter in a slot; the count comes last.
SlotFilled(i) ==
  /\ gLinks[i].used =>
       /\ gLinks[i].mac \in Macs
       /\ gLinks[i].mean \in FramesOf(gLinks[i].mac) \cup {0}
       /\ gLinks[i].var \in FramesOf(gLinks[i].mac) \cup {0}
       /\ gLinks[i].rssi \in FramesOf(gLinks[i].mac) \cup {0}
       /\ gLinks[i].frames # 0 => gLinks[i].mean # 0 /\ gLinks[i].var # 0 /\ gLinks[i].rssi # 0
       /\ gLinks[i].frames + (IF filling = i THEN 1 ELSE 0) <= Count(gLinks[i].mac)
  /\ ~gLinks[i].used => gLinks[i] = Free

SlotsFilled == \A i \in Slot : SlotFilled(i)

\* What the callback has stored of the frame it is at.
FillingKnown ==
  /\ filling = 0 => store = 1
  /\ filling # 0 =>
       /\ gLinks[filling].used
       /\ Len(heard) \in FramesOf(gLinks[filling].mac)
       /\ store > 1 => gLinks[filling].mean = Len(heard)
       /\ store > 2 => gLinks[filling].var = Len(heard)
       /\ store > 3 => gLinks[filling].rssi = Len(heard)

\* The report is about to print the slot it has chosen.
Chosen == stage \in {"rssi", "var", "format"}

RankingKnown ==
  /\ stage = "idle" => best = 0 /\ taken = {} /\ line = <<>> /\ at = 1
  /\ stage = "rank" /\ best # 0 => gLinks[best].used /\ best \notin taken
  /\ Chosen => best \in taken /\ gLinks[best].used /\ gLinks[best].frames # 0
  /\ stage # "publish" => Len(line) < ReportPeers
  /\ \A i \in taken : gLinks[i].used

\* What has been loaded for the next entry was measured on the chosen peer.
ViewMeasured ==
  /\ DOMAIN view \subseteq Fields
  /\ stage # "format" => DOMAIN view = {}
  /\ \A f \in DOMAIN view :
       view[f] \in IF f = "frames" THEN 1..Count(gLinks[best].mac) ELSE FramesOf(gLinks[best].mac)

\* Each entry is of a slot taken, and not of the one chosen next.
LineNamed ==
  \A k \in 1..Len(line) :
    \E i \in taken : gLinks[i].mac = line[k].mac /\ (Chosen => i # best)

WifiInv == WifiTypes /\ SlotsFilled /\ FillingKnown /\ OneSlotPerPeer
ReportInv == ReportTypes /\ RankingKnown /\ ViewMeasured /\ LineNamed /\ EntriesMeasured
CsiInv == gCsiUp \in BOOLEAN /\ quiet \in BOOLEAN /\ WifiInv /\ ReportInv

-----------------------------------------------------------------------------
(* Slots and frames. *)

\* A set of naturals that is not empty has a least element.
LEMMA LeastExists ==
  ASSUME NEW S \in SUBSET Nat, S # {}
  PROVE  \E i \in S : \A j \in S : i <= j
<1>1. PICK x \in S : \A y \in S : ~ (<<y, x>> \in OpToRel(<, Nat))
  BY NatLessThanWellFounded, WFMin
<1>2. \A y \in S : ~ (y < x)
  BY <1>1 DEF OpToRel
<1>3. QED
  BY <1>2

\* The first of some slots is one of them.
LEMMA FirstIn == ASSUME NEW S \in SUBSET Nat, S # {} PROVE First(S) \in S
BY LeastExists DEF First

\* linkSlot() returns the slot of the transmitter, or a free one when it has none.
LEMMA LinkSlotFound ==
  ASSUME NEW mac, linkSlot(mac) # 0
  PROVE  /\ linkSlot(mac) \in Slot
         /\ \/ gLinks[linkSlot(mac)].used /\ gLinks[linkSlot(mac)].mac = mac
            \/ /\ ~gLinks[linkSlot(mac)].used
               /\ \A j \in Slot : gLinks[j].used => gLinks[j].mac # mac
<1> DEFINE own  == {i \in Slot : gLinks[i].used /\ gLinks[i].mac = mac}
           free == {i \in Slot : ~gLinks[i].used}
<1>1. own \in SUBSET Nat /\ free \in SUBSET Nat
  BY CsiAssumption DEF CsiAssumption, Slot
<1>2. CASE own # {}
  BY <1>1, <1>2, FirstIn DEF linkSlot
<1>3. CASE own = {} /\ free # {}
  BY <1>1, <1>3, FirstIn DEF linkSlot
<1>4. own # {} \/ free # {}
  BY DEF linkSlot
<1>5. QED
  BY <1>2, <1>3, <1>4

\* A transmitter has sent finitely many frames, no more than were heard.
LEMMA CountBounded ==
  ASSUME WifiTypes, NEW mac
  PROVE  /\ IsFiniteSet(FramesOf(mac))
         /\ Count(mac) \in 0..MaxFrames
         /\ FramesOf(mac) \subseteq 1..MaxFrames
<1>1. Len(heard) \in Nat /\ Len(heard) <= MaxFrames /\ MaxFrames \in Nat
  BY CsiAssumption DEF CsiAssumption, WifiTypes
<1>2. FramesOf(mac) \in SUBSET (1..Len(heard))
  BY DEF FramesOf
<1>3. IsFiniteSet(1..Len(heard)) /\ Cardinality(1..Len(heard)) = Len(heard)
  <2>1. \A n \in Nat : IsFiniteSet(1..n) /\ Cardinality(1..n) = n
    BY FS_Interval
  <2>2. QED
    BY <1>1, <2>1
<1>4. /\ IsFiniteSet(FramesOf(mac)) /\ Count(mac) \in Nat /\ Count(mac) <= Len(heard)
  BY <1>2, <1>3, FS_Subset, FS_CardinalityType DEF Count
<1>5. QED
  BY <1>1, <1>2, <1>4

\* What one more frame adds to the frames of each transmitter.
LEMMA HeardGrows ==
  ASSUME WifiTypes, NEW f \in Frame, heard' = Append(heard, f)
  PROVE  /\ \A mac : /\ FramesOf(mac) \subseteq FramesOf(mac)'
                     /\ Count(mac)' \in Nat /\ Count(mac) <= Count(mac)'
         /\ Len(heard') \in FramesOf(f.mac)'
         /\ Count(f.mac)' = Count(f.mac) + 1
<1>1. /\ Len(heard) \in Nat /\ Len(heard') = Len(heard) + 1
      /\ \A n \in 1..Len(heard) : heard'[n] = heard[n]
      /\ heard'[Len(heard) + 1] = f
  BY DEF WifiTypes
<1>2. \A mac : FramesOf(mac)' = IF mac = f.mac THEN FramesOf(mac) \cup {Len(heard) + 1}
                                ELSE FramesOf(mac)
  BY <1>1 DEF FramesOf
<1>3. Len(heard) + 1 \notin FramesOf(f.mac)
  BY <1>1 DEF FramesOf
<1>4. \A mac : IsFiniteSet(FramesOf(mac)) /\ Count(mac) \in Nat
  BY CountBounded
<1>5. Count(f.mac)' = Count(f.mac) + 1
  <2>1. Cardinality(FramesOf(f.mac) \cup {Len(heard) + 1}) = Count(f.mac) + 1
    BY <1>3, <1>4, FS_AddElement DEF Count
  <2>2. QED
    BY <1>2, <2>1 DEF Count
<1>6. \A mac : mac # f.mac => Count(mac)' = Count(mac)
  BY <1>2 DEF Count
<1>7. QED
  BY <1>1, <1>2, <1>4, <1>5, <1>6

-----------------------------------------------------------------------------
(* The WiFi task. *)

\* What the report relies on: slots keep their transmitter and their first frame, and
\* frames are only added.
Persists ==
  /\ \A mac : /\ FramesOf(mac) \subseteq FramesOf(mac)'
              /\ Count(mac)' \in Nat /\ Count(mac) <= Count(mac)'
  /\ \A i \in Slot : gLinks[i].used =>
       /\ gLinks'[i].used /\ gLinks'[i].mac = gLinks[i].mac
       /\ gLinks[i].frames # 0 => gLinks'[i].frames # 0

\* Then nothing the callback does harms a report that is under way.
LEMMA ReportUnharmed ==
  ASSUME CsiInv, WifiTypes', Persists, UNCHANGED reportVars PROVE ReportInv'
<1>0. ReportTypes /\ RankingKnown /\ ViewMeasured /\ LineNamed /\ EntriesMeasured /\ WifiTypes
  BY DEF CsiInv, ReportInv, WifiInv
<1>1. ReportTypes'
  BY <1>0 DEF reportVars, ReportTypes
<1>2. best \in Slot \cup {0} /\ taken \subseteq Slot
  BY <1>0, CsiAssumption DEF CsiAssumption, ReportTypes, Slot
<1>3. RankingKnown'
  BY <1>0, <1>2 DEF reportVars, Persists, RankingKnown, Chosen, ReportTypes, Slot
<1>4. ViewMeasured'
  <2>1. CASE stage # "format"
    BY <1>0, <2>1 DEF reportVars, ViewMeasured
  <2>2. CASE stage = "format"
    <3>1. best \in Slot /\ gLinks[best].used
      BY <1>0, <1>2, <2>2 DEF RankingKnown, Chosen
    <3>2. gLinks'[best].mac = gLinks[best].mac
      BY <3>1 DEF Persists
    <3>3. \A mac : Count(mac) \in Nat /\ Count(mac)' \in Nat /\ Count(mac) <= Count(mac)'
                  /\ FramesOf(mac) \subseteq FramesOf(mac)'
      BY <1>0, CountBounded DEF Persists
    <3>4. QED
      BY <1>0, <3>2, <3>3, <2>2 DEF reportVars, ViewMeasured
  <2>3. QED
    BY <2>1, <2>2
<1>5. LineNamed'
  BY <1>0, <1>2 DEF reportVars, Persists, LineNamed, Chosen, RankingKnown
<1>6. EntriesMeasured'
  <2>1. UNCHANGED line
    BY DEF reportVars
  <2>2. \A mac : Count(mac) \in Nat /\ Count(mac)' \in Nat /\ Count(mac) <= Count(mac)'
                /\ FramesOf(mac) \subseteq FramesOf(mac)'
    BY <1>0, CountBounded DEF Persists
  <2>3. QED
    BY <1>0, <2>1, <2>2 DEF EntriesMeasured, Count
<1>7. QED
  BY <1>1, <1>3, <1>4, <1>5, <1>6 DEF ReportInv

\* A slot that is taken for a transmitter is taken by nobody else, and holds nothing yet.
LEMMA EnteredSlot ==
  ASSUME WifiInv, NEW mac \in Macs, linkSlot(mac) # 0, gLinks' = Entered(linkSlot(mac), mac)
  PROVE  /\ gLinks' \in [Slot -> Link]
         /\ gLinks'[linkSlot(mac)].used /\ gLinks'[linkSlot(mac)].mac = mac
         /\ \A j \in Slot : gLinks'[j] = gLinks[j] \/ (~gLinks[j].used /\ j = linkSlot(mac)
              /\ gLinks'[j] = [mac |-> mac, used |-> TRUE, mean |-> 0, var |-> 0, rssi |-> 0,
                               frames |-> 0])
         /\ OneSlotPerPeer'
<1> DEFINE i == linkSlot(mac)
<1>0. gLinks \in [Slot -> Link] /\ SlotsFilled /\ OneSlotPerPeer
  BY DEF WifiInv, WifiTypes
<1>1. /\ i \in Slot
      /\ \/ gLinks[i].used /\ gLinks[i].mac = mac
         \/ ~gLinks[i].used /\ \A j \in Slot : gLinks[j].used => gLinks[j].mac # mac
  BY LinkSlotFound
<1> HIDE DEF i
<1>2. CASE gLinks[i].used
  <2>1. gLinks' = gLinks
    BY <1>2 DEF Entered, i
  <2>2. QED
    BY <1>0, <1>1, <1>2, <2>1 DEF OneSlotPerPeer, i
<1>3. CASE ~gLinks[i].used
  <2> DEFINE g == [mac |-> mac, used |-> TRUE, mean |-> 0, var |-> 0, rssi |-> 0, frames |-> 0]
  <2>1. gLinks[i] = Free
    BY <1>0, <1>1, <1>3 DEF SlotsFilled, SlotFilled
  <2>2. gLinks' = [gLinks EXCEPT ![i] = g]
    BY <1>3, <2>1 DEF Entered, Free, i
  <2>3. g \in Link
    BY CsiAssumption DEF Link, CsiAssumption
  <2>4. g.mac = mac /\ g.used
    OBVIOUS
  <2> HIDE DEF g
  <2>5. gLinks'[i] = g /\ \A j \in Slot : j # i => gLinks'[j] = gLinks[j]
    BY <1>0, <1>1, <2>2
  <2>6. OneSlotPerPeer'
    BY <1>0, <1>1, <1>3, <2>4, <2>5 DEF OneSlotPerPeer
  <2>7. gLinks' \in [Slot -> Link]
    BY <1>0, <1>1, <2>2, <2>3
  <2>8. QED
    BY <1>1, <1>3, <2>4, <2>5, <2>6, <2>7 DEF i, g
<1>4. QED
  BY <1>2, <1>3

\* The callback gets a frame.
LEMMA ReceiveStep == ASSUME CsiInv, NEW f \in Frame, Receive(f) PROVE CsiInv'
<1> DEFINE i == linkSlot(f.mac)
<1>0. /\ WifiInv /\ WifiTypes /\ SlotsFilled /\ FillingKnown /\ OneSlotPerPeer /\ filling = 0
      /\ f.mac \in Macs /\ gCsiUp \in BOOLEAN /\ quiet \in BOOLEAN
      /\ store = 1
  BY DEF CsiInv, WifiInv, Receive, Frame, FillingKnown
<1>1. /\ heard' = Append(heard, f) /\ Len(heard) < MaxFrames /\ filling' = i
      /\ UNCHANGED <<gCsiUp, store, reportVars>>
      /\ gLinks' = IF i = 0 THEN gLinks ELSE Entered(i, f.mac)
  BY DEF Receive
<1>2. /\ \A mac : /\ FramesOf(mac) \subseteq FramesOf(mac)'
                  /\ Count(mac)' \in Nat /\ Count(mac) <= Count(mac)'
      /\ Len(heard') \in FramesOf(f.mac)'
      /\ Count(f.mac)' = Count(f.mac) + 1
  BY <1>0, <1>1, HeardGrows
<1>3. i # 0 => /\ i \in Slot
               /\ \/ gLinks[i].used /\ gLinks[i].mac = f.mac
                  \/ ~gLinks[i].used
  BY LinkSlotFound
<1>4. i # 0 =>
        /\ gLinks' \in [Slot -> Link]
        /\ gLinks'[i].used /\ gLinks'[i].mac = f.mac
        /\ \A j \in Slot : gLinks'[j] = gLinks[j] \/ (~gLinks[j].used /\ j = i
              /\ gLinks'[j] = [mac |-> f.mac, used |-> TRUE, mean |-> 0, var |-> 0, rssi |-> 0,
                               frames |-> 0])
        /\ OneSlotPerPeer'
  BY <1>0, <1>1, EnteredSlot
<1>5. i = 0 => gLinks' = gLinks
  BY <1>1
<1> HIDE DEF i
<1>6. WifiTypes'
  <2>1. heard' \in Seq(Frame) /\ Len(heard') <= MaxFrames
    BY <1>0, <1>1, CsiAssumption DEF WifiTypes, CsiAssumption
  <2>2. filling' \in 0..MaxPeers /\ store' \in 1..4 /\ gLinks' \in [Slot -> Link]
    BY <1>0, <1>1, <1>3, <1>4, <1>5, CsiAssumption DEF WifiTypes, CsiAssumption, Slot
  <2>3. QED
    BY <2>1, <2>2 DEF WifiTypes
<1>7. OneSlotPerPeer'
  BY <1>0, <1>4, <1>5 DEF OneSlotPerPeer
<1>8. FillingKnown'
  BY <1>0, <1>1, <1>2, <1>4 DEF FillingKnown
<1>9. ASSUME NEW j \in Slot PROVE SlotFilled(j)'
  <2>0. /\ SlotFilled(j) /\ gLinks[j].frames \in Nat
        /\ \A mac : Count(mac) \in Nat
    BY <1>0, CountBounded DEF SlotsFilled, WifiTypes, Link
  <2>1. CASE gLinks'[j] = gLinks[j] /\ ~gLinks[j].used
    <3>1. SlotFilled(j) /\ gLinks'[j] = Free /\ ~gLinks'[j].used
      BY <2>0, <2>1 DEF SlotFilled
    <3>2. QED
      BY <3>1 DEF SlotFilled
  <2>2. CASE gLinks'[j] = gLinks[j] /\ gLinks[j].used
    <3>1. PICK m : m = gLinks[j].mac /\ m = gLinks'[j].mac
      BY <2>2
    <3>2. j = i => m = f.mac
      BY <1>3, <2>2, <3>1, CsiAssumption DEF CsiAssumption, Slot
    <3>3. j = i => Count(m)' = Count(m) + 1
      BY <1>2, <3>2
    <3>4. gLinks[j].frames <= Count(m)
      BY <1>0, <2>0, <2>2, <3>1, CsiAssumption DEF SlotFilled, CsiAssumption, Slot
    <3>5. gLinks[j].frames + (IF filling' = j THEN 1 ELSE 0) <= Count(m)'
      <4>1. Count(m) \in Nat /\ Count(m)' \in Nat /\ Count(m) <= Count(m)'
        BY <1>2, <2>0
      <4>2. CASE j = i
        BY <1>1, <2>0, <3>3, <3>4, <4>1, <4>2
      <4>3. CASE j # i
        BY <1>1, <2>0, <3>4, <4>1, <4>3
      <4>4. QED
        BY <4>2, <4>3
    <3>6. FramesOf(m) \subseteq FramesOf(m)'
      BY <1>2
    <3>7. QED
      BY <2>0, <2>2, <3>1, <3>5, <3>6 DEF SlotFilled, Count, FramesOf
  <2>3. CASE j = i /\ ~gLinks[j].used
              /\ gLinks'[j] = [mac |-> f.mac, used |-> TRUE, mean |-> 0, var |-> 0, rssi |-> 0,
                               frames |-> 0]
    <3>1. /\ gLinks'[j].used /\ gLinks'[j].mac = f.mac /\ gLinks'[j].mean = 0
          /\ gLinks'[j].var = 0 /\ gLinks'[j].rssi = 0 /\ gLinks'[j].frames = 0
      BY <2>3
    <3>2. PICK m : m = f.mac /\ m \in Macs /\ m = gLinks'[j].mac
      BY <1>0, <3>1
    <3>3. 0 + (IF filling' = j THEN 1 ELSE 0) <= Count(m)'
      BY <1>2, <2>0, <3>2
    <3>4. Count(m)' = Count(gLinks[j].mac)' /\ FramesOf(m)' = FramesOf(gLinks[j].mac)'
      BY <3>2
    <3>5. /\ gLinks'[j].mac \in Macs
          /\ gLinks'[j].mean \in FramesOf(m)' \cup {0}
          /\ gLinks'[j].var \in FramesOf(m)' \cup {0}
          /\ gLinks'[j].rssi \in FramesOf(m)' \cup {0}
          /\ gLinks'[j].frames + (IF filling' = j THEN 1 ELSE 0) <= Count(m)'
      BY <3>1, <3>2, <3>3
    <3>6. /\ gLinks'[j].used
          /\ gLinks'[j].frames # 0 => /\ gLinks'[j].mean # 0 /\ gLinks'[j].var # 0
                                      /\ gLinks'[j].rssi # 0
      BY <3>1
    <3>7. /\ gLinks'[j].mean \in FramesOf(gLinks[j].mac)' \cup {0}
          /\ gLinks'[j].var \in FramesOf(gLinks[j].mac)' \cup {0}
          /\ gLinks'[j].rssi \in FramesOf(gLinks[j].mac)' \cup {0}
      BY <3>1
    <3>8. gLinks'[j].frames + (IF filling' = j THEN 1 ELSE 0) <= Count(gLinks[j].mac)'
      BY <3>4, <3>5
    <3>9. QED
      BY <3>1, <3>5, <3>6, <3>7, <3>8 DEF SlotFilled
  <2>4. QED
    BY <1>4, <1>5, <2>1, <2>2, <2>3
<1>10. Persists
  <2>1. \A j \in Slot : gLinks[j].used => gLinks'[j] = gLinks[j]
    BY <1>4, <1>5
  <2>2. QED
    BY <1>2, <2>1 DEF Persists
<1>11. ReportInv'
  BY <1>1, <1>6, <1>10, ReportUnharmed
<1>12. gCsiUp' \in BOOLEAN /\ quiet' \in BOOLEAN
  BY <1>0 DEF Receive
<1>13. QED
  BY <1>6, <1>7, <1>8, <1>9, <1>11, <1>12 DEF CsiInv, WifiInv, SlotsFilled

\* The callback gets a frame with nothing in it.
LEMMA ReceiveEmptyStep == ASSUME CsiInv, NEW mac \in Macs, ReceiveEmpty(mac) PROVE CsiInv'
<1> DEFINE i == linkSlot(mac)
<1>0. /\ WifiInv /\ WifiTypes /\ SlotsFilled /\ FillingKnown /\ filling = 0
      /\ gCsiUp \in BOOLEAN /\ quiet \in BOOLEAN
  BY DEF CsiInv, WifiInv, ReceiveEmpty
<1>1. UNCHANGED <<gCsiUp, filling, store, heard, reportVars>>
  BY DEF ReceiveEmpty
<1>2. \A m : FramesOf(m)' = FramesOf(m) /\ Count(m)' = Count(m) /\ Count(m) \in Nat
  <2>1. \A m : FramesOf(m)' = FramesOf(m)
    BY <1>1 DEF FramesOf
  <2>2. \A m : Count(m) \in Nat
    BY <1>0, CountBounded
  <2>3. QED
    BY <2>1, <2>2 DEF Count
<1>3. /\ i \in Slot
      /\ gLinks' \in [Slot -> Link]
      /\ \A j \in Slot : gLinks'[j] = gLinks[j] \/ (~gLinks[j].used
              /\ gLinks'[j] = [mac |-> mac, used |-> TRUE, mean |-> 0, var |-> 0, rssi |-> 0,
                               frames |-> 0])
      /\ OneSlotPerPeer'
  BY <1>0, LinkSlotFound, EnteredSlot DEF ReceiveEmpty
<1>4. WifiTypes'
  BY <1>0, <1>1, <1>3 DEF WifiTypes
<1>5. FillingKnown'
  BY <1>0, <1>1 DEF FillingKnown
<1>6. ASSUME NEW j \in Slot PROVE SlotFilled(j)'
  <2>0. SlotFilled(j)
    BY <1>0 DEF SlotsFilled
  <2>1. CASE gLinks'[j] = gLinks[j]
    <3>1. PICK m : m = gLinks[j].mac
      OBVIOUS
    <3>2. QED
      BY <1>1, <1>2, <2>0, <2>1, <3>1 DEF SlotFilled, FramesOf, Count
  <2>2. CASE gLinks'[j] = [mac |-> mac, used |-> TRUE, mean |-> 0, var |-> 0, rssi |-> 0,
                           frames |-> 0]
    <3>1. filling' # j
      BY <1>0, <1>1, CsiAssumption DEF CsiAssumption, Slot
    <3>2. Count(mac)' \in Nat
      BY <1>2
    <3>3. QED
      BY <2>2, <3>1, <3>2 DEF SlotFilled, Count
  <2>3. QED
    BY <1>3, <2>1, <2>2
<1>7. Persists
  <2>1. \A j \in Slot : gLinks[j].used => gLinks'[j] = gLinks[j]
    BY <1>3
  <2>2. QED
    BY <1>2, <2>1 DEF Persists
<1>8. ReportInv'
  BY <1>1, <1>4, <1>7, ReportUnharmed
<1>9. gCsiUp' \in BOOLEAN /\ quiet' \in BOOLEAN
  BY <1>0 DEF ReceiveEmpty
<1>10. QED
  BY <1>3, <1>4, <1>5, <1>6, <1>8, <1>9 DEF CsiInv, WifiInv, SlotsFilled

\* One of the callback's four stores: the first three leave the frame's number, the
\* last counts it.
LEMMA StoreEffect ==
  ASSUME WifiInv, Store
  PROVE  /\ filling \in Slot
         /\ \A j \in Slot : j # filling => gLinks'[j] = gLinks[j]
         /\ gLinks'[filling].used = gLinks[filling].used
         /\ gLinks'[filling].mac = gLinks[filling].mac
         /\ gLinks'[filling].mean = IF store = 1 THEN Len(heard) ELSE gLinks[filling].mean
         /\ gLinks'[filling].var = IF store = 2 THEN Len(heard) ELSE gLinks[filling].var
         /\ gLinks'[filling].rssi = IF store = 3 THEN Len(heard) ELSE gLinks[filling].rssi
         /\ gLinks'[filling].frames = IF store = 4 THEN gLinks[filling].frames + 1
                                      ELSE gLinks[filling].frames
         /\ DOMAIN gLinks' = Slot /\ gLinks' = [j \in Slot |-> gLinks'[j]]
         /\ gLinks'[filling] \in [mac : Macs \cup {NoMac}, used : BOOLEAN, mean : Nat, var : Nat,
                                  rssi : Nat, frames : Nat]
         /\ IF store = 4 THEN store' = 1 /\ filling' = 0
            ELSE store' = store + 1 /\ filling' = filling
<1> DEFINE g == gLinks[filling]
           Wide == [mac : Macs \cup {NoMac}, used : BOOLEAN, mean : Nat, var : Nat, rssi : Nat,
                    frames : Nat]
<1>0. /\ gLinks \in [Slot -> Link] /\ filling \in 0..MaxPeers /\ filling # 0 /\ store \in 1..4
      /\ Len(heard) \in Nat /\ MaxFrames \in Nat
  BY CsiAssumption DEF WifiInv, WifiTypes, Store, CsiAssumption
<1>1. filling \in Slot
  BY <1>0, CsiAssumption DEF CsiAssumption, Slot
<1>2. g \in Wide
  BY <1>0, <1>1 DEF Link
<1>3. /\ Len(StoreOrder) = 4 /\ StoreOrder[1] = "mean" /\ StoreOrder[2] = "var"
      /\ StoreOrder[3] = "rssi" /\ StoreOrder[4] = "frames"
  BY DEF StoreOrder
<1>4. IF store = 4 THEN store' = 1 /\ filling' = 0 ELSE store' = store + 1 /\ filling' = filling
  BY <1>3 DEF Store
<1>5. ASSUME NEW h, gLinks' = [gLinks EXCEPT ![filling] = h]
      PROVE  /\ gLinks'[filling] = h
             /\ \A j \in Slot : j # filling => gLinks'[j] = gLinks[j]
             /\ DOMAIN gLinks' = Slot /\ gLinks' = [j \in Slot |-> gLinks'[j]]
  BY <1>0, <1>1, <1>5
<1> DEFINE Effect ==
             /\ \A j \in Slot : j # filling => gLinks'[j] = gLinks[j]
             /\ DOMAIN gLinks' = Slot /\ gLinks' = [j \in Slot |-> gLinks'[j]]
             /\ gLinks'[filling] \in Wide
             /\ gLinks'[filling].used = g.used
             /\ gLinks'[filling].mac = g.mac
             /\ gLinks'[filling].mean = IF store = 1 THEN Len(heard) ELSE g.mean
             /\ gLinks'[filling].var = IF store = 2 THEN Len(heard) ELSE g.var
             /\ gLinks'[filling].rssi = IF store = 3 THEN Len(heard) ELSE g.rssi
             /\ gLinks'[filling].frames = IF store = 4 THEN g.frames + 1 ELSE g.frames
<1>6. ASSUME store = 1 PROVE Effect
  <2> DEFINE h == [g EXCEPT !["mean"] = Len(heard)]
  <2>1. gLinks' = [gLinks EXCEPT ![filling] = h]
    BY <1>3, <1>6 DEF Store
  <2>2. /\ h \in Wide /\ h.used = g.used /\ h.mac = g.mac /\ h.mean = Len(heard)
        /\ h.var = g.var /\ h.rssi = g.rssi /\ h.frames = g.frames
    BY <1>0, <1>2
  <2> HIDE DEF h, g, Wide
  <2>3. /\ gLinks'[filling] = h
        /\ \A j \in Slot : j # filling => gLinks'[j] = gLinks[j]
        /\ DOMAIN gLinks' = Slot /\ gLinks' = [j \in Slot |-> gLinks'[j]]
    BY <1>5, <2>1
  <2>4. QED
    BY <1>6, <2>2, <2>3
<1>7. ASSUME store = 2 PROVE Effect
  <2> DEFINE h == [g EXCEPT !["var"] = Len(heard)]
  <2>1. gLinks' = [gLinks EXCEPT ![filling] = h]
    BY <1>3, <1>7 DEF Store
  <2>2. /\ h \in Wide /\ h.used = g.used /\ h.mac = g.mac /\ h.mean = g.mean
        /\ h.var = Len(heard) /\ h.rssi = g.rssi /\ h.frames = g.frames
    BY <1>0, <1>2
  <2> HIDE DEF h, g, Wide
  <2>3. /\ gLinks'[filling] = h
        /\ \A j \in Slot : j # filling => gLinks'[j] = gLinks[j]
        /\ DOMAIN gLinks' = Slot /\ gLinks' = [j \in Slot |-> gLinks'[j]]
    BY <1>5, <2>1
  <2>4. QED
    BY <1>7, <2>2, <2>3
<1>8. ASSUME store = 3 PROVE Effect
  <2> DEFINE h == [g EXCEPT !["rssi"] = Len(heard)]
  <2>1. gLinks' = [gLinks EXCEPT ![filling] = h]
    BY <1>3, <1>8 DEF Store
  <2>2. /\ h \in Wide /\ h.used = g.used /\ h.mac = g.mac /\ h.mean = g.mean
        /\ h.var = g.var /\ h.rssi = Len(heard) /\ h.frames = g.frames
    BY <1>0, <1>2
  <2> HIDE DEF h, g, Wide
  <2>3. /\ gLinks'[filling] = h
        /\ \A j \in Slot : j # filling => gLinks'[j] = gLinks[j]
        /\ DOMAIN gLinks' = Slot /\ gLinks' = [j \in Slot |-> gLinks'[j]]
    BY <1>5, <2>1
  <2>4. QED
    BY <1>8, <2>2, <2>3
<1>9. ASSUME store = 4 PROVE Effect
  <2> DEFINE h == [g EXCEPT !["frames"] = g.frames + 1]
  <2>1. gLinks' = [gLinks EXCEPT ![filling] = h]
    BY <1>3, <1>9 DEF Store
  <2>2. /\ h \in Wide /\ h.used = g.used /\ h.mac = g.mac /\ h.mean = g.mean
        /\ h.var = g.var /\ h.rssi = g.rssi /\ h.frames = g.frames + 1
    BY <1>0, <1>2
  <2> HIDE DEF h, g, Wide
  <2>3. /\ gLinks'[filling] = h
        /\ \A j \in Slot : j # filling => gLinks'[j] = gLinks[j]
        /\ DOMAIN gLinks' = Slot /\ gLinks' = [j \in Slot |-> gLinks'[j]]
    BY <1>5, <2>1
  <2>4. QED
    BY <1>9, <2>2, <2>3
<1>10. Effect
  BY <1>0, <1>6, <1>7, <1>8, <1>9
<1>11. QED
  BY <1>1, <1>4, <1>10

\* A store of the callback: a number of the frame at hand, or one more frame of those
\* heard of this transmitter.
LEMMA StoreStep == ASSUME CsiInv, Store PROVE CsiInv'
<1>0. /\ WifiInv /\ WifiTypes /\ SlotsFilled /\ FillingKnown /\ OneSlotPerPeer
      /\ gCsiUp \in BOOLEAN /\ quiet \in BOOLEAN /\ store \in 1..4
      /\ UNCHANGED <<gCsiUp, heard, reportVars, quiet>>
  BY DEF CsiInv, WifiInv, WifiTypes, Store
<1>1. /\ filling \in Slot
      /\ \A j \in Slot : j # filling => gLinks'[j] = gLinks[j]
      /\ gLinks'[filling].used = gLinks[filling].used
      /\ gLinks'[filling].mac = gLinks[filling].mac
      /\ gLinks'[filling].mean = IF store = 1 THEN Len(heard) ELSE gLinks[filling].mean
      /\ gLinks'[filling].var = IF store = 2 THEN Len(heard) ELSE gLinks[filling].var
      /\ gLinks'[filling].rssi = IF store = 3 THEN Len(heard) ELSE gLinks[filling].rssi
      /\ gLinks'[filling].frames = IF store = 4 THEN gLinks[filling].frames + 1
                                   ELSE gLinks[filling].frames
      /\ DOMAIN gLinks' = Slot /\ gLinks' = [j \in Slot |-> gLinks'[j]]
      /\ gLinks'[filling] \in [mac : Macs \cup {NoMac}, used : BOOLEAN, mean : Nat, var : Nat,
                               rssi : Nat, frames : Nat]
      /\ IF store = 4 THEN store' = 1 /\ filling' = 0
         ELSE store' = store + 1 /\ filling' = filling
  BY <1>0, StoreEffect
<1>2. PICK m : m = gLinks[filling].mac /\ m = gLinks'[filling].mac
  BY <1>1
<1>3. \A mac : FramesOf(mac)' = FramesOf(mac)
  BY <1>0 DEF FramesOf
<1>4. \A mac : Count(mac)' = Count(mac) /\ Count(mac) \in 0..MaxFrames
                /\ FramesOf(mac) \subseteq 1..MaxFrames
  BY <1>0, <1>3, CountBounded DEF Count
<1>5. /\ filling # 0 /\ gLinks[filling].used /\ Len(heard) \in FramesOf(m) /\ m \in Macs
      /\ Len(heard) # 0
      /\ store > 1 => gLinks[filling].mean = Len(heard)
      /\ store > 2 => gLinks[filling].var = Len(heard)
      /\ store > 3 => gLinks[filling].rssi = Len(heard)
      /\ gLinks[filling].mean \in FramesOf(m) \cup {0}
      /\ gLinks[filling].var \in FramesOf(m) \cup {0}
      /\ gLinks[filling].rssi \in FramesOf(m) \cup {0}
      /\ gLinks[filling].frames # 0 => /\ gLinks[filling].mean # 0 /\ gLinks[filling].var # 0
                                       /\ gLinks[filling].rssi # 0
      /\ gLinks[filling].frames + 1 <= Count(m)
      /\ gLinks[filling].frames \in Nat
  <2>1. /\ filling # 0 /\ gLinks[filling].used /\ Len(heard) \in FramesOf(m)
        /\ store > 1 => gLinks[filling].mean = Len(heard)
        /\ store > 2 => gLinks[filling].var = Len(heard)
        /\ store > 3 => gLinks[filling].rssi = Len(heard)
    BY <1>0, <1>1, <1>2, CsiAssumption DEF FillingKnown, CsiAssumption, Slot
  <2>2. Len(heard) # 0
    BY <1>4, <2>1, CsiAssumption DEF CsiAssumption
  <2>3. SlotFilled(filling) /\ gLinks[filling] \in Link
    BY <1>0, <1>1 DEF SlotsFilled, WifiTypes
  <2>4. gLinks[filling].frames \in Nat
    BY <2>3 DEF Link
  <2>5. QED
    BY <1>2, <2>1, <2>2, <2>3, <2>4 DEF SlotFilled
<1>6. /\ gLinks'[filling].used
      /\ gLinks'[filling].mean \in FramesOf(m) \cup {0}
      /\ gLinks'[filling].var \in FramesOf(m) \cup {0}
      /\ gLinks'[filling].rssi \in FramesOf(m) \cup {0}
      /\ gLinks'[filling].frames \in Nat
      /\ gLinks'[filling].frames + (IF filling' = filling THEN 1 ELSE 0) <= Count(m)
  <2>1. gLinks'[filling].frames \in Nat
        /\ gLinks'[filling].frames + (IF filling' = filling THEN 1 ELSE 0) <= Count(m)
    <3>1. CASE store = 4
      <4>1. filling' # filling /\ gLinks'[filling].frames = gLinks[filling].frames + 1
        BY <1>1, <1>5, <3>1
      <4>2. QED
        BY <1>5, <4>1
    <3>2. CASE store # 4
      <4>1. filling' = filling /\ gLinks'[filling].frames = gLinks[filling].frames
        BY <1>1, <3>2
      <4>2. QED
        BY <1>5, <4>1
    <3>3. QED
      BY <3>1, <3>2
  <2>2. QED
    BY <1>1, <1>5, <2>1
<1>7. gLinks'[filling].frames # 0 => /\ gLinks'[filling].mean # 0 /\ gLinks'[filling].var # 0
                                    /\ gLinks'[filling].rssi # 0
  <2>1. CASE store = 4
    BY <1>1, <1>5, <2>1
  <2>2. CASE store # 4
    BY <1>1, <1>5, <2>2
  <2>3. QED
    BY <2>1, <2>2
<1>8. ASSUME NEW j \in Slot PROVE SlotFilled(j)'
  <2>1. CASE j = filling
    <3>1. Count(m)' = Count(gLinks[j].mac)' /\ FramesOf(m)' = FramesOf(gLinks[j].mac)'
      BY <1>2, <2>1
    <3>2. /\ gLinks'[j].mac \in Macs
          /\ gLinks'[j].mean \in FramesOf(m)' \cup {0}
          /\ gLinks'[j].var \in FramesOf(m)' \cup {0}
          /\ gLinks'[j].rssi \in FramesOf(m)' \cup {0}
          /\ gLinks'[j].frames + (IF filling' = j THEN 1 ELSE 0) <= Count(m)'
      BY <1>2, <1>3, <1>4, <1>5, <1>6, <2>1
    <3>3. QED
      BY <1>6, <1>7, <2>1, <3>1, <3>2 DEF SlotFilled
  <2>2. CASE j # filling
    <3>1. gLinks'[j] = gLinks[j] /\ SlotFilled(j) /\ filling' # j
      BY <1>0, <1>1, <2>2, CsiAssumption DEF SlotsFilled, CsiAssumption, Slot
    <3>2. PICK n : n = gLinks[j].mac /\ n = gLinks'[j].mac
      BY <3>1
    <3>3. Count(n)' = Count(n) /\ FramesOf(n)' = FramesOf(n)
      BY <1>3, <1>4
    <3>4. QED
      BY <2>2, <3>1, <3>2, <3>3 DEF SlotFilled, Count, FramesOf
  <2>3. QED
    BY <2>1, <2>2
<1>9. WifiTypes'
  <2>1. gLinks'[filling] \in Link
    <3>1. gLinks'[filling].mean \in 0..MaxFrames /\ gLinks'[filling].var \in 0..MaxFrames
          /\ gLinks'[filling].rssi \in 0..MaxFrames
      BY <1>4, <1>6, CsiAssumption DEF CsiAssumption
    <3>2. gLinks'[filling].frames \in 0..MaxFrames
      <4>1. Count(m) \in 0..MaxFrames /\ MaxFrames \in Nat
        BY <1>4, CsiAssumption DEF CsiAssumption
      <4>2. QED
        BY <1>6, <4>1
    <3>3. QED
      BY <1>1, <3>1, <3>2 DEF Link
  <2>2. \A j \in Slot : gLinks'[j] \in Link
    BY <1>0, <1>1, <2>1 DEF WifiTypes
  <2>3. gLinks' \in [Slot -> Link]
    BY <1>1, <2>2
  <2>4. filling' \in 0..MaxPeers /\ store' \in 1..4
    BY <1>0, <1>1, CsiAssumption DEF WifiTypes, CsiAssumption
  <2>5. QED
    BY <1>0, <2>3, <2>4 DEF WifiTypes
<1>10. FillingKnown'
  <2>1. CASE store = 4
    BY <1>1, <2>1 DEF FillingKnown
  <2>2. CASE store # 4
    <3>1. /\ filling' = filling /\ store' = store + 1 /\ filling # 0 /\ heard' = heard
      BY <1>0, <1>1, <1>5, <2>2
    <3>2. /\ store' > 1 => gLinks'[filling].mean = Len(heard)
          /\ store' > 2 => gLinks'[filling].var = Len(heard)
          /\ store' > 3 => gLinks'[filling].rssi = Len(heard)
      BY <1>0, <1>1, <1>5, <2>2, <3>1
    <3>3. QED
      BY <1>2, <1>3, <1>5, <1>6, <3>1, <3>2 DEF FillingKnown, FramesOf
  <2>3. QED
    BY <2>1, <2>2
<1>11. \A j \in Slot : gLinks'[j].used = gLinks[j].used /\ gLinks'[j].mac = gLinks[j].mac
  BY <1>1
<1>12. OneSlotPerPeer'
  BY <1>0, <1>11 DEF OneSlotPerPeer
<1>13. Persists
  <2>1. gLinks[filling].frames # 0 => gLinks'[filling].frames # 0
    BY <1>1, <1>5
  <2>2. \A j \in Slot : gLinks[j].frames # 0 => gLinks'[j].frames # 0
    BY <1>1, <2>1
  <2>3. \A mac : FramesOf(mac) \subseteq FramesOf(mac)' /\ Count(mac)' \in Nat
                 /\ Count(mac) <= Count(mac)'
    BY <1>3, <1>4, CsiAssumption DEF CsiAssumption
  <2>4. QED
    BY <1>11, <2>2, <2>3 DEF Persists
<1>14. ReportInv'
  BY <1>0, <1>9, <1>13, ReportUnharmed
<1>15. QED
  BY <1>0, <1>8, <1>9, <1>10, <1>12, <1>14 DEF CsiInv, WifiInv, SlotsFilled

-----------------------------------------------------------------------------
(* The main task. *)

\* The report only reads: the table and the frames heard stay as they are.
LEMMA TableKept ==
  ASSUME WifiInv, UNCHANGED wifiVars
  PROVE  /\ WifiInv' /\ UNCHANGED <<gLinks, heard>>
         /\ \A mac : FramesOf(mac)' = FramesOf(mac) /\ Count(mac)' = Count(mac)
<1>1. UNCHANGED <<gLinks, filling, store, heard>>
  BY DEF wifiVars
<1>2. \A mac : FramesOf(mac)' = FramesOf(mac)
  BY <1>1 DEF FramesOf
<1>3. \A mac : Count(mac)' = Count(mac)
  BY <1>2 DEF Count
<1>4. WifiTypes' /\ FillingKnown' /\ OneSlotPerPeer'
  BY <1>1 DEF WifiInv, WifiTypes, FillingKnown, OneSlotPerPeer, FramesOf
<1>5. SlotsFilled'
  BY <1>1 DEF WifiInv, SlotsFilled, SlotFilled, Count, FramesOf
<1>6. QED
  BY <1>1, <1>2, <1>3, <1>4, <1>5 DEF WifiInv

\* The entries of the line stay true while the line and the frames heard do.
LEMMA EntriesKept ==
  ASSUME EntriesMeasured, UNCHANGED <<line, heard>> PROVE EntriesMeasured'
<1>1. \A mac : FramesOf(mac)' = FramesOf(mac)
  BY DEF FramesOf
<1>2. QED
  BY <1>1 DEF EntriesMeasured

\* A step of the ranking: the best so far is a slot in use that is not in the line.
LEMMA RankStep == ASSUME CsiInv, Rank PROVE CsiInv'
<1>0. /\ WifiInv /\ WifiTypes /\ ReportTypes /\ RankingKnown /\ ViewMeasured /\ LineNamed
      /\ EntriesMeasured /\ gCsiUp \in BOOLEAN /\ quiet \in BOOLEAN
  BY DEF CsiInv, WifiInv, ReportInv
<1>1. /\ stage = "rank" /\ at <= MaxPeers /\ at' = at + 1
      /\ best' = IF Eligible(at) /\ Busier(at) THEN at ELSE best
      /\ UNCHANGED <<gCsiUp, wifiVars, stage, taken, view, line, present, quiet>>
  BY DEF Rank
<1>2. WifiInv' /\ UNCHANGED <<gLinks, heard>>
  BY <1>0, <1>1, TableKept
<1>3. at \in Slot /\ at' \in 1..(MaxPeers + 1) /\ best' \in 0..MaxPeers
  BY <1>0, <1>1, CsiAssumption DEF CsiAssumption, ReportTypes, Slot
<1>4. ReportTypes'
  BY <1>0, <1>1, <1>3 DEF ReportTypes
<1>5. RankingKnown'
  BY <1>0, <1>1, <1>2 DEF RankingKnown, Chosen, Eligible
<1>6. ViewMeasured'
  BY <1>0, <1>1 DEF ViewMeasured
<1>7. LineNamed'
  BY <1>0, <1>1, <1>2 DEF LineNamed, Chosen
<1>8. EntriesMeasured'
  BY <1>0, <1>1, <1>2, EntriesKept
<1>9. QED
  BY <1>0, <1>1, <1>2, <1>4, <1>5, <1>6, <1>7, <1>8 DEF CsiInv, ReportInv

\* The report begins, gives up, and reads the two numbers of the presence flag.
LEMMA LookStep ==
  ASSUME CsiInv, Begin \/ GiveUp \/ LookRssi \/ LookVar PROVE CsiInv'
<1>0. /\ WifiInv /\ WifiTypes /\ ReportTypes /\ RankingKnown /\ ViewMeasured /\ LineNamed
      /\ EntriesMeasured /\ gCsiUp \in BOOLEAN /\ quiet \in BOOLEAN
  BY DEF CsiInv, WifiInv, ReportInv
<1>1. /\ UNCHANGED <<gCsiUp, wifiVars, at, best, taken, view, line>>
      /\ quiet' \in BOOLEAN
      /\ \/ stage = "idle" /\ stage' = "rank" /\ present' = present
         \/ stage = "rank" /\ stage' = "publish" /\ present' = present
         \/ stage = "rssi" /\ stage' \in {"var", "format"} /\ present' = present
         \/ stage = "var" /\ stage' = "format" /\ present' \in BOOLEAN
  BY <1>0 DEF Begin, GiveUp, LookRssi, LookVar, ReportTypes
<1>2. WifiInv' /\ UNCHANGED <<gLinks, heard>>
      /\ \A mac : FramesOf(mac)' = FramesOf(mac) /\ Count(mac)' = Count(mac)
  BY <1>0, <1>1, TableKept
<1>4. ReportTypes'
  BY <1>0, <1>1 DEF ReportTypes
<1>5. RankingKnown'
  BY <1>0, <1>1, <1>2 DEF RankingKnown, Chosen
<1>6. ViewMeasured'
  BY <1>0, <1>1 DEF ViewMeasured
<1>7. LineNamed'
  BY <1>0, <1>1, <1>2 DEF LineNamed, Chosen, RankingKnown
<1>8. EntriesMeasured'
  BY <1>0, <1>1, <1>2, EntriesKept
<1>9. QED
  BY <1>0, <1>1, <1>2, <1>4, <1>5, <1>6, <1>7, <1>8 DEF CsiInv, ReportInv

\* The slot chosen was not in the line; those in the line are others.
LEMMA ChooseStep == ASSUME CsiInv, Choose PROVE CsiInv'
<1>0. /\ WifiInv /\ WifiTypes /\ ReportTypes /\ RankingKnown /\ ViewMeasured /\ LineNamed
      /\ EntriesMeasured /\ gCsiUp \in BOOLEAN /\ quiet \in BOOLEAN
  BY DEF CsiInv, WifiInv, ReportInv
<1>1. /\ stage = "rank" /\ best # 0 /\ gLinks[best].frames # 0
      /\ taken' = taken \cup {best} /\ stage' = "rssi"
      /\ UNCHANGED <<gCsiUp, wifiVars, at, best, view, line, present, quiet>>
  BY DEF Choose
<1>2. WifiInv' /\ UNCHANGED <<gLinks, heard>>
  BY <1>0, <1>1, TableKept
<1>3. best \in Slot
  BY <1>0, <1>1, CsiAssumption DEF CsiAssumption, ReportTypes, Slot
<1>4. ReportTypes'
  BY <1>0, <1>1, <1>3 DEF ReportTypes
<1>5. RankingKnown'
  BY <1>0, <1>1, <1>2 DEF RankingKnown, Chosen
<1>6. ViewMeasured'
  BY <1>0, <1>1 DEF ViewMeasured
<1>7. LineNamed'
  <2>1. best \notin taken
    BY <1>0, <1>1 DEF RankingKnown
  <2>2. QED
    BY <1>0, <1>1, <1>2, <2>1 DEF LineNamed, Chosen
<1>8. EntriesMeasured'
  BY <1>0, <1>1, <1>2, EntriesKept
<1>9. QED
  BY <1>0, <1>1, <1>2, <1>4, <1>5, <1>6, <1>7, <1>8 DEF CsiInv, ReportInv
\* A number is loaded from the slot chosen: it has been counted, so each of its numbers
\* is of a frame of its transmitter.
LEMMA LoadStep == ASSUME CsiInv, NEW f \in Fields, Load(f) PROVE CsiInv'
<1>0. /\ WifiInv /\ WifiTypes /\ SlotsFilled /\ ReportTypes /\ RankingKnown /\ ViewMeasured
      /\ LineNamed /\ EntriesMeasured /\ gCsiUp \in BOOLEAN /\ quiet \in BOOLEAN
  BY DEF CsiInv, WifiInv, ReportInv
<1>1. /\ stage = "format"
      /\ view' = [g \in DOMAIN view \cup {f} |-> IF g = f THEN gLinks[best][f] ELSE view[g]]
      /\ UNCHANGED <<gCsiUp, wifiVars, stage, at, best, taken, line, present, quiet>>
  BY DEF Load
<1>2. WifiInv' /\ UNCHANGED <<gLinks, heard>>
      /\ \A mac : FramesOf(mac)' = FramesOf(mac) /\ Count(mac)' = Count(mac)
  BY <1>0, <1>1, TableKept
<1>3. best \in Slot /\ gLinks[best].used /\ gLinks[best].frames # 0 /\ gLinks[best] \in Link
  BY <1>0, <1>1, CsiAssumption
  DEF CsiAssumption, ReportTypes, WifiTypes, RankingKnown, Chosen, Slot
<1>4. gLinks[best][f] \in 0..MaxFrames
  BY <1>3 DEF Link, Fields
<1>5. gLinks[best][f] \in IF f = "frames" THEN 1..Count(gLinks[best].mac)
                          ELSE FramesOf(gLinks[best].mac)
  <2>1. SlotFilled(best)
    BY <1>0, <1>3 DEF SlotsFilled
  <2>2. /\ gLinks[best].mean \in FramesOf(gLinks[best].mac)
        /\ gLinks[best].var \in FramesOf(gLinks[best].mac)
        /\ gLinks[best].rssi \in FramesOf(gLinks[best].mac)
    BY <1>3, <2>1 DEF SlotFilled
  <2>3. Count(gLinks[best].mac) \in Nat /\ gLinks[best].frames \in Nat
    BY <1>0, <1>3, CountBounded DEF Link
  <2>4. gLinks[best].frames \in 1..Count(gLinks[best].mac)
    BY <1>3, <2>1, <2>3 DEF SlotFilled
  <2>5. QED
    BY <2>2, <2>4 DEF Fields
<1>6. ReportTypes'
  <2>1. view' \in [DOMAIN view' -> 0..MaxFrames]
    BY <1>0, <1>1, <1>4 DEF ReportTypes
  <2>2. QED
    BY <1>0, <1>1, <2>1 DEF ReportTypes
<1>7. RankingKnown'
  BY <1>0, <1>1, <1>2 DEF RankingKnown, Chosen
<1>8. ViewMeasured'
  <2>1. DOMAIN view' = DOMAIN view \cup {f} /\ view'[f] = gLinks[best][f]
        /\ \A g \in DOMAIN view : g # f => view'[g] = view[g]
    BY <1>1
  <2>2. PICK m : m = gLinks[best].mac /\ m = gLinks'[best'].mac
    BY <1>1, <1>2
  <2>3. Count(m)' = Count(m) /\ FramesOf(m)' = FramesOf(m)
    BY <1>2
  <2>4. \A g \in DOMAIN view' : view'[g] \in IF g = "frames" THEN 1..Count(m) ELSE FramesOf(m)
    BY <1>0, <1>5, <2>1, <2>2 DEF ViewMeasured
  <2>5. \A g \in DOMAIN view' :
          view'[g] \in IF g = "frames" THEN 1..Count(gLinks[best].mac)' ELSE FramesOf(gLinks[best].mac)'
    BY <1>1, <1>2, <2>2, <2>4
  <2>6. DOMAIN view' \subseteq Fields /\ stage' = "format"
    BY <1>0, <1>1, <2>1 DEF ViewMeasured
  <2>7. QED
    BY <2>5, <2>6 DEF ViewMeasured
<1>9. LineNamed'
  BY <1>0, <1>1, <1>2 DEF LineNamed, Chosen
<1>10. EntriesMeasured'
  BY <1>0, <1>1, <1>2, EntriesKept
<1>11. QED
  BY <1>0, <1>1, <1>2, <1>6, <1>7, <1>8, <1>9, <1>10 DEF CsiInv, ReportInv

\* The entry of the slot chosen: its transmitter is not in the line, since the line's
\* are in other slots.
LEMMA FormatStep == ASSUME CsiInv, Format PROVE CsiInv'
<1> DEFINE e == [mac |-> gLinks[best].mac, mean |-> view.mean, var |-> view.var,
                 rssi |-> view.rssi, frames |-> view.frames]
<1>0. /\ WifiInv /\ WifiTypes /\ SlotsFilled /\ OneSlotPerPeer /\ ReportTypes /\ RankingKnown
      /\ ViewMeasured /\ LineNamed /\ EntriesMeasured /\ gCsiUp \in BOOLEAN /\ quiet \in BOOLEAN
  BY DEF CsiInv, WifiInv, ReportInv
<1>1. /\ stage = "format" /\ DOMAIN view = Fields
      /\ line' = Append(line, e)
      /\ stage' = IF Len(line') = ReportPeers THEN "publish" ELSE "rank"
      /\ at' = 1 /\ best' = 0 /\ view' = [f \in {} |-> 0]
      /\ UNCHANGED <<gCsiUp, wifiVars, taken, present, quiet>>
  BY DEF Format, Fields
<1>2. WifiInv' /\ UNCHANGED <<gLinks, heard>>
      /\ \A mac : FramesOf(mac)' = FramesOf(mac) /\ Count(mac)' = Count(mac)
  BY <1>0, <1>1, TableKept
<1>3. best \in Slot /\ best \in taken /\ gLinks[best].used /\ taken \subseteq Slot
  BY <1>0, <1>1, CsiAssumption DEF CsiAssumption, ReportTypes, RankingKnown, Chosen, Slot
<1>4. /\ e.mac = gLinks[best].mac /\ e.mac \in Macs
      /\ e.mean \in FramesOf(e.mac) /\ e.var \in FramesOf(e.mac) /\ e.rssi \in FramesOf(e.mac)
      /\ e.frames \in 1..Count(e.mac)
      /\ e \in Entry
  <2>1. gLinks[best].mac \in Macs
    BY <1>0, <1>3 DEF SlotsFilled, SlotFilled
  <2>2. /\ view["mean"] \in FramesOf(gLinks[best].mac)
        /\ view["var"] \in FramesOf(gLinks[best].mac)
        /\ view["rssi"] \in FramesOf(gLinks[best].mac)
        /\ view["frames"] \in 1..Count(gLinks[best].mac)
    BY <1>0, <1>1 DEF ViewMeasured, Fields
  <2>3. /\ view["mean"] \in 0..MaxFrames /\ view["var"] \in 0..MaxFrames
        /\ view["rssi"] \in 0..MaxFrames /\ view["frames"] \in 0..MaxFrames
    BY <1>0, <1>1 DEF ReportTypes, Fields
  <2>4. QED
    BY <2>1, <2>2, <2>3 DEF Entry
<1>5. \A k \in 1..Len(line) : line[k].mac # e.mac
  <2>1. SUFFICES ASSUME NEW k \in 1..Len(line) PROVE line[k].mac # e.mac
    OBVIOUS
  <2>2. PICK i \in taken : gLinks[i].mac = line[k].mac /\ i # best
    BY <1>0, <1>1 DEF LineNamed, Chosen
  <2>3. gLinks[i].used /\ i \in Slot
    BY <1>0, <1>3, <2>2 DEF RankingKnown
  <2>4. gLinks[i].mac # gLinks[best].mac
    BY <1>0, <1>3, <2>2, <2>3 DEF OneSlotPerPeer
  <2>5. QED
    BY <1>4, <2>2, <2>4
<1> HIDE DEF e
<1>6. /\ Len(line) \in Nat /\ Len(line') = Len(line) + 1 /\ line' \in Seq(Entry)
      /\ \A k \in 1..Len(line) : line'[k] = line[k]
      /\ line'[Len(line) + 1] = e
      /\ Len(line) < ReportPeers
  BY <1>0, <1>1, <1>4 DEF ReportTypes, RankingKnown
<1>7. ReportTypes'
  <2>1. Len(line') <= ReportPeers /\ at' \in 1..(MaxPeers + 1) /\ best' \in 0..MaxPeers
    BY <1>1, <1>6, CsiAssumption DEF CsiAssumption
  <2>2. view' \in [DOMAIN view' -> 0..MaxFrames]
    BY <1>1
  <2>3. QED
    BY <1>0, <1>1, <1>6, <2>1, <2>2 DEF ReportTypes
<1>8. RankingKnown'
  BY <1>0, <1>1, <1>2, <1>6, CsiAssumption DEF RankingKnown, Chosen, CsiAssumption
<1>9. ViewMeasured'
  BY <1>1 DEF ViewMeasured
<1>10. LineNamed'
  <2>1. \A k \in 1..Len(line) : \E i \in taken : gLinks[i].mac = line[k].mac
    BY <1>0 DEF LineNamed
  <2>2. \A k \in 1..Len(line') : \E i \in taken : gLinks[i].mac = line'[k].mac
    BY <1>3, <1>4, <1>6, <2>1
  <2>3. QED
    BY <1>1, <1>2, <2>2 DEF LineNamed, Chosen
<1>11. EntriesMeasured'
  <2>1. SUFFICES ASSUME NEW k \in 1..Len(line')
                 PROVE  /\ \A l \in 1..(k - 1) : line'[l].mac # line'[k].mac
                        /\ {line'[k].mean, line'[k].var, line'[k].rssi} \subseteq FramesOf(line'[k].mac)
                        /\ line'[k].frames \in 1..Count(line'[k].mac)
    BY <1>2 DEF EntriesMeasured, Count
  <2>2. CASE k \in 1..Len(line)
    BY <1>0, <1>6, <2>2 DEF EntriesMeasured, Count
  <2>3. CASE k = Len(line) + 1
    BY <1>4, <1>5, <1>6, <2>3
  <2>4. QED
    BY <1>6, <2>2, <2>3
<1>12. QED
  BY <1>0, <1>1, <1>2, <1>7, <1>8, <1>9, <1>10, <1>11 DEF CsiInv, ReportInv

\* The line is sent, and the next one starts empty.
LEMMA PublishStep == ASSUME CsiInv, Publish PROVE CsiInv'
<1>0. /\ WifiInv /\ ReportTypes /\ ViewMeasured /\ gCsiUp \in BOOLEAN
  BY DEF CsiInv, ReportInv
<1>1. /\ stage = "publish" /\ stage' = "idle" /\ at' = 1 /\ best' = 0 /\ taken' = {}
      /\ line' = <<>> /\ present' = FALSE /\ quiet' = TRUE
      /\ UNCHANGED <<gCsiUp, wifiVars, view>>
  BY DEF Publish
<1>2. WifiInv'
  BY <1>0, <1>1, TableKept
<1>3. Len(line') = 0 /\ line' \in Seq(Entry)
  BY <1>1
<1>4. ReportTypes'
  <2>1. /\ at' \in 1..(MaxPeers + 1) /\ best' \in 0..MaxPeers
        /\ Len(line') <= ReportPeers
    BY <1>1, <1>3, CsiAssumption DEF CsiAssumption
  <2>2. QED
    BY <1>0, <1>1, <1>3, <2>1 DEF ReportTypes
<1>5. RankingKnown'
  BY <1>1, <1>3, CsiAssumption DEF RankingKnown, Chosen, CsiAssumption
<1>6. ViewMeasured'
  BY <1>0, <1>1 DEF ViewMeasured
<1>7. LineNamed' /\ EntriesMeasured'
  BY <1>3 DEF LineNamed, EntriesMeasured
<1>8. QED
  BY <1>0, <1>1, <1>2, <1>4, <1>5, <1>6, <1>7 DEF CsiInv, ReportInv

-----------------------------------------------------------------------------
(* The invariant. *)

\* The table is empty and no report is under way.
LEMMA InitEstablishes == ASSUME Init PROVE CsiInv
<1>1. /\ gLinks = [i \in Slot |-> Free] /\ filling = 0 /\ store = 1 /\ heard = <<>>
      /\ stage = "idle" /\ at = 1 /\ best = 0 /\ taken = {} /\ view = [f \in {} |-> 0]
      /\ line = <<>> /\ present = FALSE /\ gCsiUp \in BOOLEAN /\ quiet = TRUE
  BY DEF Init
<1>2. Free \in Link /\ ~Free.used
  BY CsiAssumption DEF Free, Link, CsiAssumption
<1>3. Len(heard) = 0 /\ heard \in Seq(Frame) /\ Len(line) = 0 /\ line \in Seq(Entry)
  BY <1>1
<1>4. WifiTypes
  BY <1>1, <1>2, <1>3, CsiAssumption DEF WifiTypes, CsiAssumption
<1>5. SlotsFilled /\ FillingKnown /\ OneSlotPerPeer
  <2>1. \A i \in Slot : gLinks[i] = Free /\ ~gLinks[i].used
    BY <1>1, <1>2
  <2>2. SlotsFilled
    BY <2>1 DEF SlotsFilled, SlotFilled
  <2>3. QED
    BY <1>1, <2>1, <2>2 DEF FillingKnown, OneSlotPerPeer
<1>6. ReportTypes
  <2>1. at \in 1..(MaxPeers + 1) /\ best \in 0..MaxPeers /\ Len(line) <= ReportPeers
    BY <1>1, <1>3, CsiAssumption DEF CsiAssumption
  <2>2. view \in [DOMAIN view -> 0..MaxFrames]
    BY <1>1
  <2>3. QED
    BY <1>1, <1>3, <2>1, <2>2 DEF ReportTypes
<1>7. RankingKnown
  BY <1>1, <1>3, CsiAssumption DEF RankingKnown, Chosen, CsiAssumption
<1>8. ViewMeasured
  BY <1>1 DEF ViewMeasured
<1>9. LineNamed /\ EntriesMeasured
  BY <1>3 DEF LineNamed, EntriesMeasured
<1>10. QED
  BY <1>1, <1>4, <1>5, <1>6, <1>7, <1>8, <1>9 DEF CsiInv, WifiInv, ReportInv

\* Every step keeps the invariant.
LEMMA StepPreserves == ASSUME CsiInv, [Next]_vars PROVE CsiInv'
<1>1. CASE \E f \in Frame : Receive(f)
  BY <1>1, ReceiveStep
<1>2. CASE \E mac \in Macs : ReceiveEmpty(mac)
  BY <1>2, ReceiveEmptyStep
<1>3. CASE Store
  BY <1>3, StoreStep
<1>4. CASE Begin \/ GiveUp \/ LookRssi \/ LookVar
  BY <1>4, LookStep
<1>5. CASE Rank
  BY <1>5, RankStep
<1>6. CASE Choose
  BY <1>6, ChooseStep
<1>7. CASE \E f \in {"mean", "var", "rssi", "frames"} : Load(f)
  BY <1>7, LoadStep DEF Fields
<1>8. CASE Format
  BY <1>8, FormatStep
<1>9. CASE Publish
  BY <1>9, PublishStep
<1>10. CASE UNCHANGED vars
  <2>1. UNCHANGED <<gCsiUp, wifiVars, reportVars, quiet>>
    BY <1>10 DEF vars
  <2>2. WifiInv /\ WifiTypes /\ gCsiUp \in BOOLEAN /\ quiet \in BOOLEAN
    BY DEF CsiInv, WifiInv
  <2>3. WifiInv' /\ UNCHANGED <<gLinks, heard>>
        /\ \A mac : FramesOf(mac)' = FramesOf(mac) /\ Count(mac)' = Count(mac)
    BY <2>1, <2>2, TableKept
  <2>4. \A mac : Count(mac) \in 0..MaxFrames
    BY <2>2, CountBounded
  <2>5. Persists
    BY <2>3, <2>4, CsiAssumption DEF Persists, CsiAssumption
  <2>6. ReportInv'
    BY <2>1, <2>3, <2>5, ReportUnharmed DEF WifiInv
  <2>7. QED
    BY <2>1, <2>2, <2>3, <2>6 DEF CsiInv
<1>11. QED
  BY <1>1, <1>2, <1>3, <1>4, <1>5, <1>6, <1>7, <1>8, <1>9, <1>10 DEF Next

\* The table relates to the frames heard, and the report to the table, in every state.
THEOREM CsiInvariant == Spec => []CsiInv
<1>1. Init => CsiInv
  BY InitEstablishes
<1>2. CsiInv /\ [Next]_vars => CsiInv'
  BY StepPreserves
<1>3. QED
  BY <1>1, <1>2, PTL DEF Spec

\* The types of the table, of the report and of its line hold in every state.
THEOREM TypesHold == Spec => []TypeOK
<1>1. CsiInv => TypeOK
  <2>1. Len(StoreOrder) = 4
    BY DEF StoreOrder
  <2>2. QED
    BY <2>1 DEF CsiInv, WifiInv, ReportInv, WifiTypes, ReportTypes, TypeOK, Entry
<1>2. QED
  BY <1>1, CsiInvariant, PTL

\* linkSlot() never gives a transmitter a second slot, however many are in the air.
THEOREM SlotsHold == Spec => []OneSlotPerPeer
<1>1. CsiInv => OneSlotPerPeer
  BY DEF CsiInv, WifiInv
<1>2. QED
  BY <1>1, CsiInvariant, PTL

\* Every number csiLinkLoop() prints was measured on the peer it prints it for, and no
\* peer is printed twice, however the callback's stores fall between its loads.
THEOREM EntriesHold == Spec => []EntriesMeasured
<1>1. CsiInv => EntriesMeasured
  BY DEF CsiInv, ReportInv
<1>2. QED
  BY <1>1, CsiInvariant, PTL

-----------------------------------------------------------------------------
(* What the report misses nothing of.  Three facts more: a slot has all its *)
(* transmitter's frames, the ranking has found the busiest of those it     *)
(* looked at, and the line so far is in order and hides nobody busier.     *)

\* The last frame heard of a transmitter.
IsLast(n, mac) == n \in FramesOf(mac) /\ \A k \in FramesOf(mac) : k <= n

\* Every frame of a slot's transmitter is counted in it, the one being stored excepted, and
\* once counted the last is the one measured.
SlotExact(i) ==
  /\ gLinks[i].frames + (IF filling = i THEN 1 ELSE 0) = Count(gLinks[i].mac)
  /\ filling # i /\ gLinks[i].frames # 0 =>
       /\ IsLast(gLinks[i].mean, gLinks[i].mac)
       /\ IsLast(gLinks[i].var, gLinks[i].mac)
       /\ IsLast(gLinks[i].rssi, gLinks[i].mac)

\* A frame is dropped only when no slot is left, and none is ever given back.
DroppedWhenFull ==
  \A mac \in Macs : FramesOf(mac) # {} =>
    \/ \E i \in Slot : gLinks[i].used /\ gLinks[i].mac = mac
    \/ \A i \in Slot : gLinks[i].used

WifiExact == (\A i \in Slot : gLinks[i].used => SlotExact(i)) /\ DroppedWhenFull

Frames(i) == gLinks[i].frames
Busiest == IF best = 0 THEN 0 ELSE Frames(best)

\* The ranking has seen nobody busier, the one chosen is as busy as any left, and a report
\* that ends early has left nobody out who was heard.
RankedBusiest ==
  /\ stage = "rank" => \A j \in Slot \ taken : j < at => Frames(j) <= Busiest
  /\ Chosen => \A j \in Slot \ taken : Frames(j) <= Frames(best)
  /\ stage = "publish" /\ Len(line) # ReportPeers => \A j \in Slot \ taken : Frames(j) = 0

\* An entry has the numbers of its slot.
OfSlot(e, i) ==
  /\ e.mac = gLinks[i].mac /\ e.mean = gLinks[i].mean /\ e.var = gLinks[i].var
  /\ e.rssi = gLinks[i].rssi /\ e.frames = Frames(i)

\* The line so far is in order, and nobody left is busier than one of its entries.
LineOrdered ==
  \A k \in 1..Len(line) :
    /\ \E i \in taken : OfSlot(line[k], i)
    /\ k > 1 => line[k - 1].frames >= line[k].frames
    /\ \A j \in Slot \ taken : Frames(j) <= line[k].frames
    /\ Chosen => Frames(best) <= line[k].frames

ViewExact == \A f \in DOMAIN view : view[f] = gLinks[best][f]

Moving(rssi, var) == Strong(rssi) /\ Wobbly(var)

\* The flag is what the numbers of the line say, and those of the slot once it was looked at.
PresentKnown ==
  /\ stage = "var" => Strong(gLinks[best].rssi)
  /\ present <=> \/ \E k \in 1..Len(line) : Moving(line[k].rssi, line[k].var)
                 \/ stage = "format" /\ Moving(gLinks[best].rssi, gLinks[best].var)

\* A report the callback does not overlap.
Undisturbed == filling = 0 /\ RankedBusiest /\ LineOrdered /\ ViewExact /\ PresentKnown

QuietInv ==
  /\ stage = "idle" => ~present
  /\ quiet /\ stage # "idle" => Undisturbed

ExactInv == WifiExact /\ QuietInv

\* A frame adds nothing to what was heard of others.
LEMMA HeardOthers ==
  ASSUME WifiTypes, NEW f \in Frame, heard' = Append(heard, f)
  PROVE  \A mac : mac # f.mac => FramesOf(mac)' = FramesOf(mac) /\ Count(mac)' = Count(mac)
<1>1. /\ Len(heard) \in Nat /\ Len(heard') = Len(heard) + 1
      /\ \A n \in 1..Len(heard) : heard'[n] = heard[n]
      /\ heard'[Len(heard) + 1] = f
  BY DEF WifiTypes
<1>2. \A mac : mac # f.mac => FramesOf(mac)' = FramesOf(mac)
  BY <1>1 DEF FramesOf
<1>3. QED
  BY <1>2 DEF Count

\* linkSlot() finds none only when all are others'.
LEMMA NoSlot ==
  ASSUME NEW mac, linkSlot(mac) = 0
  PROVE  \A i \in Slot : gLinks[i].used /\ gLinks[i].mac # mac
<1> DEFINE own  == {i \in Slot : gLinks[i].used /\ gLinks[i].mac = mac}
           free == {i \in Slot : ~gLinks[i].used}
<1>1. own \in SUBSET Nat /\ free \in SUBSET Nat /\ 0 \notin own /\ 0 \notin free
  BY CsiAssumption DEF CsiAssumption, Slot
<1>2. own = {}
  <2>1. CASE own # {}
    <3>1. First(own) \in own
      BY <1>1, <2>1, FirstIn
    <3>2. linkSlot(mac) = First(own)
      BY <2>1 DEF linkSlot
    <3>3. QED
      BY <1>1, <3>1, <3>2
  <2>2. QED
    BY <2>1
<1>3. free = {}
  <2>1. CASE free # {}
    <3>1. First(free) \in free
      BY <1>1, <2>1, FirstIn
    <3>2. linkSlot(mac) = First(free)
      BY <1>2, <2>1 DEF linkSlot
    <3>3. QED
      BY <1>1, <3>1, <3>2
  <2>2. QED
    BY <2>1
<1>4. QED
  BY <1>2, <1>3

\* A transmitter that gets a free slot has not been heard before.
LEMMA NewSlotUnheard ==
  ASSUME WifiTypes, DroppedWhenFull, NEW mac \in Macs, NEW i \in Slot, ~gLinks[i].used,
         \A j \in Slot : gLinks[j].used => gLinks[j].mac # mac
  PROVE  FramesOf(mac) = {} /\ Count(mac) = 0
<1>1. FramesOf(mac) = {}
  BY DEF DroppedWhenFull
<1>2. QED
  BY <1>1, FS_EmptySet DEF Count

\* The callback gets a frame: nothing is lost of a transmitter that has a slot.
LEMMA ReceiveExact ==
  ASSUME CsiInv, WifiExact, NEW f \in Frame, Receive(f) PROVE WifiExact'
<1> DEFINE i == linkSlot(f.mac)
<1>0. /\ WifiInv /\ WifiTypes /\ SlotsFilled /\ OneSlotPerPeer /\ filling = 0
      /\ f.mac \in Macs /\ DroppedWhenFull
  BY DEF CsiInv, WifiInv, WifiExact, Receive, Frame
<1>1. /\ heard' = Append(heard, f) /\ filling' = i
      /\ gLinks' = IF i = 0 THEN gLinks ELSE Entered(i, f.mac)
  BY DEF Receive
<1>2. Count(f.mac)' = Count(f.mac) + 1 /\ \A mac : Count(mac) \in Nat
  BY <1>0, <1>1, HeardGrows, CountBounded
<1>3. \A mac : mac # f.mac => FramesOf(mac)' = FramesOf(mac) /\ Count(mac)' = Count(mac)
  BY <1>0, <1>1, HeardOthers
<1>4. i = 0 => \A j \in Slot : gLinks[j].used /\ gLinks[j].mac # f.mac
  BY NoSlot
<1>5. i # 0 => /\ i \in Slot
               /\ \/ gLinks[i].used /\ gLinks[i].mac = f.mac
                  \/ ~gLinks[i].used /\ \A j \in Slot : gLinks[j].used => gLinks[j].mac # f.mac
  BY LinkSlotFound
<1>6. i # 0 =>
        /\ gLinks'[i].used /\ gLinks'[i].mac = f.mac
        /\ \A j \in Slot : gLinks'[j] = gLinks[j] \/ (~gLinks[j].used /\ j = i
              /\ gLinks'[j] = [mac |-> f.mac, used |-> TRUE, mean |-> 0, var |-> 0, rssi |-> 0,
                               frames |-> 0])
  BY <1>0, <1>1, EnteredSlot
<1>7. i = 0 => gLinks' = gLinks
  BY <1>1
<1>8. 0 \notin Slot
  BY CsiAssumption DEF CsiAssumption, Slot
<1> HIDE DEF i
<1>9. ASSUME NEW j \in Slot, gLinks'[j].used PROVE SlotExact(j)'
  <2>1. CASE j # i
    <3>1. gLinks'[j] = gLinks[j] /\ gLinks[j].used
      BY <1>6, <1>7, <1>9, <2>1
    <3>2. gLinks[j].mac # f.mac
      BY <1>0, <1>4, <1>5, <2>1, <3>1 DEF OneSlotPerPeer
    <3>3. FramesOf(gLinks[j].mac)' = FramesOf(gLinks[j].mac) /\ Count(gLinks[j].mac)' = Count(gLinks[j].mac)
      <4>1. PICK m : m = gLinks[j].mac /\ m = gLinks'[j].mac
        BY <3>1
      <4>2. FramesOf(m)' = FramesOf(m) /\ Count(m)' = Count(m)
        BY <1>3, <3>2, <4>1
      <4>3. QED
        BY <4>1, <4>2 DEF Count, FramesOf
    <3>4. SlotExact(j)
      BY <3>1 DEF WifiExact
    <3>5. filling # j /\ filling' # j
      BY <1>0, <1>1, <1>8, <2>1
    <3>6. QED
      BY <3>1, <3>3, <3>4, <3>5 DEF SlotExact, IsLast
  <2>2. CASE j = i
    <3>1. gLinks'[j].mac = f.mac /\ filling' = j
      BY <1>1, <1>6, <1>8, <2>2
    <3>2. gLinks'[j].frames = Count(f.mac)
      <4>1. CASE gLinks[j].used
        <5>1. gLinks'[j] = gLinks[j] /\ gLinks[j].mac = f.mac
          BY <1>5, <1>6, <1>8, <2>2, <4>1
        <5>2. SlotExact(j) /\ filling # j
          BY <1>0, <1>8, <4>1 DEF WifiExact
        <5>3. gLinks[j].frames \in Nat
          BY <1>0 DEF WifiTypes, Link
        <5>4. QED
          BY <1>2, <5>1, <5>2, <5>3 DEF SlotExact
      <4>2. CASE ~gLinks[j].used
        <5>1. Count(f.mac) = 0
          BY <1>0, <1>5, <1>8, <2>2, <4>2, NewSlotUnheard
        <5>2. QED
          BY <1>6, <1>8, <1>9, <2>2, <4>2, <5>1
      <4>3. QED
        BY <4>1, <4>2
    <3>3. Count(f.mac)' = Count(gLinks[j].mac)'
      BY <3>1 DEF Count, FramesOf
    <3>4. QED
      BY <1>2, <3>1, <3>2, <3>3 DEF SlotExact
  <2>3. QED
    BY <2>1, <2>2
<1>10. DroppedWhenFull'
  <2>1. CASE i = 0
    BY <1>4, <1>7, <2>1 DEF DroppedWhenFull
  <2>2. CASE i # 0
    <3>1. \A j \in Slot : gLinks[j].used => gLinks'[j].used /\ gLinks'[j].mac = gLinks[j].mac
      BY <1>6, <2>2
    <3>2. SUFFICES ASSUME NEW mac \in Macs, FramesOf(mac)' # {}
                   PROVE  \/ \E j \in Slot : gLinks'[j].used /\ gLinks'[j].mac = mac
                          \/ \A j \in Slot : gLinks'[j].used
      BY DEF DroppedWhenFull
    <3>3. CASE mac = f.mac
      BY <1>5, <1>6, <2>2, <3>3
    <3>4. CASE mac # f.mac
      BY <1>0, <1>3, <3>1, <3>2, <3>4 DEF DroppedWhenFull
    <3>5. QED
      BY <3>3, <3>4
  <2>3. QED
    BY <2>1, <2>2
<1>11. QED
  BY <1>9, <1>10 DEF WifiExact

\* A slot taken for an empty frame: nothing was heard of its transmitter before.
LEMMA ReceiveEmptyExact ==
  ASSUME CsiInv, WifiExact, NEW mac \in Macs, ReceiveEmpty(mac) PROVE WifiExact'
<1> DEFINE i == linkSlot(mac)
<1>0. /\ WifiInv /\ WifiTypes /\ SlotsFilled /\ filling = 0 /\ DroppedWhenFull
      /\ i # 0 /\ gLinks' = Entered(i, mac) /\ UNCHANGED <<filling, heard>>
  BY DEF CsiInv, WifiInv, WifiExact, ReceiveEmpty
<1>1. /\ i \in Slot
      /\ \/ gLinks[i].used /\ gLinks[i].mac = mac
         \/ ~gLinks[i].used /\ \A j \in Slot : gLinks[j].used => gLinks[j].mac # mac
  BY <1>0, LinkSlotFound
<1>2. /\ gLinks'[i].used /\ gLinks'[i].mac = mac
      /\ \A j \in Slot : gLinks'[j] = gLinks[j] \/ (~gLinks[j].used /\ j = i
            /\ gLinks'[j] = [mac |-> mac, used |-> TRUE, mean |-> 0, var |-> 0, rssi |-> 0,
                             frames |-> 0])
  BY <1>0, EnteredSlot
<1>3. \A m : FramesOf(m)' = FramesOf(m) /\ Count(m)' = Count(m)
  BY <1>0 DEF FramesOf, Count
<1>4. 0 \notin Slot
  BY CsiAssumption DEF CsiAssumption, Slot
<1> HIDE DEF i
<1>5. ASSUME NEW j \in Slot, gLinks'[j].used PROVE SlotExact(j)'
  <2>1. CASE gLinks[j].used
    <3>1. gLinks'[j] = gLinks[j] /\ SlotExact(j)
      BY <1>2, <2>1 DEF WifiExact
    <3>2. PICK m : m = gLinks[j].mac /\ m = gLinks'[j].mac
      BY <3>1
    <3>3. FramesOf(m)' = FramesOf(m) /\ Count(m)' = Count(m)
      BY <1>3
    <3>4. Count(gLinks[j].mac)' = Count(gLinks[j].mac) /\ FramesOf(gLinks[j].mac)' = FramesOf(gLinks[j].mac)
      BY <3>2, <3>3 DEF Count, FramesOf
    <3>5. QED
      BY <1>0, <3>1, <3>4 DEF SlotExact, IsLast
  <2>2. CASE ~gLinks[j].used
    <3>1. /\ j = i /\ gLinks'[j].mac = mac /\ gLinks'[j].frames = 0
      BY <1>2, <1>5, <2>2
    <3>2. Count(mac) = 0
      BY <1>0, <1>1, <2>2, <3>1, NewSlotUnheard
    <3>3. Count(gLinks[j].mac)' = 0
      BY <1>0, <3>1, <3>2 DEF Count, FramesOf
    <3>4. filling' # j
      BY <1>0, <1>4
    <3>5. QED
      BY <3>1, <3>3, <3>4 DEF SlotExact
  <2>3. QED
    BY <2>1, <2>2
<1>6. DroppedWhenFull'
  <2>1. \A j \in Slot : gLinks[j].used => gLinks'[j].used /\ gLinks'[j].mac = gLinks[j].mac
    BY <1>2
  <2>2. QED
    BY <1>0, <1>3, <2>1 DEF DroppedWhenFull
<1>7. QED
  BY <1>5, <1>6 DEF WifiExact

\* A store of the callback: the last one counts the frame, and leaves its numbers behind.
LEMMA StoreExact == ASSUME CsiInv, WifiExact, Store PROVE WifiExact'
<1>0. /\ WifiInv /\ WifiTypes /\ SlotsFilled /\ FillingKnown /\ DroppedWhenFull
      /\ filling # 0 /\ UNCHANGED heard
  BY DEF CsiInv, WifiInv, WifiExact, Store
<1>1. /\ filling \in Slot /\ gLinks[filling].used
      /\ \A j \in Slot : j # filling => gLinks'[j] = gLinks[j]
      /\ gLinks'[filling].used = gLinks[filling].used
      /\ gLinks'[filling].mac = gLinks[filling].mac
      /\ gLinks'[filling].mean = IF store = 1 THEN Len(heard) ELSE gLinks[filling].mean
      /\ gLinks'[filling].var = IF store = 2 THEN Len(heard) ELSE gLinks[filling].var
      /\ gLinks'[filling].rssi = IF store = 3 THEN Len(heard) ELSE gLinks[filling].rssi
      /\ gLinks'[filling].frames = IF store = 4 THEN gLinks[filling].frames + 1
                                   ELSE gLinks[filling].frames
      /\ IF store = 4 THEN store' = 1 /\ filling' = 0
         ELSE store' = store + 1 /\ filling' = filling
  BY <1>0, StoreEffect DEF FillingKnown
<1>2. \A mac : FramesOf(mac)' = FramesOf(mac) /\ Count(mac)' = Count(mac) /\ Count(mac) \in Nat
  <2>1. \A mac : FramesOf(mac)' = FramesOf(mac)
    BY <1>0 DEF FramesOf
  <2>2. \A mac : Count(mac)' = Count(mac)
    BY <2>1 DEF Count
  <2>3. \A mac : Count(mac) \in Nat
    BY <1>0, CountBounded
  <2>4. QED
    BY <2>1, <2>2, <2>3
<1>3. 0 \notin Slot
  BY CsiAssumption DEF CsiAssumption, Slot
<1>4. ASSUME NEW j \in Slot, gLinks'[j].used PROVE SlotExact(j)'
  <2>0. gLinks'[j].mac = gLinks[j].mac /\ gLinks'[j].used = gLinks[j].used
    <3>1. CASE j = filling
      BY <1>1, <3>1
    <3>2. CASE j # filling
      BY <1>1, <3>2
    <3>3. QED
      BY <3>1, <3>2
  <2>1. /\ gLinks'[j].mac = gLinks[j].mac /\ gLinks[j].used /\ SlotExact(j)
        /\ gLinks[j].frames \in Nat
    <3>1. gLinks[j] \in Link
      BY <1>0 DEF WifiTypes
    <3>2. gLinks[j].used /\ SlotExact(j)
      BY <1>4, <2>0 DEF WifiExact
    <3>3. QED
      BY <2>0, <3>1, <3>2 DEF Link
  <2>2. PICK m : m = gLinks[j].mac /\ m = gLinks'[j].mac
    BY <2>1
  <2>3. FramesOf(m)' = FramesOf(m) /\ Count(m)' = Count(m) /\ Count(m) \in Nat
    BY <1>2
  <2>4. Count(gLinks[j].mac)' = Count(m) /\ FramesOf(gLinks[j].mac)' = FramesOf(m)
    BY <2>2, <2>3 DEF Count, FramesOf
  <2>5. CASE j # filling
    <3>1. gLinks'[j] = gLinks[j] /\ filling' # j
      BY <1>1, <1>3, <2>5
    <3>2. QED
      BY <2>1, <2>2, <2>4, <2>5, <3>1 DEF SlotExact, IsLast
  <2>6. CASE j = filling /\ store # 4
    <3>1. gLinks'[j].frames = gLinks[j].frames /\ filling' = j
      BY <1>1, <2>6
    <3>2. QED
      BY <2>1, <2>2, <2>4, <2>6, <3>1 DEF SlotExact
  <2>7. CASE j = filling /\ store = 4
    <3>1. /\ gLinks'[j].frames = gLinks[j].frames + 1 /\ filling' # j
          /\ gLinks'[j].mean = Len(heard) /\ gLinks'[j].var = Len(heard)
          /\ gLinks'[j].rssi = Len(heard)
      BY <1>0, <1>1, <1>3, <2>7 DEF FillingKnown
    <3>2. IsLast(Len(heard), m)
      <4>0. Len(heard) \in FramesOf(gLinks[filling].mac) /\ m = gLinks[filling].mac
        BY <1>0, <2>2, <2>7 DEF FillingKnown
      <4>1. Len(heard) \in FramesOf(m) /\ Len(heard) \in Nat
        BY <1>0, <4>0 DEF WifiTypes
      <4>2. \A k \in FramesOf(m) : k <= Len(heard)
        BY <4>1 DEF FramesOf
      <4>3. QED
        BY <4>1, <4>2 DEF IsLast
    <3>3. IsLast(gLinks[j].mean, gLinks[j].mac)' /\ IsLast(gLinks[j].var, gLinks[j].mac)'
          /\ IsLast(gLinks[j].rssi, gLinks[j].mac)'
      BY <2>4, <3>1, <3>2 DEF IsLast
    <3>4. gLinks[j].frames + 1 = Count(m)
      BY <2>1, <2>2, <2>7 DEF SlotExact
    <3>5. QED
      BY <2>1, <2>3, <2>4, <3>1, <3>3, <3>4 DEF SlotExact
  <2>8. QED
    BY <2>5, <2>6, <2>7
<1>5. DroppedWhenFull'
  <2>1. \A j \in Slot : gLinks'[j].used = gLinks[j].used /\ gLinks'[j].mac = gLinks[j].mac
    BY <1>1
  <2>2. QED
    BY <1>0, <1>2, <2>1 DEF DroppedWhenFull
<1>6. QED
  BY <1>4, <1>5 DEF WifiExact

\* What the callback does to the table during a report, the report is no longer quiet.
LEMMA CallbackExact ==
  ASSUME CsiInv, ExactInv,
         (\E f \in Frame : Receive(f)) \/ (\E mac \in Macs : ReceiveEmpty(mac)) \/ Store
  PROVE  ExactInv'
<1>1. WifiExact'
  BY ReceiveExact, ReceiveEmptyExact, StoreExact DEF ExactInv
<1>2. stage' = stage /\ present' = present /\ (quiet' /\ stage' # "idle" => FALSE)
  <2>1. CASE (\E f \in Frame : Receive(f)) \/ (\E mac \in Macs : ReceiveEmpty(mac))
    BY <2>1 DEF Receive, ReceiveEmpty, reportVars
  <2>2. CASE Store
    BY <2>2 DEF Store, reportVars, ExactInv, QuietInv, Undisturbed
  <2>3. QED
    BY <2>1, <2>2
<1>3. QED
  BY <1>1, <1>2 DEF ExactInv, QuietInv

-----------------------------------------------------------------------------
(* A report nothing overlaps. *)

\* What the main task's steps have in common: the table is left alone.
LEMMA ReadOnly ==
  ASSUME CsiInv, WifiExact, UNCHANGED wifiVars
  PROVE  /\ WifiExact' /\ UNCHANGED <<gLinks, heard, filling>>
         /\ \A i : Frames(i)' = Frames(i)
         /\ \A i \in Slot : Frames(i) \in Nat /\ (~gLinks[i].used => Frames(i) = 0)
<1>1. UNCHANGED <<gLinks, heard, filling>>
  BY DEF wifiVars
<1>2. \A mac : FramesOf(mac)' = FramesOf(mac)
  BY <1>1 DEF FramesOf
<1>3. \A mac : Count(mac)' = Count(mac)
  BY <1>2 DEF Count
<1>4. \A i : SlotExact(i) => SlotExact(i)'
  <2>1. SUFFICES ASSUME NEW i, SlotExact(i) PROVE SlotExact(i)'
    OBVIOUS
  <2>2. PICK m : m = gLinks[i].mac /\ m = gLinks'[i].mac
    BY <1>1
  <2>3. FramesOf(m)' = FramesOf(m) /\ Count(m)' = Count(m)
    BY <1>2, <1>3
  <2>4. Count(gLinks[i].mac)' = Count(m) /\ FramesOf(gLinks[i].mac)' = FramesOf(m)
    BY <2>2, <2>3 DEF Count, FramesOf
  <2>5. QED
    BY <1>1, <2>1, <2>2, <2>4 DEF SlotExact, IsLast
<1>5. WifiExact'
  BY <1>1, <1>2, <1>4 DEF WifiExact, DroppedWhenFull
<1>6. \A i \in Slot : Frames(i) \in Nat /\ (~gLinks[i].used => Frames(i) = 0)
  BY DEF CsiInv, WifiInv, WifiTypes, SlotsFilled, SlotFilled, Link, Frames, Free
<1>7. QED
  BY <1>1, <1>5, <1>6 DEF Frames

\* A report begins with nothing ranked and nothing in the line.
LEMMA BeginExact == ASSUME CsiInv, ExactInv, Begin PROVE ExactInv'
<1>0. /\ RankingKnown /\ ViewMeasured /\ ReportTypes /\ WifiExact /\ QuietInv
  BY DEF CsiInv, ReportInv, ExactInv
<1>1. /\ stage = "idle" /\ stage' = "rank" /\ quiet' = (filling = 0)
      /\ UNCHANGED <<gCsiUp, wifiVars, at, best, taken, view, line, present>>
  BY DEF Begin
<1>2. WifiExact' /\ UNCHANGED <<gLinks, heard, filling>>
  BY <1>0, <1>1, ReadOnly
<1>3. best = 0 /\ taken = {} /\ line = <<>> /\ at = 1 /\ ~present /\ DOMAIN view = {}
  BY <1>0, <1>1 DEF RankingKnown, QuietInv, ViewMeasured
<1>4. Len(line') = 0
  BY <1>1, <1>3
<1>5. RankedBusiest'
  BY <1>1, <1>3, CsiAssumption DEF RankedBusiest, Chosen, Slot, CsiAssumption
<1>6. LineOrdered' /\ ViewExact' /\ PresentKnown'
  BY <1>1, <1>3, <1>4 DEF LineOrdered, ViewExact, PresentKnown
<1>7. QED
  BY <1>1, <1>2, <1>5, <1>6 DEF ExactInv, QuietInv, Undisturbed

\* The next slot: it is the busiest so far or it is not.
LEMMA RankExact == ASSUME CsiInv, ExactInv, Rank PROVE ExactInv'
<1>0. /\ RankingKnown /\ ViewMeasured /\ ReportTypes /\ WifiExact /\ QuietInv
  BY DEF CsiInv, ReportInv, ExactInv
<1>1. /\ stage = "rank" /\ at <= MaxPeers /\ at' = at + 1
      /\ best' = IF Eligible(at) /\ Busier(at) THEN at ELSE best
      /\ UNCHANGED <<gCsiUp, wifiVars, stage, taken, view, line, present, quiet>>
  BY DEF Rank
<1>2. /\ WifiExact' /\ UNCHANGED <<gLinks, heard, filling>>
      /\ \A i : Frames(i)' = Frames(i)
      /\ \A i \in Slot : Frames(i) \in Nat /\ (~gLinks[i].used => Frames(i) = 0)
  BY <1>0, <1>1, ReadOnly
<1>3. /\ at \in Slot /\ Slot \subseteq Nat /\ 0 \notin Slot /\ best \in Slot \cup {0}
      /\ DOMAIN view = {}
  BY <1>0, <1>1, CsiAssumption DEF CsiAssumption, ReportTypes, Slot, ViewMeasured
<1>4. ASSUME quiet PROVE Undisturbed'
  <2>1. /\ \A j \in Slot \ taken : j < at => Frames(j) <= Busiest
        /\ filling = 0 /\ LineOrdered /\ PresentKnown
    BY <1>0, <1>1, <1>4 DEF QuietInv, Undisturbed, RankedBusiest
  <2>2. Busiest \in Nat
    BY <1>2, <1>3 DEF Busiest
  <2>3. Busiest <= Busiest' /\ Busiest' \in Nat /\ (at \notin taken => Frames(at) <= Busiest')
    <3>1. CASE Eligible(at) /\ Busier(at)
      <4>1. Busiest' = Frames(at)
        BY <1>1, <1>2, <1>3, <3>1 DEF Busiest
      <4>2. Busiest <= Frames(at)
        BY <1>2, <1>3, <3>1 DEF Busiest, Busier, Frames
      <4>3. QED
        BY <1>2, <1>3, <4>1, <4>2
    <3>2. CASE ~(Eligible(at) /\ Busier(at))
      <4>1. Busiest' = Busiest
        BY <1>1, <1>2, <1>3, <3>2 DEF Busiest
      <4>2. at \notin taken => Frames(at) <= Busiest
        BY <1>2, <1>3, <2>2, <3>2 DEF Busiest, Busier, Frames, Eligible
      <4>3. QED
        BY <2>2, <4>1, <4>2
    <3>3. QED
      BY <3>1, <3>2
  <2>4. \A j \in Slot \ taken : j < at' => Frames(j) <= Busiest'
    <3>1. SUFFICES ASSUME NEW j \in Slot \ taken, j < at' PROVE Frames(j) <= Busiest'
      OBVIOUS
    <3>2. CASE j < at
      BY <1>2, <2>1, <2>2, <2>3, <3>1, <3>2
    <3>3. CASE j = at
      BY <2>3, <3>1, <3>3
    <3>4. j < at \/ j = at
      BY <1>1, <1>3, <3>1
    <3>5. QED
      BY <3>2, <3>3, <3>4
  <2>5. RankedBusiest'
    BY <1>1, <1>2, <2>4 DEF RankedBusiest, Chosen
  <2>6. LineOrdered' /\ ViewExact' /\ PresentKnown'
    BY <1>1, <1>2, <1>3, <2>1 DEF LineOrdered, OfSlot, Frames, Chosen, ViewExact, PresentKnown,
                                  Moving, Strong, Wobbly
  <2>7. QED
    BY <1>2, <2>1, <2>5, <2>6 DEF Undisturbed
<1>5. QED
  BY <1>1, <1>2, <1>4 DEF ExactInv, QuietInv

\* The ranking is through: what it found is the busiest left, or nobody left was heard.
LEMMA RankedExact == ASSUME CsiInv, ExactInv, GiveUp \/ Choose PROVE ExactInv'
<1>0. /\ RankingKnown /\ ViewMeasured /\ ReportTypes /\ WifiExact /\ QuietInv
  BY DEF CsiInv, ReportInv, ExactInv
<1>1. /\ stage = "rank" /\ at > MaxPeers
      /\ \/ /\ (best # 0 => gLinks[best].frames = 0) /\ taken' = taken /\ stage' = "publish"
         \/ /\ best # 0 /\ taken' = taken \cup {best} /\ stage' = "rssi"
      /\ UNCHANGED <<gCsiUp, wifiVars, at, best, view, line, present, quiet>>
  BY DEF GiveUp, Choose
<1>2. /\ WifiExact' /\ UNCHANGED <<gLinks, heard, filling>>
      /\ \A i : Frames(i)' = Frames(i)
      /\ \A i \in Slot : Frames(i) \in Nat
  BY <1>0, <1>1, ReadOnly
<1>3. /\ best \in Slot \cup {0} /\ DOMAIN view = {} /\ \A j \in Slot : j < at
      /\ (best # 0 => best \notin taken)
  BY <1>0, <1>1, CsiAssumption DEF CsiAssumption, ReportTypes, Slot, ViewMeasured, RankingKnown
<1>4. ASSUME quiet PROVE Undisturbed'
  <2>1. /\ \A j \in Slot \ taken : Frames(j) <= Busiest
        /\ filling = 0 /\ LineOrdered /\ PresentKnown
    BY <1>0, <1>1, <1>3, <1>4 DEF QuietInv, Undisturbed, RankedBusiest
  <2>2. RankedBusiest'
    <3>1. CASE stage' = "publish"
      <4>1. Busiest = 0 /\ taken' = taken
        BY <1>1, <3>1 DEF Busiest, Frames
      <4>2. \A j \in Slot \ taken : Frames(j) = 0
        BY <1>2, <2>1, <4>1
      <4>3. QED
        BY <1>2, <3>1, <4>1, <4>2 DEF RankedBusiest, Chosen
    <3>2. CASE stage' = "rssi"
      <4>1. best # 0 /\ taken' = taken \cup {best} /\ best' = best
        BY <1>1, <3>2
      <4>2. \A j \in Slot \ taken' : Frames(j) <= Frames(best)
        BY <2>1, <4>1 DEF Busiest
      <4>3. QED
        BY <1>2, <3>2, <4>1, <4>2 DEF RankedBusiest, Chosen
    <3>3. QED
      BY <1>1, <3>1, <3>2
  <2>3. LineOrdered'
    <3>1. \A k \in 1..Len(line) :
            /\ \E i \in taken : OfSlot(line[k], i)
            /\ k > 1 => line[k - 1].frames >= line[k].frames
            /\ \A j \in Slot \ taken : Frames(j) <= line[k].frames
      BY <2>1 DEF LineOrdered
    <3>2. taken \subseteq taken' /\ (Chosen' => best' \in Slot \ taken)
      BY <1>1, <1>3 DEF Chosen
    <3>3. \A k \in 1..Len(line) : \E i \in taken' : OfSlot(line[k], i)'
      BY <1>1, <1>2, <3>1, <3>2 DEF OfSlot, Frames
    <3>4. QED
      BY <1>1, <1>2, <3>1, <3>2, <3>3 DEF LineOrdered
  <2>4. ViewExact' /\ PresentKnown'
    BY <1>1, <1>2, <1>3, <2>1 DEF ViewExact, PresentKnown, Moving, Strong, Wobbly
  <2>5. QED
    BY <1>2, <2>1, <2>2, <2>3, <2>4 DEF Undisturbed
<1>5. QED
  BY <1>1, <1>2, <1>4 DEF ExactInv, QuietInv

\* The two numbers the flag depends on.
LEMMA LookExact == ASSUME CsiInv, ExactInv, LookRssi \/ LookVar PROVE ExactInv'
<1>0. /\ ViewMeasured /\ ReportTypes /\ WifiExact /\ QuietInv
  BY DEF CsiInv, ReportInv, ExactInv
<1>1. /\ \/ /\ stage = "rssi" /\ present' = present
            /\ stage' = IF Strong(gLinks[best].rssi) THEN "var" ELSE "format"
         \/ /\ stage = "var" /\ stage' = "format"
            /\ present' = (present \/ Wobbly(gLinks[best].var))
      /\ UNCHANGED <<gCsiUp, wifiVars, at, best, taken, view, line, quiet>>
  BY DEF LookRssi, LookVar
<1>2. /\ WifiExact' /\ UNCHANGED <<gLinks, heard, filling>>
      /\ \A i : Frames(i)' = Frames(i)
  BY <1>0, <1>1, ReadOnly
<1>3. stage' \in {"var", "format"} /\ stage \in {"rssi", "var"} /\ DOMAIN view = {}
  BY <1>0, <1>1 DEF ViewMeasured
<1>4. ASSUME quiet PROVE Undisturbed'
  <2>1. filling = 0 /\ RankedBusiest /\ LineOrdered /\ PresentKnown
    BY <1>0, <1>3, <1>4 DEF QuietInv, Undisturbed
  <2>2. RankedBusiest' /\ LineOrdered' /\ ViewExact'
    BY <1>1, <1>2, <1>3, <2>1 DEF RankedBusiest, LineOrdered, OfSlot, Frames, Chosen, ViewExact
  <2>3. PresentKnown'
    <3> DEFINE some == \E k \in 1..Len(line) : Moving(line[k].rssi, line[k].var)
    <3>1. /\ present <=> some
          /\ stage = "var" => Strong(gLinks[best].rssi)
      BY <1>3, <2>1 DEF PresentKnown
    <3>2. some' <=> some
      BY <1>1, <1>2 DEF Moving, Strong, Wobbly
    <3>3. /\ Strong(gLinks[best].rssi)' <=> Strong(gLinks[best].rssi)
          /\ Wobbly(gLinks[best].var)' <=> Wobbly(gLinks[best].var)
      BY <1>1, <1>2 DEF Strong, Wobbly
    <3> HIDE DEF some
    <3>4. CASE stage = "rssi" /\ Strong(gLinks[best].rssi)
      <4>1. stage' = "var" /\ present' = present
        BY <1>1, <3>4
      <4>2. QED
        BY <3>1, <3>2, <3>3, <3>4, <4>1 DEF PresentKnown, some
    <3>5. CASE stage = "rssi" /\ ~Strong(gLinks[best].rssi)
      <4>1. stage' = "format" /\ present' = present
        BY <1>1, <3>5
      <4>2. ~Moving(gLinks[best].rssi, gLinks[best].var)'
        BY <3>3, <3>5 DEF Moving
      <4>3. QED
        BY <3>1, <3>2, <4>1, <4>2 DEF PresentKnown, some
    <3>6. CASE stage = "var"
      <4>1. stage' = "format" /\ present' = (present \/ Wobbly(gLinks[best].var))
        BY <1>1, <3>6
      <4>2. Moving(gLinks[best].rssi, gLinks[best].var)' <=> Wobbly(gLinks[best].var)
        BY <3>1, <3>3, <3>6 DEF Moving
      <4>3. QED
        BY <3>1, <3>2, <4>1, <4>2 DEF PresentKnown, some
    <3>7. QED
      BY <1>3, <3>4, <3>5, <3>6
  <2>4. QED
    BY <1>2, <2>1, <2>2, <2>3 DEF Undisturbed
<1>5. QED
  BY <1>1, <1>2, <1>3, <1>4 DEF ExactInv, QuietInv

\* A number loaded is that of the slot.
LEMMA LoadExact == ASSUME CsiInv, ExactInv, NEW f \in Fields, Load(f) PROVE ExactInv'
<1>0. /\ ViewMeasured /\ ReportTypes /\ WifiExact /\ QuietInv
  BY DEF CsiInv, ReportInv, ExactInv
<1>1. /\ stage = "format"
      /\ view' = [g \in DOMAIN view \cup {f} |-> IF g = f THEN gLinks[best][f] ELSE view[g]]
      /\ UNCHANGED <<gCsiUp, wifiVars, stage, at, best, taken, line, present, quiet>>
  BY DEF Load
<1>2. /\ WifiExact' /\ UNCHANGED <<gLinks, heard, filling>>
      /\ \A i : Frames(i)' = Frames(i)
  BY <1>0, <1>1, ReadOnly
<1>3. ASSUME quiet PROVE Undisturbed'
  <2>1. filling = 0 /\ RankedBusiest /\ LineOrdered /\ ViewExact /\ PresentKnown
    BY <1>0, <1>1, <1>3 DEF QuietInv, Undisturbed
  <2>2. RankedBusiest' /\ LineOrdered' /\ PresentKnown'
    BY <1>1, <1>2, <2>1 DEF RankedBusiest, LineOrdered, OfSlot, Frames, Chosen, PresentKnown,
                            Moving, Strong, Wobbly
  <2>3. ViewExact'
    BY <1>1, <1>2, <2>1 DEF ViewExact
  <2>4. QED
    BY <1>2, <2>1, <2>2, <2>3 DEF Undisturbed
<1>4. QED
  BY <1>1, <1>2, <1>3 DEF ExactInv, QuietInv

\* The entry has the numbers of its slot, and comes after busier ones.
LEMMA FormatExact == ASSUME CsiInv, ExactInv, Format PROVE ExactInv'
<1> DEFINE e == [mac |-> gLinks[best].mac, mean |-> view.mean, var |-> view.var,
                 rssi |-> view.rssi, frames |-> view.frames]
<1>0. /\ ViewMeasured /\ ReportTypes /\ RankingKnown /\ WifiExact /\ QuietInv
  BY DEF CsiInv, ReportInv, ExactInv
<1>1. /\ stage = "format" /\ DOMAIN view = Fields
      /\ line' = Append(line, e)
      /\ stage' = IF Len(line') = ReportPeers THEN "publish" ELSE "rank"
      /\ at' = 1 /\ best' = 0 /\ view' = [f \in {} |-> 0]
      /\ UNCHANGED <<gCsiUp, wifiVars, taken, present, quiet>>
  BY DEF Format, Fields
<1>2. /\ WifiExact' /\ UNCHANGED <<gLinks, heard, filling>>
      /\ \A i : Frames(i)' = Frames(i)
      /\ \A i \in Slot : Frames(i) \in Nat
  BY <1>0, <1>1, ReadOnly
<1>3. best \in Slot /\ best \in taken /\ \A j \in Slot : ~(j < 1)
  BY <1>0, <1>1, CsiAssumption DEF CsiAssumption, ReportTypes, RankingKnown, Chosen, Slot
<1>4. ASSUME quiet PROVE OfSlot(e, best)
  <2>1. ViewExact
    BY <1>0, <1>1, <1>4 DEF QuietInv, Undisturbed
  <2>2. /\ view["mean"] = gLinks[best].mean /\ view["var"] = gLinks[best].var
        /\ view["rssi"] = gLinks[best].rssi /\ view["frames"] = gLinks[best].frames
    BY <1>1, <2>1 DEF ViewExact, Fields
  <2>3. QED
    BY <2>2 DEF OfSlot, Frames
<1> HIDE DEF e
<1>5. /\ Len(line) \in Nat /\ Len(line') = Len(line) + 1
      /\ \A k \in 1..Len(line) : line'[k] = line[k]
      /\ line'[Len(line) + 1] = e
  BY <1>0, <1>1 DEF ReportTypes
<1>6. ASSUME quiet PROVE Undisturbed'
  <2>1. filling = 0 /\ RankedBusiest /\ LineOrdered /\ PresentKnown
    BY <1>0, <1>1, <1>6 DEF QuietInv, Undisturbed
  <2>2. RankedBusiest'
    BY <1>1, <1>2, <1>3 DEF RankedBusiest, Chosen
  <2>3. \A j \in Slot \ taken : Frames(j) <= e.frames
    BY <1>1, <1>4, <1>6, <2>1 DEF RankedBusiest, Chosen, OfSlot
  <2>4. \A k \in 1..Len(line) : e.frames <= line[k].frames
    BY <1>1, <1>4, <1>6, <2>1 DEF LineOrdered, Chosen, OfSlot
  <2>5. LineOrdered'
    <3>1. SUFFICES ASSUME NEW k \in 1..Len(line')
                   PROVE  /\ \E i \in taken : OfSlot(line'[k], i)
                          /\ k > 1 => line'[k - 1].frames >= line'[k].frames
                          /\ \A j \in Slot \ taken : Frames(j) <= line'[k].frames
      BY <1>1, <1>2 DEF LineOrdered, Chosen, OfSlot, Frames
    <3>2. CASE k \in 1..Len(line)
      <4>1. k > 1 => k - 1 \in 1..Len(line)
        BY <1>5, <3>2
      <4>2. line'[k] = line[k] /\ (k > 1 => line'[k - 1] = line[k - 1])
        BY <1>5, <3>2, <4>1
      <4>3. QED
        BY <2>1, <3>2, <4>2 DEF LineOrdered
    <3>3. CASE k = Len(line) + 1
      <4>1. line'[k] = e
        BY <1>5, <3>3
      <4>2. k > 1 => line'[k - 1].frames >= e.frames
        <5>1. SUFFICES ASSUME k > 1 PROVE line'[k - 1].frames >= e.frames
          OBVIOUS
        <5>2. k - 1 \in 1..Len(line)
          BY <1>5, <3>3, <5>1
        <5>3. line'[k - 1] = line[k - 1] /\ e.frames <= line[k - 1].frames
          BY <1>5, <2>4, <5>2
        <5>4. QED
          BY <5>3
      <4>3. QED
        BY <1>3, <1>4, <1>6, <2>3, <4>1, <4>2
    <3>4. QED
      BY <1>5, <3>2, <3>3
  <2>6. ViewExact'
    BY <1>1 DEF ViewExact
  <2>7. PresentKnown'
    <3> DEFINE some == \E k \in 1..Len(line) : Moving(line[k].rssi, line[k].var)
    <3>1. present <=> some \/ Moving(gLinks[best].rssi, gLinks[best].var)
      BY <1>1, <2>1 DEF PresentKnown
    <3>2. Moving(e.rssi, e.var) <=> Moving(gLinks[best].rssi, gLinks[best].var)
      BY <1>4, <1>6 DEF OfSlot
    <3>3. (\E k \in 1..Len(line') : Moving(line'[k].rssi, line'[k].var)) <=> some \/ Moving(e.rssi, e.var)
      BY <1>5
    <3>4. present' <=> \E k \in 1..Len(line') : Moving(line'[k].rssi, line'[k].var)
      BY <1>1, <3>1, <3>2, <3>3
    <3>5. present' <=> (\E k \in 1..Len(line) : Moving(line[k].rssi, line[k].var))'
      BY <1>2, <3>4 DEF Moving, Strong, Wobbly
    <3>6. stage' # "format" /\ stage' # "var"
      BY <1>1
    <3>7. QED
      BY <3>5, <3>6 DEF PresentKnown
  <2>8. QED
    BY <1>2, <2>1, <2>2, <2>5, <2>6, <2>7 DEF Undisturbed
<1>7. QED
  BY <1>1, <1>2, <1>6 DEF ExactInv, QuietInv

\* The line is sent and the flag taken back.
LEMMA PublishExact == ASSUME CsiInv, ExactInv, Publish PROVE ExactInv'
<1>1. WifiExact /\ UNCHANGED wifiVars /\ stage' = "idle" /\ ~present'
  BY DEF ExactInv, Publish
<1>2. WifiExact'
  BY <1>1, ReadOnly
<1>3. QED
  BY <1>1, <1>2 DEF ExactInv, QuietInv

\* At first nothing was heard and no report is under way.
LEMMA InitExact == ASSUME Init PROVE ExactInv
<1>1. /\ heard = <<>> /\ stage = "idle" /\ ~present /\ gLinks = [i \in Slot |-> Free]
  BY DEF Init
<1>2. Len(heard) = 0 /\ \A i \in Slot : ~gLinks[i].used
  BY <1>1 DEF Free
<1>3. \A mac : FramesOf(mac) = {}
  BY <1>2 DEF FramesOf
<1>4. QED
  BY <1>1, <1>2, <1>3 DEF ExactInv, QuietInv, WifiExact, DroppedWhenFull

\* Every step keeps it.
LEMMA StepExact == ASSUME CsiInv, ExactInv, [Next]_vars PROVE ExactInv'
<1>1. CASE (\E f \in Frame : Receive(f)) \/ (\E mac \in Macs : ReceiveEmpty(mac)) \/ Store
  BY <1>1, CallbackExact
<1>2. CASE Begin
  BY <1>2, BeginExact
<1>3. CASE Rank
  BY <1>3, RankExact
<1>4. CASE GiveUp \/ Choose
  BY <1>4, RankedExact
<1>5. CASE LookRssi \/ LookVar
  BY <1>5, LookExact
<1>6. CASE \E f \in {"mean", "var", "rssi", "frames"} : Load(f)
  BY <1>6, LoadExact DEF Fields
<1>7. CASE Format
  BY <1>7, FormatExact
<1>8. CASE Publish
  BY <1>8, PublishExact
<1>9. CASE UNCHANGED vars
  <2>1. UNCHANGED <<wifiVars, stage, at, best, taken, view, line, present, quiet>>
    BY <1>9 DEF vars, reportVars
  <2>2. /\ WifiExact' /\ UNCHANGED <<gLinks, heard, filling>>
    BY <2>1, ReadOnly DEF ExactInv
  <2>3. QED
    BY <2>1, <2>2 DEF ExactInv, QuietInv, Undisturbed, RankedBusiest, LineOrdered, OfSlot, Frames,
                      Busiest, Chosen, ViewExact, PresentKnown, Moving, Strong, Wobbly
<1>10. QED
  BY <1>1, <1>2, <1>3, <1>4, <1>5, <1>6, <1>7, <1>8, <1>9 DEF Next

\* Nothing heard of a transmitter with a slot is missing from the slot, and a report nothing
\* overlaps has found the busiest at each rank so far.
THEOREM ExactHolds == Spec => []ExactInv
<1>1. Init => ExactInv
  BY InitExact
<1>2. CsiInv /\ ExactInv /\ [Next]_vars => ExactInv'
  BY StepExact
<1>3. QED
  BY <1>1, <1>2, CsiInvariant, PTL DEF Spec

\* A line csiLinkLoop() makes while csiRxCallback() does not run is exact: the busiest peers in
\* order, with all their frames and their last, and the flag those numbers give.
THEOREM QuietReportsExact == Spec => []QuietReportExact
<1>1. ASSUME CsiInv, ExactInv PROVE QuietReportExact
  <2>1. SUFFICES ASSUME stage = "publish", quiet
        PROVE
          /\ \A k \in 1..Len(line) :
               /\ {line[k].mean, line[k].var, line[k].rssi}
                    = {First({n \in FramesOf(line[k].mac) : \A m \in FramesOf(line[k].mac) : m <= n})}
               /\ line[k].frames = Cardinality(FramesOf(line[k].mac))
               /\ k > 1 => line[k - 1].frames >= line[k].frames
          /\ \A i \in Slot \ taken : gLinks[i].frames > 0 =>
               Len(line) = ReportPeers /\ line[ReportPeers].frames >= gLinks[i].frames
          /\ present <=> \E k \in 1..Len(line) : Strong(line[k].rssi) /\ Wobbly(line[k].var)
    BY DEF QuietReportExact
  <2>2. /\ WifiTypes /\ ReportTypes /\ RankingKnown /\ EntriesMeasured /\ WifiExact
        /\ filling = 0 /\ RankedBusiest /\ LineOrdered /\ PresentKnown
    BY <1>1, <2>1 DEF CsiInv, WifiInv, ReportInv, ExactInv, QuietInv, Undisturbed
  <2>3. ASSUME NEW S \in SUBSET Nat, NEW n \in S, \A m \in S : m <= n
        PROVE  n = First({k \in S : \A m \in S : m <= k})
    <3>0. \A k \in S : (\A m \in S : m <= k) => k = n
      <4>1. SUFFICES ASSUME NEW k \in S, \A m \in S : m <= k PROVE k = n
        OBVIOUS
      <4>2. k \in Nat /\ n \in Nat /\ k <= n /\ n <= k
        BY <2>3, <4>1
      <4>3. QED
        BY <4>2
    <3>1. {k \in S : \A m \in S : m <= k} = {n}
      BY <2>3, <3>0
    <3>2. First({n}) \in {n}
      <4>1. {n} \in SUBSET Nat /\ {n} # {}
        OBVIOUS
      <4>2. QED
        BY <4>1, FirstIn
    <3>3. QED
      BY <3>1, <3>2
  <2>4. ASSUME NEW k \in 1..Len(line)
        PROVE  /\ {line[k].mean, line[k].var, line[k].rssi}
                    = {First({n \in FramesOf(line[k].mac) : \A m \in FramesOf(line[k].mac) : m <= n})}
               /\ line[k].frames = Cardinality(FramesOf(line[k].mac))
               /\ k > 1 => line[k - 1].frames >= line[k].frames
    <3>1. PICK i \in taken : OfSlot(line[k], i)
      BY <2>2 DEF LineOrdered
    <3>2. i \in Slot /\ gLinks[i].used /\ filling # i
      BY <2>2, CsiAssumption DEF ReportTypes, RankingKnown, CsiAssumption, Slot
    <3>3. PICK mac : mac = line[k].mac
      OBVIOUS
    <3>4. mac = gLinks[i].mac
      BY <3>1, <3>3 DEF OfSlot
    <3>5. line[k].frames = Count(mac)
      <4>1. gLinks[i].frames \in Nat /\ Count(mac) \in Nat
        BY <2>2, <3>2, CountBounded DEF WifiTypes, Link
      <4>2. gLinks[i].frames + 0 = Count(mac)
        BY <2>2, <3>2, <3>4 DEF WifiExact, SlotExact
      <4>3. QED
        BY <3>1, <4>1, <4>2 DEF OfSlot, Frames
    <3>6. line[k].frames # 0
      <4>1. line[k].frames \in 1..Cardinality(FramesOf(line[k].mac))
        BY <2>2 DEF EntriesMeasured
      <4>2. QED
        BY <4>1
    <3>7. IsLast(line[k].mean, mac) /\ IsLast(line[k].var, mac) /\ IsLast(line[k].rssi, mac)
      BY <2>2, <3>1, <3>2, <3>4, <3>6 DEF WifiExact, SlotExact, OfSlot, Frames
    <3>8. FramesOf(mac) \in SUBSET Nat
      BY <2>2 DEF FramesOf, WifiTypes
    <3>9. \A n : IsLast(n, mac) => n = First({x \in FramesOf(mac) : \A m \in FramesOf(mac) : m <= x})
      BY <2>3, <3>8 DEF IsLast
    <3>10. QED
      BY <2>2, <3>3, <3>5, <3>7, <3>9 DEF LineOrdered, Count
  <2>5. ASSUME NEW i \in Slot \ taken, gLinks[i].frames > 0
        PROVE  Len(line) = ReportPeers /\ line[ReportPeers].frames >= gLinks[i].frames
    <3>1. gLinks[i].frames \in Nat /\ gLinks[i].frames # 0
      BY <2>2, <2>5 DEF WifiTypes, Link
    <3>2. Len(line) = ReportPeers
      BY <2>1, <2>2, <3>1 DEF RankedBusiest, Frames
    <3>3. ReportPeers \in 1..Len(line)
      BY <3>2, CsiAssumption DEF CsiAssumption
    <3>4. Frames(i) <= line[ReportPeers].frames
      BY <2>2, <3>3 DEF LineOrdered
    <3>5. QED
      BY <3>2, <3>4 DEF Frames
  <2>6. present <=> \E k \in 1..Len(line) : Strong(line[k].rssi) /\ Wobbly(line[k].var)
    BY <2>1, <2>2 DEF PresentKnown, Moving
  <2>7. QED
    BY <2>4, <2>5, <2>6
<1>2. QED
  BY <1>1, CsiInvariant, ExactHolds, PTL

=============================================================================
