--------------------------- MODULE FrerSetupProofs ---------------------------
(***************************************************************************)
(* Proofs about FrerSetup: types, what a successful end guarantees, the    *)
(* bound on flows that nothing absorbs, and what keeps a flow in service.  *)
(*                                                                         *)
(* First what main is made of: the shape of its calls, which call follows  *)
(* which, which come before which, and that every needed one is there.     *)
(* Then what a call does: it meets its own purpose, and only a detach      *)
(* undoes a purpose, that of the attach that follows it.  A detach that    *)
(* the switch refuses undoes nothing; the attach after it may then find    *)
(* the classifier with the old key, and counts as met because `refused'    *)
(* has the refusal.  The bound needs to know where every run is, or was    *)
(* broken off, which the state does not record for runs that ended: the    *)
(* invariant says that such positions exist.                               *)
(***************************************************************************)
EXTENDS FrerSetup, SequenceTheorems, FunctionTheorems, FiniteSetTheorems,
        WellFoundedInduction, TLAPS

-----------------------------------------------------------------------------
(* The calls of the script. *)

Ports == ToSet(RING_PORTS)
Direction == {"down", "up"}

\* The change set_vlan makes to a slot.
RingChange     == VlanChange(ALL_VLANS, "tagAll", 1, TRUE)
PcChange       == VlanChange({1} \cup ALL_VLANS, "untagAll", 0, TRUE)
BoardChange(b) == VlanChange({1, DOWN_VLAN, UpVlan[b]}, "untagAll", 0, FALSE)

PortCall == {Call(m, x[1], x[2], {}) : m \in {"vcl_cfg.get", "vcl_cfg.set", "vlan.get"}, x \in Slot}
VlanCall ==
  {Call("vlan.set", x[1], x[2], RingChange) : x \in RingSlot}
  \cup {Call("vlan.set", "switch1", PC_PORT_SW1, PcChange)}
  \cup {Call("vlan.set", "switch2", Port[b], BoardChange(b)) : b \in Board}
StpCall == {Call(m, x[1], x[2], {}) : m \in {"cist.get", "cist.set"}, x \in RingSlot}
FloodCall == {Call(m, sw, v, {}) : m \in {"flooding.set", "learn.set"},
                                   sw \in ToSet(SWITCHES), v \in ALL_VLANS}
EndMethod == {"stream.add", "stream.set", "frer.add", "frer.set"}
EndCall(e) ==
  {Call(m, EndSwitch(e), e, {}) : m \in EndMethod}
  \cup {Call(m, EndSwitch(e), p, e) : m \in {"detach", "attach"}, p \in ToSet(EndPorts(e))}
FdbCall == {Call("fdb.add", "switch2", b, "down") : b \in Board}
           \cup {Call("fdb.add", "switch1", b, "up") : b \in Board}

PartCall == PortCall \cup VlanCall \cup StpCall \cup FloodCall \cup FdbCall
AnyCall  == PartCall \cup UNION {EndCall(e) : e \in End}

\* The classifier is attached with the corrected key.
Keyed(c) == <<c.sw, c.on, c.arg, "dmac_dip">> \in conf.attached

\* The classifier is not attached with the old key, unless the switch refused to detach it.
KeyGone(c) == OldKey(c) \in conf.attached => OldKey(c) \in refused

\* The purpose of a call is met; of an attach, as far as the switch let the script detach.
Met(c) ==
  /\ c.method = "vcl_cfg.set"  => conf.matching[<<c.sw, c.on>>] = "dmac_dip"
  /\ c.method = "vlan.set"     => /\ c.arg.add \subseteq conf.vlan[<<c.sw, c.on>>].vlans
                                  /\ conf.vlan[<<c.sw, c.on>>].tagging = c.arg.tagging
  /\ c.method = "cist.set"     => conf.stp[<<c.sw, c.on>>] = FALSE
  /\ c.method = "flooding.set" => <<c.sw, c.on>> \in conf.flooding
  /\ c.method = "learn.set"    => <<c.sw, c.on>> \in conf.unlearned
  /\ c.method = "stream.set"   => c.on \in conf.streams
  /\ c.method = "attach"       => Keyed(c) \/ OldKey(c) \in refused
  /\ c.method = "frer.set"     => c.on \in conf.instances
  /\ c.method = "fdb.add"      => Delivery(c.on, c.arg) \in conf.fdb

-----------------------------------------------------------------------------
(* The invariants. *)

N == Len(main)

PortVlan == [vlans : SUBSET ({1} \cup ALL_VLANS),
             tagging : {"untagThis", "tagAll", "untagAll"}, native : {1}]
Reading == {"default", "dmac_dip"} \cup PortVlan \cup BOOLEAN

ConfTypes ==
  /\ conf.matching \in [Slot -> {"default", "dmac_dip"}]
  /\ conf.vlan \in [Slot -> PortVlan]
  /\ conf.stp \in [RingSlot -> BOOLEAN]
  /\ conf.flooding \subseteq ToSet(SWITCHES) \X ALL_VLANS
  /\ conf.unlearned \subseteq ToSet(SWITCHES) \X ALL_VLANS
  /\ conf.streams \subseteq End
  /\ conf.instances \subseteq End
  /\ conf.fdb \subseteq {Delivery(b, d) : b \in Board, d \in Direction}

RunTypes ==
  /\ pc \in [Scripts -> 0..N]
  /\ result \in [Scripts -> {"none", "running", "ok", "failed"}]
  /\ \A s \in Scripts : result[s] = "running" <=> pc[s] # 0
  /\ read \in [Scripts -> SUBSET Reading]
  /\ runs \in Nat

\* What a get answered is there when its set is made, and is still right where the set is
\* left out because of it.
ReadFits(c, got) ==
  /\ c.method = "vcl_cfg.set" => \/ got = {"default"}
                                 \/ got = {"dmac_dip"} /\ Met(c)
  /\ c.method = "vlan.set" => \E old \in PortVlan : got = {old}
  /\ c.method = "cist.set" => \/ got = {TRUE}
                              \/ got = {FALSE} /\ Met(c)
ReadsFit == \A s \in Scripts : pc[s] # 0 => ReadFits(main[pc[s]], read[s])

\* The matching modes a run set are still set, and between its detach and its attach no
\* classifier with the old key comes back, but one the switch refused to detach.
KeyInv ==
  \A s \in Scripts :
    /\ \A n \in 1..N : n < pc[s] /\ main[n].method = "vcl_cfg.set" => Met(main[n])
    /\ pc[s] # 0 /\ main[pc[s]].method = "attach" => KeyGone(main[pc[s]])

Base == ConfTypes /\ RunTypes /\ ReadsFit /\ KeyInv /\ refused \subseteq conf.attached

\* A purpose not met is still ahead of a script, or one failed and was not started again.
AheadInv ==
  \A n \in 1..N :
    \/ Met(main[n])
    \/ runs = 0
    \/ \E t \in Scripts : result[t] = "failed" \/ (pc[t] # 0 /\ \E k \in pc[t]..N : main[k] = main[n])

-----------------------------------------------------------------------------
(* Sequences. *)

\* A set of naturals that is not empty has a least element.
LEMMA LeastExists ==
  ASSUME NEW S \in SUBSET Nat, S # {}
  PROVE  \E i \in S : \A j \in S : i <= j
<1>1. PICK x \in S : \A y \in S : ~ (<<y, x>> \in OpToRel(<, Nat))
  BY NatLessThanWellFounded, WFMin
<1>2. \A y \in S : ~ (y < x)
  BY <1>1 DEF OpToRel
<1>3. QED
  BY <1>2

\* FlattenSeq appends the sequences one after the other.
Appending(ss, f) ==
  f = [i \in 1..Len(ss) |-> IF i = 1 THEN ss[i] ELSE f[i-1] \o ss[i]]

\* A function that does exists.
LEMMA AppendingExists ==
  ASSUME NEW X, NEW ss \in Seq(X)
  PROVE  \E f : Appending(ss, f)
<1> DEFINE Partial(m, g) == g = [i \in 1..m |-> IF i = 1 THEN ss[i] ELSE g[i-1] \o ss[i]]
           Bad == {m \in Nat : ~ \E g : Partial(m, g)}
<1>1. SUFFICES Bad = {}
  <2>1. Len(ss) \in Nat
    OBVIOUS
  <2>2. PICK f : Partial(Len(ss), f)
    BY <1>1, <2>1
  <2>3. QED
    BY <2>2 DEF Appending
<1>2. SUFFICES ASSUME Bad # {} PROVE FALSE
  OBVIOUS
<1>3. PICK m \in Bad : \A k \in Bad : m <= k
  BY <1>2, LeastExists
<1>4. m # 0
  <2>1. Partial(0, [i \in 1..0 |-> 0])
    OBVIOUS
  <2>2. QED
    BY <2>1, <1>3
<1>4a. m - 1 \in Nat /\ m \in Nat /\ m - 1 < m
  BY <1>3, <1>4
<1>4b. m - 1 \notin Bad
  <2> HIDE DEF Bad
  <2>1. QED
    BY <1>3, <1>4a
<1>5. PICK g : Partial(m - 1, g)
  BY <1>4a, <1>4b
<1> DEFINE h == [i \in 1..m |-> IF i = m THEN IF m = 1 THEN ss[m] ELSE g[m-1] \o ss[m] ELSE g[i]]
<1>6. \A i \in 1..m : h[i] = IF i = 1 THEN ss[i] ELSE h[i-1] \o ss[i]
  <2> SUFFICES ASSUME NEW i \in 1..m
               PROVE  h[i] = IF i = 1 THEN ss[i] ELSE h[i-1] \o ss[i]
    OBVIOUS
  <2>1. CASE i = 1
    <3>1. i # m => g[i] = ss[i]
      BY <1>5, <1>4a, <2>1
    <3>2. QED
      BY <2>1, <3>1
  <2>2. CASE i # 1
    <3>1. h[i-1] = g[i-1]
      BY <2>2, <1>4a
    <3>2. i # m => g[i] = g[i-1] \o ss[i]
      <4>1. i # m => i \in 1..(m-1)
        BY <1>4a
      <4> HIDE DEF h
      <4>2. QED
        BY <4>1, <1>5, <2>2
    <3>3. QED
      BY <2>2, <3>1, <3>2
  <2>3. QED
    BY <2>1, <2>2
<1>7. Partial(m, h)
  BY <1>6
<1>8. QED
  BY <1>7, <1>3

\* What FlattenSeq takes is the last of them.
LEMMA FlattenStep ==
  ASSUME NEW X, NEW ss \in Seq(X)
  PROVE  /\ ss = <<>> => FlattenSeq(ss) = <<>>
         /\ ss # <<>> => \E f : Appending(ss, f) /\ FlattenSeq(ss) = f[Len(ss)]
<1> DEFINE f == CHOOSE f : f = [i \in 1..Len(ss) |-> IF i = 1 THEN ss[i] ELSE f[i-1] \o ss[i]]
<1>1. Appending(ss, f)
  <2>1. \E g : g = [i \in 1..Len(ss) |-> IF i = 1 THEN ss[i] ELSE g[i-1] \o ss[i]]
    BY AppendingExists DEF Appending
  <2>2. QED
    BY <2>1 DEF Appending
<1>2. FlattenSeq(ss) = IF Len(ss) = 0 THEN ss ELSE f[Len(ss)]
  BY Zenon DEF FlattenSeq
<1>3. ss = <<>> <=> Len(ss) = 0
  OBVIOUS
<1> HIDE DEF f
<1>4. QED
  BY <1>1, <1>2, <1>3

\* FlattenSeq of sequences of a set closed under appending on either side of the one that
\* makes the difference.
LEMMA FlattenOne ==
  ASSUME NEW S, NEW T,
         \A u \in T, v \in T : u \o v \in T,
         \A u \in T, v \in S : u \o v \in S /\ v \o u \in S,
         NEW ss \in Seq(S \cup T), NEW j \in DOMAIN ss,
         ss[j] \in S, \A i \in DOMAIN ss : i # j => ss[i] \in T
  PROVE  FlattenSeq(ss) \in S
<1>1. Len(ss) \in Nat /\ DOMAIN ss = 1..Len(ss) /\ j \in 1..Len(ss) /\ ss # <<>>
  OBVIOUS
<1>2. PICK f : Appending(ss, f) /\ FlattenSeq(ss) = f[Len(ss)]
  BY <1>1, FlattenStep
<1>3. \A i \in 1..Len(ss) : f[i] = IF i = 1 THEN ss[i] ELSE f[i-1] \o ss[i]
  BY <1>2 DEF Appending
<1> DEFINE Fit(i) == IF i < j THEN f[i] \in T ELSE f[i] \in S
           Bad == {i \in 1..Len(ss) : ~Fit(i)}
<1>4. SUFFICES Bad = {}
  <2>1. Len(ss) \in 1..Len(ss) /\ ~(Len(ss) < j)
    BY <1>1
  <2>2. Fit(Len(ss))
    BY <2>1, <1>4
  <2>3. QED
    BY <2>1, <2>2, <1>2
<1>5. SUFFICES ASSUME Bad # {} PROVE FALSE
  OBVIOUS
<1>6. PICK m \in Bad : \A k \in Bad : m <= k
  <2>1. Bad \in SUBSET Nat
    BY <1>1
  <2> HIDE DEF Bad
  <2>2. QED
    BY <2>1, <1>5, LeastExists
<1>7. m \in 1..Len(ss) /\ ~Fit(m)
  OBVIOUS
<1>8. CASE m = 1
  BY <1>1, <1>3, <1>7, <1>8
<1>9. CASE m # 1
  <2>1. m - 1 \in 1..Len(ss) /\ m - 1 < m /\ m \in Nat
    BY <1>1, <1>7, <1>9
  <2>2. m - 1 \notin Bad
    <3> HIDE DEF Bad
    <3>1. QED
      BY <1>6, <2>1
  <2>3. Fit(m - 1)
    BY <2>1, <2>2
  <2>4. f[m] = f[m-1] \o ss[m]
    BY <1>3, <1>7, <1>9
  <2>5. CASE m < j
    <3>1. f[m-1] \in T /\ ss[m] \in T
      BY <2>1, <2>3, <2>5, <1>1, <1>7
    <3>2. QED
      BY <3>1, <2>4, <2>5, <1>7
  <2>6. CASE m = j
    <3>1. f[m-1] \in T /\ ss[m] \in S
      BY <2>1, <2>3, <2>6, <1>1
    <3>2. QED
      BY <3>1, <2>4, <2>6, <1>7, <1>1
  <2>7. CASE m > j
    <3>1. f[m-1] \in S /\ ss[m] \in T
      BY <2>1, <2>3, <2>7, <1>1, <1>7
    <3>2. QED
      BY <3>1, <2>4, <2>7, <1>7, <1>1
  <2>8. QED
    BY <2>5, <2>6, <2>7, <1>1, <1>7
<1>10. QED
  BY <1>8, <1>9

\* A set of sequences closed under \o that has the empty one is closed under FlattenSeq.
LEMMA FlattenAll ==
  ASSUME NEW T, <<>> \in T, \A u \in T, v \in T : u \o v \in T,
         NEW ss \in Seq(T)
  PROVE  FlattenSeq(ss) \in T
<1>1. CASE ss = <<>>
  BY <1>1, FlattenStep
<1>2. CASE ss # <<>>
  <2>1. 1 \in DOMAIN ss /\ \A i \in DOMAIN ss : ss[i] \in T
    BY <1>2
  <2>2. QED
    BY <2>1, FlattenOne, T \cup T = T
<1>3. QED
  BY <1>1, <1>2

\* A sequence flattened has the elements of its parts.
LEMMA FlattenElements ==
  ASSUME NEW X, NEW ss \in Seq(Seq(X))
  PROVE  ToSet(FlattenSeq(ss)) = UNION {ToSet(ss[i]) : i \in DOMAIN ss}
<1>1. ASSUME NEW j \in DOMAIN ss, NEW c \in ToSet(ss[j])
      PROVE  c \in ToSet(FlattenSeq(ss))
  <2> DEFINE S == {u \in Seq(X) : \E n \in DOMAIN u : u[n] = c}
             T == Seq(X)
  <2>1. \A u \in T, v \in T : u \o v \in T
    OBVIOUS
  <2>2. ASSUME NEW u \in T, NEW v \in S
        PROVE  u \o v \in S /\ v \o u \in S
    <3>1. PICK n \in DOMAIN v : v[n] = c
      OBVIOUS
    <3>2. u \in Seq(X) /\ v \in Seq(X)
      OBVIOUS
    <3>3. (u \o v)[Len(u) + n] = c /\ Len(u) + n \in DOMAIN (u \o v)
      BY <3>1, <3>2
    <3>4. (v \o u)[n] = c /\ n \in DOMAIN (v \o u)
      BY <3>1, <3>2
    <3>5. u \o v \in Seq(X) /\ v \o u \in Seq(X)
      BY <3>2
    <3>6. QED
      BY <3>3, <3>4, <3>5
  <2>3. ss[j] \in Seq(X) /\ ss[j] \in S
    BY <1>1 DEF ToSet
  <2>4. ss \in Seq(S \cup T) /\ \A i \in DOMAIN ss : ss[i] \in T
    <3>1. S \cup T = T
      OBVIOUS
    <3>2. QED
      BY <3>1
  <2> HIDE DEF S, T
  <2>5. FlattenSeq(ss) \in S
    BY <2>1, <2>2, <2>3, <2>4, FlattenOne
  <2>6. QED
    BY <2>5 DEF S, ToSet
<1>2. ASSUME NEW c, \A i \in DOMAIN ss : c \notin ToSet(ss[i])
      PROVE  c \notin ToSet(FlattenSeq(ss))
  <2> DEFINE T == {u \in Seq(X) : \A n \in DOMAIN u : u[n] # c}
  <2>1. \A u \in T, v \in T : u \o v \in T
    <3>0. ASSUME NEW u \in T, NEW v \in T PROVE u \o v \in Seq(X)
      OBVIOUS
    <3> SUFFICES ASSUME NEW u \in T, NEW v \in T, NEW n \in DOMAIN (u \o v)
                 PROVE  (u \o v)[n] # c
      BY <3>0
    <3>1. u \in Seq(X) /\ v \in Seq(X)
      OBVIOUS
    <3>2. CASE n <= Len(u)
      BY <3>1, <3>2
    <3>3. CASE n > Len(u)
      <4>1. n - Len(u) \in DOMAIN v /\ (u \o v)[n] = v[n - Len(u)]
        BY <3>1, <3>3
      <4>2. QED
        BY <4>1
    <3>4. QED
      BY <3>1, <3>2, <3>3
  <2>2. ss \in Seq(T) /\ <<>> \in T
    <3>1. \A i \in DOMAIN ss : ss[i] \in T
      BY <1>2 DEF ToSet
    <3>2. QED
      BY <3>1
  <2> HIDE DEF T
  <2>3. FlattenSeq(ss) \in T
    BY <2>1, <2>2, FlattenAll
  <2>4. QED
    BY <2>3 DEF T, ToSet
<1>3. QED
  BY <1>1, <1>2

\* Two sequences appended have the elements of both.
LEMMA AppendElements ==
  ASSUME NEW X, NEW u \in Seq(X), NEW v \in Seq(X)
  PROVE  ToSet(u \o v) = ToSet(u) \cup ToSet(v)
<1>1. \A n \in DOMAIN u : n \in DOMAIN (u \o v) /\ (u \o v)[n] = u[n]
  OBVIOUS
<1>2. \A n \in DOMAIN v : Len(u) + n \in DOMAIN (u \o v) /\ (u \o v)[Len(u) + n] = v[n]
  OBVIOUS
<1>3. \A n \in DOMAIN (u \o v) : \/ n \in DOMAIN u /\ (u \o v)[n] = u[n]
                                 \/ n - Len(u) \in DOMAIN v /\ (u \o v)[n] = v[n - Len(u)]
  OBVIOUS
<1>4. \A x \in ToSet(u) \cup ToSet(v) : x \in ToSet(u \o v)
  BY <1>1, <1>2 DEF ToSet
<1>5. \A x \in ToSet(u \o v) : x \in ToSet(u) \cup ToSet(v)
  BY <1>3 DEF ToSet
<1>6. QED
  BY <1>4, <1>5

\* sorted gives back every element.
LEMMA SortedElements ==
  ASSUME NEW S, IsFiniteSet(S), S \subseteq Int
  PROVE  ToSet(sorted(S)) = S
<1> DEFINE Below(v) == {u \in S : u <= v}
           rank == [v \in S |-> Cardinality(Below(v))]
<1>1. Cardinality(S) \in Nat
  BY FS_CardinalityType
<1>2. \A v \in S : /\ IsFiniteSet(Below(v)) /\ Cardinality(Below(v)) \in Nat
                   /\ Cardinality(Below(v)) <= Cardinality(S)
                   /\ Cardinality(Below(v)) # 0
  <2> SUFFICES ASSUME NEW v \in S
               PROVE  /\ IsFiniteSet(Below(v)) /\ Cardinality(Below(v)) \in Nat
                      /\ Cardinality(Below(v)) <= Cardinality(S)
                      /\ Cardinality(Below(v)) # 0
    OBVIOUS
  <2>1. Below(v) \in SUBSET S
    OBVIOUS
  <2>2. v \in Below(v)
    OBVIOUS
  <2> HIDE DEF Below
  <2>3. QED
    BY <2>1, <2>2, FS_Subset, FS_CardinalityType, FS_EmptySet
<1>3. ASSUME NEW v \in S, NEW w \in S, v < w
      PROVE  Cardinality(Below(v)) # Cardinality(Below(w))
  <2>0. v \in Int /\ w \in Int
    OBVIOUS
  <2>1. Below(v) \in SUBSET Below(w) /\ w \in Below(w) /\ w \notin Below(v)
    <3>1. \A u \in Int : u <= v => u <= w
      BY <2>0, <1>3
    <3>2. w <= w /\ ~(w <= v)
      BY <2>0, <1>3
    <3>3. QED
      BY <3>1, <3>2
  <2>2. IsFiniteSet(Below(w))
    BY <1>2
  <2> HIDE DEF Below
  <2>3. QED
    BY <2>1, <2>2, FS_Subset
<1>4. \A v \in S, w \in S : rank[v] = rank[w] => v = w
  <2>1. \A v \in S, w \in S : v = w \/ v < w \/ w < v
    OBVIOUS
  <2>2. QED
    BY <2>1, <1>3
<1>5. rank \in [S -> 1..Cardinality(S)]
  BY <1>1, <1>2
<1>6. rank \in Surjection(S, 1..Cardinality(S))
  <2>1. rank \in Injection(S, 1..Cardinality(S))
    BY <1>4, <1>5 DEF Injection, IsInjective
  <2>2. IsFiniteSet(1..Cardinality(S)) /\ Cardinality(1..Cardinality(S)) = Cardinality(S)
    BY <1>1, FS_Interval
  <2> HIDE DEF rank
  <2>3. QED
    BY <2>1, <2>2, FS_Injection
<1>7. \A i \in 1..Cardinality(S) : sorted(S)[i] \in S /\ rank[sorted(S)[i]] = i
  <2> SUFFICES ASSUME NEW i \in 1..Cardinality(S)
               PROVE  sorted(S)[i] \in S /\ rank[sorted(S)[i]] = i
    OBVIOUS
  <2>1. \E v \in S : rank[v] = i
    BY <1>6 DEF Surjection
  <2>2. \E v \in S : Cardinality({u \in S : u <= v}) = i
    BY <2>1
  <2>3. sorted(S)[i] = CHOOSE v \in S : Cardinality({u \in S : u <= v}) = i
    BY DEF sorted
  <2>4. sorted(S)[i] \in S /\ Cardinality({u \in S : u <= sorted(S)[i]}) = i
    BY <2>2, <2>3
  <2>5. QED
    BY <2>4
<1>8. \A v \in S : sorted(S)[rank[v]] = v
  BY <1>4, <1>5, <1>7
<1>9. DOMAIN sorted(S) = 1..Cardinality(S)
  BY DEF sorted
<1>10. \A i \in DOMAIN sorted(S) : sorted(S)[i] \in S
  BY <1>7, <1>9
<1>11. \A v \in S : \E i \in DOMAIN sorted(S) : sorted(S)[i] = v
  BY <1>8, <1>5, <1>9
<1> HIDE DEF rank
<1>12. QED
  BY <1>10, <1>11 DEF ToSet

-----------------------------------------------------------------------------
(* What main is made of: pairs of calls. *)

Opened == {"vcl_cfg.set", "vlan.set", "cist.set", "attach"}
Opens(a, b) ==
  /\ a.sw = b.sw /\ a.on = b.on
  /\ \/ a.method = "vcl_cfg.get" /\ b.method = "vcl_cfg.set"
     \/ a.method = "vlan.get"    /\ b.method = "vlan.set"
     \/ a.method = "cist.get"    /\ b.method = "cist.set"
     \/ a.method = "detach"      /\ b.method = "attach" /\ a.arg = b.arg

\* Calls of C where every set comes right after its get, every attach right after its
\* detach, and every detach right before its attach.
Paired(C) ==
  {s \in Seq(C) :
     \A n \in 1..Len(s) :
       /\ s[n].method \in Opened  => n > 1 /\ Opens(s[n-1], s[n])
       /\ s[n].method = "detach" => n < Len(s) /\ Opens(s[n], s[n+1])}

\* Such sequences may be appended.
LEMMA PairedAppend ==
  ASSUME NEW C, NEW u \in Paired(C), NEW v \in Paired(C)
  PROVE  /\ u \o v \in Paired(C)
         /\ ToSet(u \o v) = ToSet(u) \cup ToSet(v)
<1>1. u \in Seq(C) /\ v \in Seq(C) /\ u \o v \in Seq(C)
  BY DEF Paired
<1>2. ASSUME NEW n \in 1..Len(u \o v)
      PROVE  /\ (u \o v)[n].method \in Opened => n > 1 /\ Opens((u \o v)[n-1], (u \o v)[n])
             /\ (u \o v)[n].method = "detach" => n < Len(u \o v) /\ Opens((u \o v)[n], (u \o v)[n+1])
  <2>1. Len(u \o v) = Len(u) + Len(v) /\ Len(u) \in Nat /\ Len(v) \in Nat
    BY <1>1
  <2>2. CASE n <= Len(u)
    <3>1. n \in 1..Len(u) /\ (u \o v)[n] = u[n]
      BY <1>1, <2>1, <2>2
    <3>2. n > 1 => (u \o v)[n-1] = u[n-1]
      BY <1>1, <2>1, <2>2
    <3>3. n < Len(u) => (u \o v)[n+1] = u[n+1] /\ n < Len(u \o v)
      BY <1>1, <2>1, <2>2
    <3>4. /\ u[n].method \in Opened  => n > 1 /\ Opens(u[n-1], u[n])
          /\ u[n].method = "detach" => n < Len(u) /\ Opens(u[n], u[n+1])
      BY <3>1 DEF Paired
    <3>5. QED
      BY <3>1, <3>2, <3>3, <3>4
  <2>3. CASE n > Len(u)
    <3> DEFINE k == n - Len(u)
    <3>1. k \in 1..Len(v) /\ (u \o v)[n] = v[k]
      BY <1>1, <2>1, <2>3
    <3>2. k > 1 => (u \o v)[n-1] = v[k-1] /\ n > 1
      BY <1>1, <2>1, <2>3
    <3>3. k < Len(v) => (u \o v)[n+1] = v[k+1] /\ n < Len(u \o v)
      BY <1>1, <2>1, <2>3
    <3> HIDE DEF k
    <3>4. /\ v[k].method \in Opened  => k > 1 /\ Opens(v[k-1], v[k])
          /\ v[k].method = "detach" => k < Len(v) /\ Opens(v[k], v[k+1])
      BY <3>1 DEF Paired
    <3>5. QED
      BY <3>1, <3>2, <3>3, <3>4
  <2>4. QED
    BY <2>1, <2>2, <2>3
<1>3. ToSet(u \o v) = ToSet(u) \cup ToSet(v)
  BY <1>1, AppendElements
<1>4. QED
  BY <1>1, <1>2, <1>3 DEF Paired

\* And flattened.
LEMMA PairedFlatten ==
  ASSUME NEW C, NEW ss \in Seq(Paired(C))
  PROVE  /\ FlattenSeq(ss) \in Paired(C)
         /\ ToSet(FlattenSeq(ss)) = UNION {ToSet(ss[i]) : i \in DOMAIN ss}
<1>1. <<>> \in Paired(C)
  BY DEF Paired
<1>2. FlattenSeq(ss) \in Paired(C)
  BY <1>1, PairedAppend, FlattenAll
<1>3. Paired(C) \subseteq Seq(C)
  BY DEF Paired
<1>4. ss \in Seq(Seq(C))
  BY <1>3
<1>5. QED
  BY <1>2, <1>4, FlattenElements

\* Two calls that belong together, or two that need no other.
LEMMA PairedPair ==
  ASSUME NEW C, NEW a \in C, NEW b \in C,
         \/ Opens(a, b)
         \/ {a.method, b.method} \cap (Opened \cup {"detach"}) = {}
  PROVE  <<a, b>> \in Paired(C) /\ ToSet(<<a, b>>) = {a, b}
<1> DEFINE s == <<a, b>>
<1>1. s \in Seq(C) /\ Len(s) = 2 /\ s[1] = a /\ s[2] = b /\ DOMAIN s = 1..2
  OBVIOUS
<1>2. /\ a.method \notin Opened /\ b.method # "detach"
      /\ b.method \in Opened => Opens(a, b)
      /\ a.method = "detach" => Opens(a, b)
  BY DEF Opens, Opened
<1> HIDE DEF s
<1>3. \A n \in 1..Len(s) :
        /\ s[n].method \in Opened  => n > 1 /\ Opens(s[n-1], s[n])
        /\ s[n].method = "detach" => n < Len(s) /\ Opens(s[n], s[n+1])
  <2> SUFFICES ASSUME NEW n \in 1..Len(s)
               PROVE  /\ s[n].method \in Opened  => n > 1 /\ Opens(s[n-1], s[n])
                      /\ s[n].method = "detach" => n < Len(s) /\ Opens(s[n], s[n+1])
    OBVIOUS
  <2>1. CASE n = 1
    BY <1>1, <1>2, <2>1
  <2>2. CASE n = 2
    BY <1>1, <1>2, <2>2
  <2>3. QED
    BY <1>1, <2>1, <2>2
<1>4. s \in Paired(C)
  BY <1>1, <1>3 DEF Paired
<1>5. ToSet(s) = {s[1], s[2]}
  BY <1>1 DEF ToSet
<1>6. QED
  BY <1>1, <1>4, <1>5 DEF s

\* The boards are finitely many, and so are the VLANs.
LEMMA Finite ==
  /\ IsFiniteSet(Board)
  /\ IsFiniteSet(ALL_VLANS) /\ ALL_VLANS \subseteq Int
<1>1. IsFiniteSet(1..Len(BOARDS)) /\ DOMAIN BOARDS = 1..Len(BOARDS)
  BY TableAssumption, FS_Interval DEF TableAssumption
<1>2. BOARDS \in Surjection(1..Len(BOARDS), Board)
  BY <1>1, TableAssumption DEF TableAssumption, Surjection, Board, ToSet
<1>3. IsFiniteSet(Board)
  BY <1>1, <1>2, FS_Surjection
<1> DEFINE V == {UpVlan[b] : b \in Board}
<1>4. UpVlan \in Surjection(Board, V)
  BY TableAssumption DEF TableAssumption, Surjection
<1>5. IsFiniteSet(V)
  BY <1>3, <1>4, FS_Surjection
<1>6. IsFiniteSet({DOWN_VLAN} \cup V)
  BY <1>5, FS_Singleton, FS_Union
<1>7. QED
  BY <1>3, <1>6, TableAssumption DEF ALL_VLANS, TableAssumption

\* The calls of a loop over a table, F[x] those of the row x.
Loop(seq, F) == FlattenSeq([i \in DOMAIN seq |-> F[seq[i]]])

\* A loop over a table makes the calls of each of its rows.
LEMMA LoopPaired ==
  ASSUME NEW C, NEW X, NEW seq \in Seq(X), NEW F \in [X -> Paired(C)]
  PROVE  /\ Loop(seq, F) \in Paired(C)
         /\ \A x \in ToSet(seq) : ToSet(F[x]) \subseteq ToSet(Loop(seq, F))
<1> DEFINE ss == [i \in DOMAIN seq |-> F[seq[i]]]
<1>1. ss \in Seq(Paired(C)) /\ DOMAIN ss = DOMAIN seq /\ \A i \in DOMAIN seq : ss[i] = F[seq[i]]
  OBVIOUS
<1>2. Loop(seq, F) = FlattenSeq(ss)
  BY DEF Loop
<1> HIDE DEF ss
<1>3. FlattenSeq(ss) \in Paired(C) /\ ToSet(FlattenSeq(ss)) = UNION {ToSet(ss[i]) : i \in DOMAIN ss}
  BY <1>1, PairedFlatten
<1>4. ASSUME NEW x \in ToSet(seq) PROVE ToSet(F[x]) \subseteq ToSet(FlattenSeq(ss))
  <2>1. PICK i \in DOMAIN seq : seq[i] = x
    BY DEF ToSet
  <2>2. i \in DOMAIN ss /\ ss[i] = F[x]
    BY <1>1, <2>1
  <2>3. QED
    BY <2>2, <1>3
<1>5. QED
  BY <1>2, <1>3, <1>4

\* The tables of the script.
LEMMA Tables ==
  /\ SWITCHES \in Seq(ToSet(SWITCHES)) /\ ToSet(SWITCHES) = {"switch1", "switch2"}
  /\ RING_PORTS \in Seq(Ports) /\ Ports = {"Gi 1/1", "Gi 1/2"}
  /\ BOARDS \in Seq(Board)
  /\ sorted(ALL_VLANS) \in Seq(ALL_VLANS) /\ ToSet(sorted(ALL_VLANS)) = ALL_VLANS
  /\ RingSlot = ToSet(SWITCHES) \X Ports
<1>1. SWITCHES \in Seq(ToSet(SWITCHES)) /\ ToSet(SWITCHES) = {"switch1", "switch2"}
  <2>1. DOMAIN SWITCHES = {1, 2} /\ SWITCHES[1] = "switch1" /\ SWITCHES[2] = "switch2"
    BY DEF SWITCHES
  <2>2. ToSet(SWITCHES) = {"switch1", "switch2"}
    BY <2>1 DEF ToSet
  <2>3. QED
    BY <2>2 DEF SWITCHES
<1>2. RING_PORTS \in Seq(Ports) /\ Ports = {"Gi 1/1", "Gi 1/2"}
  <2>1. DOMAIN RING_PORTS = {1, 2} /\ RING_PORTS[1] = "Gi 1/1" /\ RING_PORTS[2] = "Gi 1/2"
    BY DEF RING_PORTS
  <2>2. Ports = {"Gi 1/1", "Gi 1/2"}
    BY <2>1 DEF ToSet, Ports
  <2>3. RING_PORTS \in Seq({"Gi 1/1", "Gi 1/2"})
    BY DEF RING_PORTS
  <2>4. QED
    BY <2>2, <2>3
<1>3. sorted(ALL_VLANS) \in Seq(ALL_VLANS) /\ ToSet(sorted(ALL_VLANS)) = ALL_VLANS
  <2>1. ToSet(sorted(ALL_VLANS)) = ALL_VLANS
    BY Finite, SortedElements
  <2>2. Cardinality(ALL_VLANS) \in Nat
    BY Finite, FS_CardinalityType
  <2>3. DOMAIN sorted(ALL_VLANS) = 1..Cardinality(ALL_VLANS)
    BY DEF sorted
  <2>4. \A i \in 1..Cardinality(ALL_VLANS) : sorted(ALL_VLANS)[i] \in ALL_VLANS
    BY <2>1, <2>3 DEF ToSet
  <2>5. sorted(ALL_VLANS) = [i \in 1..Cardinality(ALL_VLANS) |-> sorted(ALL_VLANS)[i]]
    BY SMTT(30) DEF sorted
  <2>6. QED
    BY <2>1, <2>2, <2>4, <2>5
<1>4. QED
  BY <1>1, <1>2, <1>3, TableAssumption DEF TableAssumption, RingSlot, Ports

\* The two or three steps at a port.
LEMMA PortPaired ==
  ASSUME NEW sw, NEW p
  PROVE  /\ <<sw, p>> \in Slot =>
              /\ set_matching(sw, p) \in Paired(PartCall)
              /\ ToSet(set_matching(sw, p)) =
                   {Call("vcl_cfg.get", sw, p, {}), Call("vcl_cfg.set", sw, p, {})}
         /\ \A change : <<sw, p>> \in Slot /\ Call("vlan.set", sw, p, change) \in VlanCall =>
              /\ set_vlan(sw, p, change) \in Paired(PartCall)
              /\ ToSet(set_vlan(sw, p, change)) =
                   {Call("vlan.get", sw, p, {}), Call("vlan.set", sw, p, change)}
         /\ <<sw, p>> \in RingSlot =>
              /\ disable_stp(sw, p) \in Paired(PartCall)
              /\ ToSet(disable_stp(sw, p)) =
                   {Call("cist.get", sw, p, {}), Call("cist.set", sw, p, {})}
<1>1. ASSUME <<sw, p>> \in Slot
      PROVE  /\ set_matching(sw, p) \in Paired(PartCall)
             /\ ToSet(set_matching(sw, p)) =
                  {Call("vcl_cfg.get", sw, p, {}), Call("vcl_cfg.set", sw, p, {})}
  <2> DEFINE a == Call("vcl_cfg.get", sw, p, {})
             b == Call("vcl_cfg.set", sw, p, {})
  <2>1. a \in PortCall /\ b \in PortCall
    <3>1. <<sw, p>>[1] = sw /\ <<sw, p>>[2] = p
      OBVIOUS
    <3>2. \E x \in Slot : a = Call("vcl_cfg.get", x[1], x[2], {}) /\ b = Call("vcl_cfg.set", x[1], x[2], {})
      BY <1>1, <3>1
    <3> HIDE DEF a, b
    <3>3. QED
      BY <3>2 DEF PortCall
  <2>2. Opens(a, b)
    BY DEF Opens, Call
  <2>3. a \in PartCall /\ b \in PartCall
    BY <2>1 DEF PartCall
  <2> HIDE DEF a, b
  <2>4. <<a, b>> \in Paired(PartCall) /\ ToSet(<<a, b>>) = {a, b}
    BY <2>2, <2>3, PairedPair
  <2>5. QED
    BY <2>4 DEF set_matching, a, b
<1>2. ASSUME NEW change, <<sw, p>> \in Slot, Call("vlan.set", sw, p, change) \in VlanCall
      PROVE  /\ set_vlan(sw, p, change) \in Paired(PartCall)
             /\ ToSet(set_vlan(sw, p, change)) =
                  {Call("vlan.get", sw, p, {}), Call("vlan.set", sw, p, change)}
  <2> DEFINE a == Call("vlan.get", sw, p, {})
             b == Call("vlan.set", sw, p, change)
  <2>1. a \in PortCall
    <3>1. <<sw, p>>[1] = sw /\ <<sw, p>>[2] = p
      OBVIOUS
    <3>2. \E x \in Slot : a = Call("vlan.get", x[1], x[2], {})
      BY <1>2, <3>1
    <3> HIDE DEF a
    <3>3. QED
      BY <3>2 DEF PortCall
  <2>2. Opens(a, b)
    BY DEF Opens, Call
  <2>3. a \in PartCall /\ b \in PartCall
    BY <1>2, <2>1 DEF PartCall
  <2> HIDE DEF a, b
  <2>4. <<a, b>> \in Paired(PartCall) /\ ToSet(<<a, b>>) = {a, b}
    BY <2>2, <2>3, PairedPair
  <2>5. QED
    BY <2>4 DEF set_vlan, a, b
<1>3. ASSUME <<sw, p>> \in RingSlot
      PROVE  /\ disable_stp(sw, p) \in Paired(PartCall)
             /\ ToSet(disable_stp(sw, p)) =
                  {Call("cist.get", sw, p, {}), Call("cist.set", sw, p, {})}
  <2> DEFINE a == Call("cist.get", sw, p, {})
             b == Call("cist.set", sw, p, {})
  <2>1. a \in StpCall /\ b \in StpCall
    <3>1. <<sw, p>>[1] = sw /\ <<sw, p>>[2] = p
      OBVIOUS
    <3>2. \E x \in RingSlot : a = Call("cist.get", x[1], x[2], {}) /\ b = Call("cist.set", x[1], x[2], {})
      BY <1>3, <3>1
    <3> HIDE DEF a, b
    <3>3. QED
      BY <3>2 DEF StpCall
  <2>2. Opens(a, b)
    BY DEF Opens, Call
  <2>3. a \in PartCall /\ b \in PartCall
    BY <2>1 DEF PartCall
  <2> HIDE DEF a, b
  <2>4. <<a, b>> \in Paired(PartCall) /\ ToSet(<<a, b>>) = {a, b}
    BY <2>2, <2>3, PairedPair
  <2>5. QED
    BY <2>4 DEF disable_stp, a, b
<1>4. QED
  BY <1>1, <1>2, <1>3

\* The ring ports: every one gets its matching mode, its VLANs and no spanning tree.
LEMMA RingPaired ==
  /\ RingPart \in Paired(PartCall)
  /\ \A sw \in ToSet(SWITCHES), p \in Ports :
       {Call("vcl_cfg.get", sw, p, {}), Call("vcl_cfg.set", sw, p, {}),
        Call("vlan.get", sw, p, {}), Call("vlan.set", sw, p, RingChange),
        Call("cist.get", sw, p, {}), Call("cist.set", sw, p, {})} \subseteq ToSet(RingPart)
<1> DEFINE body(sw, p) == set_matching(sw, p) \o set_vlan(sw, p, RingChange) \o disable_stp(sw, p)
           Inner(sw) == [p \in Ports |-> body(sw, p)]
           Outer     == [sw \in ToSet(SWITCHES) |-> Loop(RING_PORTS, Inner(sw))]
           calls(sw, p) ==
             {Call("vcl_cfg.get", sw, p, {}), Call("vcl_cfg.set", sw, p, {}),
              Call("vlan.get", sw, p, {}), Call("vlan.set", sw, p, RingChange),
              Call("cist.get", sw, p, {}), Call("cist.set", sw, p, {})}
<1>1. ASSUME NEW sw \in ToSet(SWITCHES), NEW p \in Ports
      PROVE  body(sw, p) \in Paired(PartCall) /\ calls(sw, p) \subseteq ToSet(body(sw, p))
  <2>1. <<sw, p>> \in RingSlot /\ <<sw, p>> \in Slot
    BY Tables DEF Slot
  <2>2. Call("vlan.set", sw, p, RingChange) \in VlanCall
    <3>1. <<sw, p>>[1] = sw /\ <<sw, p>>[2] = p
      OBVIOUS
    <3>2. \E x \in RingSlot : Call("vlan.set", sw, p, RingChange) = Call("vlan.set", x[1], x[2], RingChange)
      BY <2>1, <3>1
    <3>3. QED
      BY <3>2 DEF VlanCall
  <2> DEFINE u == set_matching(sw, p)
             v == set_vlan(sw, p, RingChange)
             w == disable_stp(sw, p)
  <2>3. /\ u \in Paired(PartCall) /\ v \in Paired(PartCall) /\ w \in Paired(PartCall)
        /\ calls(sw, p) = ToSet(u) \cup ToSet(v) \cup ToSet(w)
    <3>1. /\ u \in Paired(PartCall) /\ v \in Paired(PartCall) /\ w \in Paired(PartCall)
          /\ ToSet(u) = {Call("vcl_cfg.get", sw, p, {}), Call("vcl_cfg.set", sw, p, {})}
          /\ ToSet(v) = {Call("vlan.get", sw, p, {}), Call("vlan.set", sw, p, RingChange)}
          /\ ToSet(w) = {Call("cist.get", sw, p, {}), Call("cist.set", sw, p, {})}
      BY <2>1, <2>2, PortPaired
    <3> HIDE DEF u, v, w
    <3>2. QED
      BY <3>1
  <2> HIDE DEF u, v, w, calls
  <2>4. u \o v \in Paired(PartCall) /\ ToSet(u \o v) = ToSet(u) \cup ToSet(v)
    BY <2>3, PairedAppend
  <2>5. (u \o v) \o w \in Paired(PartCall) /\ ToSet((u \o v) \o w) = ToSet(u \o v) \cup ToSet(w)
    BY <2>3, <2>4, PairedAppend
  <2>6. QED
    BY <2>3, <2>4, <2>5 DEF u, v, w
<1> HIDE DEF body, calls
<1>2. ASSUME NEW sw \in ToSet(SWITCHES)
      PROVE  /\ Loop(RING_PORTS, Inner(sw)) \in Paired(PartCall)
             /\ \A p \in Ports : calls(sw, p) \subseteq ToSet(Loop(RING_PORTS, Inner(sw)))
  <2>1. Inner(sw) \in [Ports -> Paired(PartCall)] /\ \A p \in Ports : Inner(sw)[p] = body(sw, p)
    BY <1>1
  <2> HIDE DEF Inner
  <2>2. /\ Loop(RING_PORTS, Inner(sw)) \in Paired(PartCall)
        /\ \A p \in ToSet(RING_PORTS) : ToSet(Inner(sw)[p]) \subseteq ToSet(Loop(RING_PORTS, Inner(sw)))
    BY <2>1, Tables, LoopPaired
  <2>3. QED
    BY <2>1, <2>2, <1>1 DEF Ports
<1>3. RingPart = Loop(SWITCHES, Outer)
  <2>1. ASSUME NEW sw
        PROVE  Each(RING_PORTS, LAMBDA p :
                 set_matching(sw, p) \o set_vlan(sw, p, VlanChange(ALL_VLANS, "tagAll", 1, TRUE))
                   \o disable_stp(sw, p)) = Loop(RING_PORTS, Inner(sw))
    <3>1. \A i \in DOMAIN RING_PORTS : RING_PORTS[i] \in Ports
      BY DEF Ports, ToSet
    <3>2. [i \in DOMAIN RING_PORTS |-> Inner(sw)[RING_PORTS[i]]]
            = [i \in DOMAIN RING_PORTS |-> body(sw, RING_PORTS[i])]
      BY <3>1
    <3>3. QED
      BY <3>2 DEF Each, Loop, RingChange, body
  <2>2. [i \in DOMAIN SWITCHES |-> Outer[SWITCHES[i]]]
          = [i \in DOMAIN SWITCHES |-> Loop(RING_PORTS, Inner(SWITCHES[i]))]
    BY DEF ToSet
  <2> HIDE DEF Inner, Outer
  <2>3. QED
    BY <2>1, <2>2 DEF RingPart, Each, Loop
<1>4. Outer \in [ToSet(SWITCHES) -> Paired(PartCall)]
      /\ \A sw \in ToSet(SWITCHES) : Outer[sw] = Loop(RING_PORTS, Inner(sw))
  BY <1>2
<1> HIDE DEF Inner, Outer
<1>5. /\ RingPart \in Paired(PartCall)
      /\ \A sw \in ToSet(SWITCHES) : ToSet(Outer[sw]) \subseteq ToSet(RingPart)
  BY <1>3, <1>4, Tables, LoopPaired
<1>6. \A sw \in ToSet(SWITCHES), p \in Ports : calls(sw, p) \subseteq ToSet(RingPart)
  BY <1>2, <1>4, <1>5
<1>7. QED
  BY <1>5, <1>6 DEF calls

\* The PC port and the board ports.
LEMMA EdgePaired ==
  /\ EdgePart \in Paired(PartCall)
  /\ {Call("vcl_cfg.get", "switch1", PC_PORT_SW1, {}), Call("vcl_cfg.set", "switch1", PC_PORT_SW1, {}),
      Call("vlan.get", "switch1", PC_PORT_SW1, {}),
      Call("vlan.set", "switch1", PC_PORT_SW1, PcChange)} \subseteq ToSet(EdgePart)
  /\ \A b \in Board :
       {Call("vcl_cfg.get", "switch2", Port[b], {}), Call("vcl_cfg.set", "switch2", Port[b], {}),
        Call("vlan.get", "switch2", Port[b], {}),
        Call("vlan.set", "switch2", Port[b], BoardChange(b))} \subseteq ToSet(EdgePart)
<1> DEFINE edge(sw, p, change) == set_matching(sw, p) \o set_vlan(sw, p, change)
           calls(sw, p, change) ==
             {Call("vcl_cfg.get", sw, p, {}), Call("vcl_cfg.set", sw, p, {}),
              Call("vlan.get", sw, p, {}), Call("vlan.set", sw, p, change)}
           F == [b \in Board |-> edge("switch2", Port[b], BoardChange(b))]
           pcEdge == edge("switch1", PC_PORT_SW1, PcChange)
<1>1. ASSUME NEW sw, NEW p, NEW change,
             <<sw, p>> \in Slot, Call("vlan.set", sw, p, change) \in VlanCall
      PROVE  /\ edge(sw, p, change) \in Paired(PartCall)
             /\ calls(sw, p, change) \subseteq ToSet(edge(sw, p, change))
  <2> DEFINE u == set_matching(sw, p)
             v == set_vlan(sw, p, change)
  <2>1. /\ u \in Paired(PartCall) /\ v \in Paired(PartCall)
        /\ calls(sw, p, change) = ToSet(u) \cup ToSet(v)
    <3>1. /\ u \in Paired(PartCall) /\ v \in Paired(PartCall)
          /\ ToSet(u) = {Call("vcl_cfg.get", sw, p, {}), Call("vcl_cfg.set", sw, p, {})}
          /\ ToSet(v) = {Call("vlan.get", sw, p, {}), Call("vlan.set", sw, p, change)}
      BY <1>1, PortPaired
    <3> HIDE DEF u, v
    <3>2. QED
      BY <3>1
  <2> HIDE DEF u, v, calls
  <2>2. u \o v \in Paired(PartCall) /\ ToSet(u \o v) = ToSet(u) \cup ToSet(v)
    BY <2>1, PairedAppend
  <2>3. QED
    BY <2>1, <2>2 DEF u, v
<1> HIDE DEF edge, calls
<1>2. /\ <<"switch1", PC_PORT_SW1>> \in Slot
      /\ Call("vlan.set", "switch1", PC_PORT_SW1, PcChange) \in VlanCall
  BY DEF Slot, VlanCall
<1>3. \A b \in Board : /\ <<"switch2", Port[b]>> \in Slot
                       /\ Call("vlan.set", "switch2", Port[b], BoardChange(b)) \in VlanCall
  BY DEF Slot, BoardSlot, VlanCall
<1>4. F \in [Board -> Paired(PartCall)]
      /\ \A b \in Board : calls("switch2", Port[b], BoardChange(b)) \subseteq ToSet(F[b])
  BY <1>1, <1>3
<1>5. pcEdge \in Paired(PartCall) /\ calls("switch1", PC_PORT_SW1, PcChange) \subseteq ToSet(pcEdge)
  BY <1>1, <1>2
<1>6. EdgePart = pcEdge \o Loop(BOARDS, F)
  <2>1. Each(BOARDS, LAMBDA b :
               set_matching("switch2", Port[b])
               \o set_vlan("switch2", Port[b],
                           VlanChange({1, DOWN_VLAN, UpVlan[b]}, "untagAll", 0, FALSE)))
          = Loop(BOARDS, F)
    <3>1. \A i \in DOMAIN BOARDS : BOARDS[i] \in Board
      BY DEF Board, ToSet
    <3>2. [i \in DOMAIN BOARDS |-> F[BOARDS[i]]]
            = [i \in DOMAIN BOARDS |-> edge("switch2", Port[BOARDS[i]], BoardChange(BOARDS[i]))]
      BY <3>1
    <3> HIDE DEF F
    <3>3. QED
      BY <3>2 DEF Each, Loop, BoardChange, edge
  <2> HIDE DEF F
  <2>2. QED
    BY <2>1 DEF EdgePart, edge, PcChange
<1> HIDE DEF F, pcEdge
<1>7. Loop(BOARDS, F) \in Paired(PartCall) /\ \A b \in Board : ToSet(F[b]) \subseteq ToSet(Loop(BOARDS, F))
  BY <1>4, Tables, LoopPaired DEF Board
<1>8. /\ EdgePart \in Paired(PartCall)
      /\ ToSet(EdgePart) = ToSet(pcEdge) \cup ToSet(Loop(BOARDS, F))
  BY <1>5, <1>6, <1>7, PairedAppend
<1>9. /\ calls("switch1", PC_PORT_SW1, PcChange) \subseteq ToSet(EdgePart)
      /\ \A b \in Board : calls("switch2", Port[b], BoardChange(b)) \subseteq ToSet(EdgePart)
  BY <1>4, <1>5, <1>7, <1>8
<1>10. QED
  BY <1>8, <1>9 DEF calls

\* Flooding on and learning off, in every VLAN of both switches.
LEMMA VlanPaired ==
  /\ VlanPart \in Paired(PartCall)
  /\ \A sw \in ToSet(SWITCHES), v \in ALL_VLANS :
       {Call("flooding.set", sw, v, {}), Call("learn.set", sw, v, {})} \subseteq ToSet(VlanPart)
<1> DEFINE calls(sw, v) == {Call("flooding.set", sw, v, {}), Call("learn.set", sw, v, {})}
           body(sw, v) == <<Call("flooding.set", sw, v, {}), Call("learn.set", sw, v, {})>>
           Inner(sw) == [v \in ALL_VLANS |-> body(sw, v)]
           Outer == [sw \in ToSet(SWITCHES) |-> Loop(sorted(ALL_VLANS), Inner(sw))]
<1>1. ASSUME NEW sw \in ToSet(SWITCHES), NEW v \in ALL_VLANS
      PROVE  body(sw, v) \in Paired(PartCall) /\ calls(sw, v) = ToSet(body(sw, v))
  <2> DEFINE a == Call("flooding.set", sw, v, {})
             b == Call("learn.set", sw, v, {})
  <2>1. a \in PartCall /\ b \in PartCall
    BY DEF PartCall, FloodCall
  <2>2. {a.method, b.method} \cap (Opened \cup {"detach"}) = {}
    BY DEF Call, Opened
  <2> HIDE DEF a, b
  <2>3. <<a, b>> \in Paired(PartCall) /\ ToSet(<<a, b>>) = {a, b}
    BY <2>1, <2>2, PairedPair
  <2>4. QED
    BY <2>3 DEF a, b
<1> HIDE DEF body, calls
<1>2. ASSUME NEW sw \in ToSet(SWITCHES)
      PROVE  /\ Loop(sorted(ALL_VLANS), Inner(sw)) \in Paired(PartCall)
             /\ \A v \in ALL_VLANS : calls(sw, v) \subseteq ToSet(Loop(sorted(ALL_VLANS), Inner(sw)))
  <2>1. Inner(sw) \in [ALL_VLANS -> Paired(PartCall)] /\ \A v \in ALL_VLANS : Inner(sw)[v] = body(sw, v)
    BY <1>1
  <2> HIDE DEF Inner
  <2>2. /\ Loop(sorted(ALL_VLANS), Inner(sw)) \in Paired(PartCall)
        /\ \A v \in ToSet(sorted(ALL_VLANS)) :
             ToSet(Inner(sw)[v]) \subseteq ToSet(Loop(sorted(ALL_VLANS), Inner(sw)))
    BY <2>1, Tables, LoopPaired
  <2>3. QED
    BY <2>1, <2>2, <1>1, Tables
<1>3. VlanPart = Loop(SWITCHES, Outer)
  <2>1. ASSUME NEW sw
        PROVE  Each(sorted(ALL_VLANS), LAMBDA v :
                 <<Call("flooding.set", sw, v, {}), Call("learn.set", sw, v, {})>>)
                 = Loop(sorted(ALL_VLANS), Inner(sw))
    <3>1. \A i \in DOMAIN sorted(ALL_VLANS) : sorted(ALL_VLANS)[i] \in ALL_VLANS
      BY Tables DEF ToSet
    <3>2. [i \in DOMAIN sorted(ALL_VLANS) |-> Inner(sw)[sorted(ALL_VLANS)[i]]]
            = [i \in DOMAIN sorted(ALL_VLANS) |-> body(sw, sorted(ALL_VLANS)[i])]
      BY <3>1
    <3>3. QED
      BY <3>2 DEF Each, Loop, body
  <2>2. [i \in DOMAIN SWITCHES |-> Outer[SWITCHES[i]]]
          = [i \in DOMAIN SWITCHES |-> Loop(sorted(ALL_VLANS), Inner(SWITCHES[i]))]
    BY DEF ToSet
  <2> HIDE DEF Inner, Outer
  <2>3. QED
    BY <2>1, <2>2 DEF VlanPart, Each, Loop
<1>4. /\ Outer \in [ToSet(SWITCHES) -> Paired(PartCall)]
      /\ \A sw \in ToSet(SWITCHES) : Outer[sw] = Loop(sorted(ALL_VLANS), Inner(sw))
  BY <1>2
<1> HIDE DEF Inner, Outer
<1>5. /\ VlanPart \in Paired(PartCall)
      /\ \A sw \in ToSet(SWITCHES) : ToSet(Outer[sw]) \subseteq ToSet(VlanPart)
  BY <1>3, <1>4, Tables, LoopPaired
<1>6. \A sw \in ToSet(SWITCHES), v \in ALL_VLANS : calls(sw, v) \subseteq ToSet(VlanPart)
  BY <1>2, <1>4, <1>5
<1>7. QED
  BY <1>5, <1>6 DEF calls

\* The delivery entries of every board.
LEMMA DeliveryPaired ==
  /\ DeliveryPart \in Paired(PartCall)
  /\ \A b \in Board : {Call("fdb.add", "switch2", b, "down"), Call("fdb.add", "switch1", b, "up")}
                        \subseteq ToSet(DeliveryPart)
<1> DEFINE body(b) == <<Call("fdb.add", "switch2", b, "down"), Call("fdb.add", "switch1", b, "up")>>
           calls(b) == {Call("fdb.add", "switch2", b, "down"), Call("fdb.add", "switch1", b, "up")}
           F == [b \in Board |-> body(b)]
<1>1. ASSUME NEW b \in Board
      PROVE  body(b) \in Paired(PartCall) /\ calls(b) = ToSet(body(b))
  <2> DEFINE a == Call("fdb.add", "switch2", b, "down")
             c == Call("fdb.add", "switch1", b, "up")
  <2>1. a \in PartCall /\ c \in PartCall
    BY DEF PartCall, FdbCall
  <2>2. {a.method, c.method} \cap (Opened \cup {"detach"}) = {}
    BY DEF Call, Opened
  <2> HIDE DEF a, c
  <2>3. <<a, c>> \in Paired(PartCall) /\ ToSet(<<a, c>>) = {a, c}
    BY <2>1, <2>2, PairedPair
  <2>4. QED
    BY <2>3 DEF a, c
<1> HIDE DEF body, calls
<1>2. F \in [Board -> Paired(PartCall)] /\ \A b \in Board : calls(b) \subseteq ToSet(F[b])
  BY <1>1
<1>3. DeliveryPart = Loop(BOARDS, F)
  <2>1. \A i \in DOMAIN BOARDS : BOARDS[i] \in Board
    BY DEF Board, ToSet
  <2>2. [i \in DOMAIN BOARDS |-> F[BOARDS[i]]] = [i \in DOMAIN BOARDS |-> body(BOARDS[i])]
    BY <2>1
  <2> HIDE DEF F
  <2>3. QED
    BY <2>2 DEF DeliveryPart, Each, Loop, body
<1> HIDE DEF F
<1>4. DeliveryPart \in Paired(PartCall) /\ \A b \in Board : ToSet(F[b]) \subseteq ToSet(DeliveryPart)
  BY <1>2, <1>3, Tables, LoopPaired DEF Board
<1>5. QED
  BY <1>2, <1>4 DEF calls

-----------------------------------------------------------------------------
(* The flows: what serves which end, in which order. *)

EndOf(c) == IF c.method \in EndMethod THEN c.on ELSE c.arg
FlowMethod == EndMethod \cup {"detach", "attach"}

\* A call serves one end, or none.
LEMMA CallServes ==
  /\ \A e : \A c \in EndCall(e) : c.method \in FlowMethod /\ EndOf(c) = e
  /\ \A c \in PartCall : c.method \notin FlowMethod
<1>1. ASSUME NEW e, NEW c \in EndCall(e)
      PROVE  c.method \in FlowMethod /\ EndOf(c) = e
  BY DEF EndCall, FlowMethod, EndMethod, EndOf, Call
<1>2. ASSUME NEW c \in PartCall PROVE c.method \notin FlowMethod
  <2>1. CASE c \in PortCall
    BY <2>1 DEF PortCall, FlowMethod, EndMethod, Call
  <2>2. CASE c \in VlanCall
    BY <2>2 DEF VlanCall, FlowMethod, EndMethod, Call
  <2>3. CASE c \in StpCall
    BY <2>3 DEF StpCall, FlowMethod, EndMethod, Call
  <2>4. CASE c \in FloodCall
    BY <2>4 DEF FloodCall, FlowMethod, EndMethod, Call
  <2>5. CASE c \in FdbCall
    BY <2>5 DEF FdbCall, FlowMethod, EndMethod, Call
  <2>6. QED
    BY <2>1, <2>2, <2>3, <2>4, <2>5 DEF PartCall
<1>3. QED
  BY <1>1, <1>2

\* Paired calls of a set are paired calls of a larger one.
LEMMA PairedGrows ==
  ASSUME NEW C, NEW D, C \subseteq D
  PROVE  Paired(C) \subseteq Paired(D)
<1>1. Seq(C) \subseteq Seq(D)
  OBVIOUS
<1>2. QED
  BY <1>1 DEF Paired

\* Installing an end makes its calls, all of them and no others.
LEMMA InstallPaired ==
  ASSUME NEW e \in End
  PROVE  Install(e) \in Paired(EndCall(e)) /\ EndCall(e) \subseteq ToSet(Install(e))
<1> DEFINE ps == ToSet(EndPorts(e))
           stream == put_stream(e)
           frer == put_frer(e)
           F == [p \in ps |-> attach_stream(e, p)]
           C == EndCall(e)
<1>1. stream \in Paired(C) /\ ToSet(stream) = {Call(m, EndSwitch(e), e, {}) : m \in {"stream.add", "stream.set"}}
  <2> DEFINE a == Call("stream.add", EndSwitch(e), e, {})
             b == Call("stream.set", EndSwitch(e), e, {})
  <2>1. a \in C /\ b \in C
    BY DEF EndCall, EndMethod
  <2>2. {a.method, b.method} \cap (Opened \cup {"detach"}) = {}
    BY DEF Call, Opened
  <2>3. {Call(m, EndSwitch(e), e, {}) : m \in {"stream.add", "stream.set"}} = {a, b}
    OBVIOUS
  <2> HIDE DEF a, b, C
  <2>4. <<a, b>> \in Paired(C) /\ ToSet(<<a, b>>) = {a, b}
    BY <2>1, <2>2, PairedPair
  <2>5. QED
    BY <2>3, <2>4 DEF a, b, put_stream
<1>2. frer \in Paired(C) /\ ToSet(frer) = {Call(m, EndSwitch(e), e, {}) : m \in {"frer.add", "frer.set"}}
  <2> DEFINE a == Call("frer.add", EndSwitch(e), e, {})
             b == Call("frer.set", EndSwitch(e), e, {})
  <2>1. a \in C /\ b \in C
    BY DEF EndCall, EndMethod
  <2>2. {a.method, b.method} \cap (Opened \cup {"detach"}) = {}
    BY DEF Call, Opened
  <2>3. {Call(m, EndSwitch(e), e, {}) : m \in {"frer.add", "frer.set"}} = {a, b}
    OBVIOUS
  <2> HIDE DEF a, b, C
  <2>4. <<a, b>> \in Paired(C) /\ ToSet(<<a, b>>) = {a, b}
    BY <2>1, <2>2, PairedPair
  <2>5. QED
    BY <2>3, <2>4 DEF a, b, put_frer
<1>3. ASSUME NEW p \in ps
      PROVE  /\ attach_stream(e, p) \in Paired(C)
             /\ ToSet(attach_stream(e, p)) = {Call(m, EndSwitch(e), p, e) : m \in {"detach", "attach"}}
  <2> DEFINE a == Call("detach", EndSwitch(e), p, e)
             b == Call("attach", EndSwitch(e), p, e)
  <2>1. a \in C /\ b \in C
    BY DEF EndCall
  <2>2. Opens(a, b)
    BY DEF Call, Opens
  <2>3. {Call(m, EndSwitch(e), p, e) : m \in {"detach", "attach"}} = {a, b}
    OBVIOUS
  <2> HIDE DEF a, b, C
  <2>4. <<a, b>> \in Paired(C) /\ ToSet(<<a, b>>) = {a, b}
    BY <2>1, <2>2, PairedPair
  <2>5. QED
    BY <2>3, <2>4 DEF a, b, attach_stream
<1>4. EndPorts(e) \in Seq(ps)
  <2>1. \A x : <<x>> \in Seq(ToSet(<<x>>))
    <3> SUFFICES ASSUME NEW x PROVE <<x>> \in Seq(ToSet(<<x>>))
      OBVIOUS
    <3>1. x \in ToSet(<<x>>)
      <4>1. 1 \in DOMAIN <<x>> /\ <<x>>[1] = x
        OBVIOUS
      <4>2. QED
        BY <4>1 DEF ToSet
    <3>2. QED
      BY <3>1
  <2>2. RING_PORTS \in Seq(ToSet(RING_PORTS))
    BY Tables DEF Ports
  <2>3. CASE e[3] = "rec"
    <3>1. EndPorts(e) = RING_PORTS
      BY <2>3 DEF EndPorts
    <3>2. QED
      BY <3>1, <2>2
  <2>4. CASE e[3] # "rec" /\ e[2] = "down"
    <3>1. EndPorts(e) = <<PC_PORT_SW1>>
      BY <2>4 DEF EndPorts
    <3>2. QED
      BY <3>1, <2>1
  <2>5. CASE e[3] # "rec" /\ e[2] # "down"
    <3>1. EndPorts(e) = <<Port[e[1]]>>
      BY <2>5 DEF EndPorts
    <3>2. QED
      BY <3>1, <2>1
  <2>6. QED
    BY <2>3, <2>4, <2>5
<1> DEFINE attach == Loop(EndPorts(e), F)
<1>5. attach = Each(EndPorts(e), LAMBDA p : attach_stream(e, p))
  <2>1. \A i \in DOMAIN EndPorts(e) : EndPorts(e)[i] \in ps
    BY DEF ToSet
  <2>2. [i \in DOMAIN EndPorts(e) |-> F[EndPorts(e)[i]]]
          = [i \in DOMAIN EndPorts(e) |-> attach_stream(e, EndPorts(e)[i])]
    BY <2>1
  <2> HIDE DEF F
  <2>3. QED
    BY <2>2 DEF Each, Loop
<1>6. F \in [ps -> Paired(C)]
      /\ \A p \in ps : ToSet(F[p]) = {Call(m, EndSwitch(e), p, e) : m \in {"detach", "attach"}}
  <2> HIDE DEF C, ps
  <2>1. QED
    BY <1>3
<1>7. attach \in Paired(C)
      /\ \A p \in ps : {Call(m, EndSwitch(e), p, e) : m \in {"detach", "attach"}} \subseteq ToSet(attach)
  <2>1. attach \in Paired(C) /\ \A p \in ToSet(EndPorts(e)) : ToSet(F[p]) \subseteq ToSet(attach)
    <3> HIDE DEF F, C
    <3>1. QED
      BY <1>4, <1>6, LoopPaired
  <2> HIDE DEF F, C, attach
  <2>2. QED
    BY <2>1, <1>6
<1>8. Install(e) = (stream \o attach) \o frer
  <2> HIDE DEF attach
  <2>1. QED
    BY <1>5 DEF Install
<1> HIDE DEF stream, frer, attach
<1>9. /\ stream \o attach \in Paired(C)
      /\ ToSet(stream \o attach) = ToSet(stream) \cup ToSet(attach)
  BY <1>1, <1>7, PairedAppend
<1>10. /\ Install(e) \in Paired(C)
       /\ ToSet(Install(e)) = ToSet(stream) \cup ToSet(attach) \cup ToSet(frer)
  BY <1>2, <1>8, <1>9, PairedAppend
<1>11. ASSUME NEW c \in EndCall(e) PROVE c \in ToSet(Install(e))
  <2>1. \/ c \in {Call(m, EndSwitch(e), e, {}) : m \in {"stream.add", "stream.set"}}
        \/ c \in {Call(m, EndSwitch(e), e, {}) : m \in {"frer.add", "frer.set"}}
        \/ \E p \in ps : c \in {Call(m, EndSwitch(e), p, e) : m \in {"detach", "attach"}}
    BY DEF EndCall, EndMethod
  <2> HIDE DEF ps
  <2>2. QED
    BY <2>1, <1>1, <1>2, <1>7, <1>10
<1>12. QED
  BY <1>10, <1>11

\* Of a flow, no call of the recovery end comes after one of the generation end.
Ordered(f) ==
  {s \in Seq(AnyCall) :
     \A n, m \in 1..Len(s) :
       s[n] \in EndCall(<<f[1], f[2], "rec">>) /\ s[m] \in EndCall(<<f[1], f[2], "gen">>) => n < m}

\* Calls that do not serve the flow.
Others(f) == Seq(AnyCall \ (EndCall(<<f[1], f[2], "rec">>) \cup EndCall(<<f[1], f[2], "gen">>)))

\* They may come before and after.
LEMMA OrderedAppend ==
  ASSUME NEW f
  PROVE  /\ \A u \in Others(f), v \in Others(f) : u \o v \in Others(f)
         /\ \A u \in Others(f), v \in Ordered(f) : u \o v \in Ordered(f) /\ v \o u \in Ordered(f)
<1> DEFINE R == EndCall(<<f[1], f[2], "rec">>)
           G == EndCall(<<f[1], f[2], "gen">>)
<1>1. \A u \in Others(f), v \in Others(f) : u \o v \in Others(f)
  BY DEF Others
<1>2. ASSUME NEW u \in Others(f), NEW v \in Ordered(f)
      PROVE  u \o v \in Ordered(f) /\ v \o u \in Ordered(f)
  <2> HIDE DEF R, G
  <2>0. /\ u \in Seq(AnyCall \ (R \cup G)) /\ v \in Seq(AnyCall)
        /\ \A n, m \in 1..Len(v) : v[n] \in R /\ v[m] \in G => n < m
    BY DEF Others, Ordered, R, G
  <2>1. /\ u \in Seq(AnyCall) /\ v \in Seq(AnyCall) /\ Len(u) \in Nat /\ Len(v) \in Nat
        /\ \A n \in 1..Len(u) : u[n] \notin R /\ u[n] \notin G
        /\ \A n, m \in 1..Len(v) : v[n] \in R /\ v[m] \in G => n < m
    <3>1. \A n \in 1..Len(u) : u[n] \in AnyCall \ (R \cup G)
      BY <2>0
    <3>2. u \in Seq(AnyCall) /\ Len(u) \in Nat /\ Len(v) \in Nat
      BY <2>0
    <3>3. QED
      BY <2>0, <3>1, <3>2
  <2>2. ASSUME NEW n \in 1..Len(u \o v), NEW m \in 1..Len(u \o v),
               (u \o v)[n] \in R, (u \o v)[m] \in G
        PROVE  n < m
    <3>1. n - Len(u) \in 1..Len(v) /\ m - Len(u) \in 1..Len(v)
      BY <2>1, <2>2
    <3>2. (u \o v)[n] = v[n - Len(u)] /\ (u \o v)[m] = v[m - Len(u)]
      BY <2>1, <3>1
    <3>3. n - Len(u) < m - Len(u)
      BY <2>1, <2>2, <3>1, <3>2
    <3>4. QED
      BY <3>3, <2>1
  <2>3. ASSUME NEW n \in 1..Len(v \o u), NEW m \in 1..Len(v \o u),
               (v \o u)[n] \in R, (v \o u)[m] \in G
        PROVE  n < m
    <3>1. n \in 1..Len(v) /\ m \in 1..Len(v)
      BY <2>1, <2>3
    <3>2. (v \o u)[n] = v[n] /\ (v \o u)[m] = v[m]
      BY <2>1, <3>1
    <3>3. QED
      BY <2>1, <2>3, <3>1, <3>2
  <2>4. u \o v \in Seq(AnyCall) /\ v \o u \in Seq(AnyCall)
    BY <2>1
  <2>5. QED
    BY <2>2, <2>3, <2>4 DEF Ordered, R, G
<1>3. QED
  BY <1>1, <1>2

\* Flow puts the recovery end first, and makes every call of both ends.
LEMMA FlowPaired ==
  ASSUME NEW b \in Board, NEW d \in Direction
  PROVE  /\ Flow(b, d) \in Paired(EndCall(<<b, d, "rec">>) \cup EndCall(<<b, d, "gen">>))
         /\ EndCall(<<b, d, "rec">>) \cup EndCall(<<b, d, "gen">>) \subseteq ToSet(Flow(b, d))
         /\ Flow(b, d) \in Ordered(<<b, d>>)
<1> DEFINE R == EndCall(<<b, d, "rec">>)
           G == EndCall(<<b, d, "gen">>)
           u == Install(<<b, d, "rec">>)
           v == Install(<<b, d, "gen">>)
<1>1. <<b, d, "rec">> \in End /\ <<b, d, "gen">> \in End
  BY DEF End, Direction
<1>2. /\ u \in Paired(R) /\ R \subseteq ToSet(u)
      /\ v \in Paired(G) /\ G \subseteq ToSet(v)
  BY <1>1, InstallPaired
<1>3. R \cap G = {}
  <2>1. \A c \in R \cap G : EndOf(c) = <<b, d, "rec">> /\ EndOf(c) = <<b, d, "gen">>
    BY CallServes
  <2> HIDE DEF R, G
  <2>2. QED
    BY <2>1
<1>4. Flow(b, d) = u \o v
  BY DEF Flow
<1>5. R \cup G \subseteq AnyCall
  BY <1>1 DEF AnyCall
<1>6. /\ <<b, d>>[1] = b /\ <<b, d>>[2] = d
  OBVIOUS
<1> HIDE DEF u, v, R, G
<1>7. u \in Paired(R \cup G) /\ v \in Paired(R \cup G)
  BY <1>2, PairedGrows
<1>8. u \o v \in Paired(R \cup G) /\ ToSet(u \o v) = ToSet(u) \cup ToSet(v)
  BY <1>7, PairedAppend
<1>9. u \o v \in Ordered(<<b, d>>)
  <2>1. u \in Seq(R) /\ v \in Seq(G) /\ Len(u) \in Nat /\ Len(v) \in Nat
    BY <1>2 DEF Paired
  <2>2. u \o v \in Seq(AnyCall)
    BY <1>5, <2>1
  <2>3. ASSUME NEW n \in 1..Len(u \o v), NEW m \in 1..Len(u \o v),
               (u \o v)[n] \in R, (u \o v)[m] \in G
        PROVE  n < m
    <3>1. n <= Len(u)
      <4>1. ASSUME n > Len(u) PROVE FALSE
        <5>1. (u \o v)[n] = v[n - Len(u)] /\ n - Len(u) \in 1..Len(v)
          BY <2>1, <4>1
        <5>2. v[n - Len(u)] \in G
          BY <5>1, <2>1
        <5>3. QED
          BY <5>1, <5>2, <1>3, <2>3
      <4>2. QED
        BY <4>1, <2>1
    <3>2. m > Len(u)
      <4>1. ASSUME m <= Len(u) PROVE FALSE
        <5>1. (u \o v)[m] = u[m] /\ m \in 1..Len(u)
          BY <2>1, <4>1
        <5>2. u[m] \in R
          BY <5>1, <2>1
        <5>3. QED
          BY <5>1, <5>2, <1>3, <2>3
      <4>2. QED
        BY <4>1, <2>1
    <3>3. QED
      BY <3>1, <3>2, <2>1
  <2>4. QED
    BY <2>2, <2>3, <1>6 DEF Ordered, R, G
<1>10. QED
  BY <1>2, <1>4, <1>8, <1>9 DEF R, G

\* The flows of all the boards, each in order.
LEMMA FlowsPaired ==
  /\ FlowPart \in Paired(UNION {EndCall(e) : e \in End})
  /\ \A e \in End : EndCall(e) \subseteq ToSet(FlowPart)
  /\ \A f \in Board \X Direction : FlowPart \in Ordered(f)
<1> DEFINE C == UNION {EndCall(e) : e \in End}
           F == [b \in Board |-> Flow(b, "down") \o Flow(b, "up")]
           ends(b, d) == EndCall(<<b, d, "rec">>) \cup EndCall(<<b, d, "gen">>)
           ss == [i \in DOMAIN BOARDS |-> F[BOARDS[i]]]
<1>1. \A b \in Board, d \in Direction : ends(b, d) \subseteq C
  <2> SUFFICES ASSUME NEW b \in Board, NEW d \in Direction PROVE ends(b, d) \subseteq C
    OBVIOUS
  <2>1. <<b, d, "rec">> \in End /\ <<b, d, "gen">> \in End
    BY DEF End, Direction
  <2>2. QED
    BY <2>1
<1>2. C \subseteq AnyCall
  BY DEF AnyCall
<1>3. ASSUME NEW b \in Board
      PROVE  /\ F[b] \in Paired(C)
             /\ ToSet(F[b]) = ToSet(Flow(b, "down")) \cup ToSet(Flow(b, "up"))
             /\ ends(b, "down") \cup ends(b, "up") \subseteq ToSet(F[b])
  <2>1. "down" \in Direction /\ "up" \in Direction
    BY DEF Direction
  <2>2. /\ Flow(b, "down") \in Paired(ends(b, "down")) /\ Flow(b, "up") \in Paired(ends(b, "up"))
        /\ ends(b, "down") \subseteq ToSet(Flow(b, "down")) /\ ends(b, "up") \subseteq ToSet(Flow(b, "up"))
    BY <2>1, FlowPaired
  <2> HIDE DEF ends, C
  <2>3. Flow(b, "down") \in Paired(C) /\ Flow(b, "up") \in Paired(C)
    BY <1>1, <2>1, <2>2, PairedGrows
  <2>4. QED
    BY <2>2, <2>3, PairedAppend
<1>4. FlowPart = Loop(BOARDS, F)
  <2>1. \A i \in DOMAIN BOARDS : BOARDS[i] \in Board
    BY DEF Board, ToSet
  <2>2. ss = [i \in DOMAIN BOARDS |-> Flow(BOARDS[i], "down") \o Flow(BOARDS[i], "up")]
    BY <2>1
  <2> HIDE DEF F
  <2>3. QED
    BY <2>2 DEF FlowPart, Each, Loop
<1>5. F \in [Board -> Paired(C)]
  <2> HIDE DEF C
  <2>1. QED
    BY <1>3
<1>6. FlowPart \in Paired(C) /\ \A b \in Board : ToSet(F[b]) \subseteq ToSet(FlowPart)
  <2> HIDE DEF C, F
  <2>1. QED
    BY <1>4, <1>5, Tables, LoopPaired DEF Board
<1>7. ASSUME NEW e \in End PROVE EndCall(e) \subseteq ToSet(FlowPart)
  <2>1. PICK b \in Board, d \in Direction, x \in {"gen", "rec"} : e = <<b, d, x>>
    BY DEF End, Direction
  <2>2. EndCall(e) \subseteq ends(b, d)
    BY <2>1
  <2> HIDE DEF ends, F
  <2>3. QED
    BY <2>1, <2>2, <1>3, <1>6 DEF Direction
<1>8. ASSUME NEW b \in Board, NEW d \in Direction PROVE FlowPart \in Ordered(<<b, d>>)
  <2> DEFINE f == <<b, d>>
             S == Ordered(f)
             T == Others(f)
  <2>1. f[1] = b /\ f[2] = d
    OBVIOUS
  <2>2. T = Seq(AnyCall \ ends(b, d))
    BY <2>1 DEF Others
  <2>3. ASSUME NEW a \in Board, NEW x \in Direction, <<a, x>> # <<b, d>>
        PROVE  Flow(a, x) \in T
    <3>1. Flow(a, x) \in Seq(ends(a, x))
      BY FlowPaired DEF Paired
    <3>2. \A c \in ends(a, x) : c \in AnyCall /\ c \notin ends(b, d)
      <4> SUFFICES ASSUME NEW c \in ends(a, x), c \in ends(b, d) PROVE FALSE
        BY <1>1, <1>2
      <4>1. EndOf(c) \in {<<a, x, "rec">>, <<a, x, "gen">>} /\ EndOf(c) \in {<<b, d, "rec">>, <<b, d, "gen">>}
        <5>1. c \in EndCall(<<a, x, "rec">>) \/ c \in EndCall(<<a, x, "gen">>)
          OBVIOUS
        <5>2. c \in EndCall(<<b, d, "rec">>) \/ c \in EndCall(<<b, d, "gen">>)
          OBVIOUS
        <5> HIDE DEF ends
        <5>3. QED
          BY <5>1, <5>2, CallServes
      <4> HIDE DEF ends
      <4>2. QED
        BY <4>1, <2>3
    <3> HIDE DEF ends
    <3>3. QED
      BY <2>2, <3>1, <3>2
  <2>4. Flow(b, d) \in S
    BY FlowPaired
  <2> HIDE DEF f, S, T, ends
  <2>5. /\ \A u \in T, v \in T : u \o v \in T
        /\ \A u \in T, v \in S : u \o v \in S /\ v \o u \in S
    BY OrderedAppend DEF S, T
  <2>6. F[b] \in S
    <3>1. CASE d = "down"
      <4>1. Flow(b, "up") \in T
        BY <2>3, <3>1 DEF Direction
      <4>2. QED
        BY <2>4, <2>5, <3>1, <4>1
    <3>2. CASE d = "up"
      <4>1. Flow(b, "down") \in T
        BY <2>3, <3>2 DEF Direction
      <4>2. QED
        BY <2>4, <2>5, <3>2, <4>1
    <3>3. QED
      BY <3>1, <3>2 DEF Direction
  <2>7. ASSUME NEW a \in Board, a # b PROVE F[a] \in T
    <3>1. Flow(a, "down") \in T /\ Flow(a, "up") \in T
      BY <2>3, <2>7 DEF Direction
    <3>2. QED
      BY <2>5, <3>1
  <2>8. PICK j \in DOMAIN BOARDS : BOARDS[j] = b
    BY DEF Board, ToSet
  <2>9. /\ BOARDS \in Seq(Board)
        /\ \A i \in DOMAIN BOARDS : BOARDS[i] \in Board /\ (i # j => BOARDS[i] # b)
    BY <2>8, TableAssumption DEF TableAssumption, IsInjective, Board, ToSet
  <2>10. /\ DOMAIN ss = DOMAIN BOARDS /\ \A i \in DOMAIN BOARDS : ss[i] = F[BOARDS[i]]
    OBVIOUS
  <2> HIDE DEF F
  <2>11. ss \in Seq(S \cup T)
    <3>1. \A i \in DOMAIN BOARDS : ss[i] \in S \cup T
      BY <2>6, <2>7, <2>9, <2>10
    <3>2. DOMAIN BOARDS = 1..Len(BOARDS) /\ Len(BOARDS) \in Nat
      BY <2>9
    <3>3. ss \in [1..Len(BOARDS) -> S \cup T]
      BY <3>1, <3>2
    <3>4. QED
      BY <3>2, <3>3
  <2>12. FlowPart = FlattenSeq(ss)
    BY <1>4 DEF Loop
  <2> HIDE DEF ss
  <2>13. ss[j] \in S /\ \A i \in DOMAIN ss : i # j => ss[i] \in T
    BY <2>6, <2>7, <2>8, <2>9, <2>10
  <2>14. FlattenSeq(ss) \in S
    BY <2>5, <2>8, <2>10, <2>11, <2>13, FlattenOne
  <2>15. QED
    BY <2>12, <2>14 DEF S, f
<1>9. \A f \in Board \X Direction : FlowPart \in Ordered(f)
  BY <1>8
<1>10. QED
  BY <1>6, <1>7, <1>9

-----------------------------------------------------------------------------
(* main. *)

\* The ring and the edge ports get every call that is for a port.
LEMMA PortsServed ==
  ASSUME NEW c \in PortCall \cup VlanCall
  PROVE  c \in ToSet(RingPart) \cup ToSet(EdgePart)
<1> DEFINE done == ToSet(RingPart) \cup ToSet(EdgePart)
<1>1. \A sw \in ToSet(SWITCHES), p \in Ports :
        {Call("vcl_cfg.get", sw, p, {}), Call("vcl_cfg.set", sw, p, {}),
         Call("vlan.get", sw, p, {}), Call("vlan.set", sw, p, RingChange)} \subseteq done
  BY RingPaired
<1>2. {Call("vcl_cfg.get", "switch1", PC_PORT_SW1, {}), Call("vcl_cfg.set", "switch1", PC_PORT_SW1, {}),
       Call("vlan.get", "switch1", PC_PORT_SW1, {}),
       Call("vlan.set", "switch1", PC_PORT_SW1, PcChange)} \subseteq done
  BY EdgePaired
<1>3. \A b \in Board :
       {Call("vcl_cfg.get", "switch2", Port[b], {}), Call("vcl_cfg.set", "switch2", Port[b], {}),
        Call("vlan.get", "switch2", Port[b], {}),
        Call("vlan.set", "switch2", Port[b], BoardChange(b))} \subseteq done
  BY EdgePaired
<1> HIDE DEF done
<1>4. ASSUME NEW sw, NEW p, <<sw, p>> \in Slot
      PROVE  {Call("vcl_cfg.get", sw, p, {}), Call("vcl_cfg.set", sw, p, {}),
              Call("vlan.get", sw, p, {})} \subseteq done
  <2>1. CASE <<sw, p>> \in RingSlot
    <3>1. sw \in ToSet(SWITCHES) /\ p \in Ports
      BY <2>1, Tables
    <3>2. QED
      BY <3>1, <1>1
  <2>2. CASE <<sw, p>> \in BoardSlot
    <3>1. PICK b \in Board : <<sw, p>> = <<"switch2", Port[b]>>
      BY <2>2 DEF BoardSlot
    <3>2. sw = "switch2" /\ p = Port[b]
      BY <3>1
    <3>3. QED
      BY <3>2, <1>3
  <2>3. CASE <<sw, p>> = <<"switch1", PC_PORT_SW1>>
    <3>1. sw = "switch1" /\ p = PC_PORT_SW1
      BY <2>3
    <3>2. QED
      BY <3>1, <1>2
  <2>4. QED
    BY <1>4, <2>1, <2>2, <2>3 DEF Slot
<1>5. CASE c \in PortCall
  <2>1. PICK m \in {"vcl_cfg.get", "vcl_cfg.set", "vlan.get"}, x \in Slot : c = Call(m, x[1], x[2], {})
    BY <1>5 DEF PortCall
  <2>2. x = <<x[1], x[2]>>
    <3>1. x \in RingSlot => x = <<x[1], x[2]>>
      BY DEF RingSlot
    <3>2. \A b \in Board : x = <<"switch2", Port[b]>> => x = <<x[1], x[2]>>
      OBVIOUS
    <3>3. x = <<"switch1", PC_PORT_SW1>> => x = <<x[1], x[2]>>
      OBVIOUS
    <3>4. QED
      BY <3>1, <3>2, <3>3 DEF Slot, BoardSlot
  <2>3. <<x[1], x[2]>> \in Slot
    BY <2>2
  <2>4. QED
    BY <2>1, <2>3, <1>4 DEF done
<1>6. CASE c \in VlanCall
  <2>1. CASE c \in {Call("vlan.set", x[1], x[2], RingChange) : x \in RingSlot}
    <3>1. PICK x \in RingSlot : c = Call("vlan.set", x[1], x[2], RingChange)
      BY <2>1
    <3>2. x[1] \in ToSet(SWITCHES) /\ x[2] \in Ports
      BY Tables
    <3>3. QED
      BY <3>1, <3>2, <1>1 DEF done
  <2>2. CASE c = Call("vlan.set", "switch1", PC_PORT_SW1, PcChange)
    BY <2>2, <1>2 DEF done
  <2>3. CASE \E b \in Board : c = Call("vlan.set", "switch2", Port[b], BoardChange(b))
    BY <2>3, <1>3 DEF done
  <2>4. QED
    BY <1>6, <2>1, <2>2, <2>3 DEF VlanCall
<1>7. QED
  BY <1>5, <1>6

\* A sequence over a set is one over any that contains it.
LEMMA SeqWithin ==
  ASSUME NEW A, NEW B, A \subseteq B
  PROVE  Seq(A) \subseteq Seq(B)
<1> SUFFICES ASSUME NEW q \in Seq(A) PROVE q \in Seq(B)
  OBVIOUS
<1>1. Len(q) \in Nat /\ q \in [1..Len(q) -> B]
  OBVIOUS
<1>2. QED
  BY <1>1

\* main makes every call there is, each set after its get, each attach after its detach, the
\* ports first, and of each flow the recovery end before the generation end.
THEOREM MainCalls ==
  /\ main \in Paired(AnyCall) /\ N \in Nat
  /\ ToSet(main) = AnyCall
  /\ \A n \in 1..N : main[n].method \in FlowMethod =>
       \A c \in PortCall \cup VlanCall : \E k \in 1..N : k < n /\ main[k] = c
  /\ \A f \in Board \X Direction : main \in Ordered(f)
<1> DEFINE FlowCall == UNION {EndCall(e) : e \in End}
           ports == RingPart \o EdgePart
           head == ports \o VlanPart
           body == head \o FlowPart
<1>1. PartCall \subseteq AnyCall /\ FlowCall \subseteq AnyCall /\ AnyCall = PartCall \cup FlowCall
  BY DEF AnyCall
<1>2. main = body \o DeliveryPart
  BY DEF main
<1> HIDE DEF FlowCall
<1>3. ports \in Paired(PartCall) /\ ToSet(ports) = ToSet(RingPart) \cup ToSet(EdgePart)
  BY RingPaired, EdgePaired, PairedAppend
<1>4. head \in Paired(PartCall) /\ ToSet(head) = ToSet(ports) \cup ToSet(VlanPart)
  <2> HIDE DEF ports
  <2>1. QED
    BY <1>3, VlanPaired, PairedAppend
<1>5. /\ head \in Paired(AnyCall) /\ FlowPart \in Paired(AnyCall) /\ DeliveryPart \in Paired(AnyCall)
  <2>1. FlowPart \in Paired(FlowCall)
    BY FlowsPaired DEF FlowCall
  <2> HIDE DEF head
  <2>2. QED
    BY <1>1, <1>4, <2>1, DeliveryPaired, PairedGrows
<1> HIDE DEF ports, head, body
<1>6. body \in Paired(AnyCall) /\ ToSet(body) = ToSet(head) \cup ToSet(FlowPart)
  BY <1>5, PairedAppend DEF body
<1>7. main \in Paired(AnyCall) /\ ToSet(main) = ToSet(body) \cup ToSet(DeliveryPart)
  BY <1>2, <1>5, <1>6, PairedAppend
<1>8. main \in Seq(AnyCall) /\ N \in Nat /\ DOMAIN main = 1..N
  BY <1>7 DEF Paired, N
<1>9. ToSet(main) = AnyCall
  <2>1. ToSet(main) \subseteq AnyCall
    BY <1>8 DEF ToSet
  <2>2. PortCall \cup VlanCall \subseteq ToSet(main)
    BY PortsServed, <1>3, <1>4, <1>6, <1>7
  <2>3. ASSUME NEW c \in StpCall PROVE c \in ToSet(main)
    <3>1. PICK m \in {"cist.get", "cist.set"}, x \in RingSlot : c = Call(m, x[1], x[2], {})
      BY DEF StpCall
    <3>2. x[1] \in ToSet(SWITCHES) /\ x[2] \in Ports
      BY Tables
    <3>3. c \in ToSet(RingPart)
      BY <3>1, <3>2, RingPaired
    <3>4. QED
      BY <3>3, <1>3, <1>4, <1>6, <1>7
  <2>4. ASSUME NEW c \in FloodCall PROVE c \in ToSet(main)
    <3>1. PICK m \in {"flooding.set", "learn.set"}, sw \in ToSet(SWITCHES), v \in ALL_VLANS : c = Call(m, sw, v, {})
      BY DEF FloodCall
    <3>2. c \in ToSet(VlanPart)
      BY <3>1, VlanPaired
    <3>3. QED
      BY <3>2, <1>4, <1>6, <1>7
  <2>5. ASSUME NEW c \in FdbCall PROVE c \in ToSet(main)
    <3>1. c \in ToSet(DeliveryPart)
      BY DeliveryPaired DEF FdbCall
    <3>2. QED
      BY <3>1, <1>7
  <2>6. FlowCall \subseteq ToSet(main)
    <3>1. FlowCall \subseteq ToSet(FlowPart)
      BY FlowsPaired DEF FlowCall
    <3>2. QED
      BY <3>1, <1>6, <1>7
  <2>7. QED
    BY <1>1, <2>1, <2>2, <2>3, <2>4, <2>5, <2>6 DEF PartCall
<1>10. ASSUME NEW n \in 1..N, main[n].method \in FlowMethod, NEW c \in PortCall \cup VlanCall
       PROVE  \E k \in 1..N : k < n /\ main[k] = c
  <2> DEFINE P == Len(ports)
  <2>1. /\ ports \in Seq(PartCall) /\ VlanPart \in Seq(PartCall) /\ FlowPart \in Seq(AnyCall)
        /\ DeliveryPart \in Seq(AnyCall) /\ head \in Seq(AnyCall) /\ body \in Seq(AnyCall)
    BY <1>3, <1>5, <1>6, VlanPaired DEF Paired
  <2>2. PICK k \in DOMAIN ports : ports[k] = c
    <3>1. c \in ToSet(ports)
      BY PortsServed, <1>3
    <3>2. QED
      BY <3>1 DEF ToSet
  <2>3. /\ Len(head) = P + Len(VlanPart) /\ Len(body) = Len(head) + Len(FlowPart)
        /\ N = Len(body) + Len(DeliveryPart)
        /\ P \in Nat /\ Len(VlanPart) \in Nat /\ Len(FlowPart) \in Nat /\ Len(DeliveryPart) \in Nat
    BY <2>1, <1>2 DEF head, body, N
  <2>4. \A i \in 1..P : i \in 1..N /\ main[i] = ports[i]
    <3> SUFFICES ASSUME NEW i \in 1..P PROVE i \in 1..N /\ main[i] = ports[i]
      OBVIOUS
    <3>1. i \in 1..Len(head) /\ i \in 1..Len(body) /\ i \in 1..N
      BY <2>3
    <3>2. head[i] = ports[i]
      BY <2>1, <3>1 DEF head
    <3>3. body[i] = head[i]
      BY <2>1, <3>1 DEF body
    <3>4. main[i] = body[i]
      BY <2>1, <3>1, <1>2
    <3>5. QED
      BY <3>1, <3>2, <3>3, <3>4
  <2>5. k \in 1..P
    BY <2>1, <2>2
  <2>6. n > P
    <3>1. ASSUME n <= P PROVE FALSE
      <4>1. n \in 1..P /\ main[n] = ports[n]
        BY <2>3, <2>4, <3>1
      <4>2. ports[n] \in PartCall
        BY <2>1, <4>1
      <4>3. QED
        BY <1>10, <4>1, <4>2, CallServes
    <3> HIDE DEF P
    <3>2. QED
      BY <3>1, <2>3
  <2> HIDE DEF P
  <2>7. QED
    BY <2>2, <2>3, <2>4, <2>5, <2>6
<1>11. ASSUME NEW f \in Board \X Direction PROVE main \in Ordered(f)
  <2> DEFINE e(x) == <<f[1], f[2], x>>
  <2>1. Seq(PartCall) \subseteq Others(f)
    <3>1. PartCall \subseteq AnyCall \ (EndCall(e("rec")) \cup EndCall(e("gen")))
      BY <1>1, CallServes
    <3>2. PICK rest : rest = AnyCall \ (EndCall(e("rec")) \cup EndCall(e("gen")))
      OBVIOUS
    <3>3. Others(f) = Seq(rest)
      BY <3>2 DEF Others
    <3>4. PartCall \subseteq rest
      BY <3>1, <3>2
    <3>5. QED
      BY <3>3, <3>4, SeqWithin
  <2>2. head \in Others(f) /\ DeliveryPart \in Others(f)
    BY <1>4, <2>1, DeliveryPaired DEF Paired
  <2>3. body \in Ordered(f)
    BY <2>2, FlowsPaired, OrderedAppend DEF body
  <2>4. QED
    BY <2>2, <2>3, <1>2, OrderedAppend
<1>12. QED
  BY <1>7, <1>8, <1>9, <1>10, <1>11

\* What a call is about.
CallFits(c) ==
  /\ c.method \in {"vcl_cfg.get", "vcl_cfg.set", "vlan.get", "vlan.set", "attach", "detach"}
       => <<c.sw, c.on>> \in Slot
  /\ c.method = "vlan.set" =>
       /\ c \in VlanCall
       /\ c.arg.add \subseteq {1} \cup ALL_VLANS
       /\ c.arg.tagging \in {"tagAll", "untagAll"} /\ c.arg.native \in {0, 1}
  /\ c.method \in {"cist.get", "cist.set"} => <<c.sw, c.on>> \in RingSlot
  /\ c.method \in {"flooding.set", "learn.set"} => <<c.sw, c.on>> \in ToSet(SWITCHES) \X ALL_VLANS
  /\ c.method \in EndMethod => c.on \in End
  /\ c.method \in {"attach", "detach"} =>
       c.arg \in End /\ c.sw = EndSwitch(c.arg) /\ c.on \in ToSet(EndPorts(c.arg))
  /\ c.method = "fdb.add" => c.on \in Board /\ c.arg \in Direction

\* The ports of an end are slots of its switch.
LEMMA EndSlots ==
  ASSUME NEW e \in End, NEW p \in ToSet(EndPorts(e))
  PROVE  <<EndSwitch(e), p>> \in Slot
<1>1. PICK b \in Board, d \in Direction, x \in {"gen", "rec"} : e = <<b, d, x>>
  BY DEF End, Direction
<1>2. e[1] = b /\ e[2] = d /\ e[3] = x
  BY <1>1
<1>3. \A y : ToSet(<<y>>) = {y}
  <2> SUFFICES ASSUME NEW y PROVE ToSet(<<y>>) = {y}
    OBVIOUS
  <2>1. DOMAIN <<y>> = {1} /\ <<y>>[1] = y
    OBVIOUS
  <2>2. QED
    BY <2>1 DEF ToSet
<1>4. CASE x = "rec"
  <2>1. EndPorts(e) = RING_PORTS
    BY <1>2, <1>4 DEF EndPorts
  <2>2. EndSwitch(e) \in ToSet(SWITCHES) /\ p \in Ports
    BY <2>1, Tables DEF EndSwitch, Ports
  <2>3. QED
    BY <2>2, Tables DEF Slot
<1>5. CASE x = "gen" /\ d = "down"
  <2>1. EndPorts(e) = <<PC_PORT_SW1>> /\ EndSwitch(e) = "switch1"
    BY <1>2, <1>5 DEF EndPorts, EndSwitch
  <2>2. QED
    BY <2>1, <1>3 DEF Slot
<1>6. CASE x = "gen" /\ d = "up"
  <2>1. EndPorts(e) = <<Port[b]>> /\ EndSwitch(e) = "switch2"
    BY <1>2, <1>6 DEF EndPorts, EndSwitch
  <2>2. p = Port[b]
    BY <2>1, <1>3
  <2>3. QED
    BY <2>1, <2>2 DEF Slot, BoardSlot
<1>7. QED
  BY <1>4, <1>5, <1>6 DEF Direction

\* Every call of main is about slots, ends and VLANs there are.
LEMMA CallsFit ==
  ASSUME NEW c \in AnyCall
  PROVE  CallFits(c)
<1>1. CASE c \in PortCall
  <2>1. PICK m \in {"vcl_cfg.get", "vcl_cfg.set", "vlan.get"}, x \in Slot : c = Call(m, x[1], x[2], {})
    BY <1>1 DEF PortCall
  <2>2. x = <<x[1], x[2]>>
    <3>1. x \in RingSlot => x = <<x[1], x[2]>>
      BY DEF RingSlot
    <3>2. \A b \in Board : x = <<"switch2", Port[b]>> => x = <<x[1], x[2]>>
      OBVIOUS
    <3>3. x = <<"switch1", PC_PORT_SW1>> => x = <<x[1], x[2]>>
      OBVIOUS
    <3>4. QED
      BY <3>1, <3>2, <3>3 DEF Slot, BoardSlot
  <2>3. c.method = m /\ c.sw = x[1] /\ c.on = x[2]
    BY <2>1 DEF Call
  <2>4. <<c.sw, c.on>> \in Slot
    BY <2>2, <2>3
  <2>5. QED
    BY <2>3, <2>4 DEF CallFits, EndMethod
<1>2. CASE c \in VlanCall
  <2>1. CASE c \in {Call("vlan.set", x[1], x[2], RingChange) : x \in RingSlot}
    <3>1. PICK x \in RingSlot : c = Call("vlan.set", x[1], x[2], RingChange)
      BY <2>1
    <3>2. c.method = "vlan.set" /\ c.sw = x[1] /\ c.on = x[2] /\ c.arg = RingChange
      BY <3>1 DEF Call
    <3>3. <<c.sw, c.on>> \in Slot
      BY <3>2 DEF Slot, RingSlot
    <3>4. QED
      BY <1>2, <3>2, <3>3 DEF CallFits, EndMethod, RingChange, VlanChange
  <2>2. CASE c = Call("vlan.set", "switch1", PC_PORT_SW1, PcChange)
    <3>1. c.method = "vlan.set" /\ c.sw = "switch1" /\ c.on = PC_PORT_SW1 /\ c.arg = PcChange
      BY <2>2 DEF Call
    <3>2. <<c.sw, c.on>> \in Slot
      BY <3>1 DEF Slot
    <3>3. QED
      BY <1>2, <3>1, <3>2 DEF CallFits, EndMethod, PcChange, VlanChange
  <2>3. CASE \E b \in Board : c = Call("vlan.set", "switch2", Port[b], BoardChange(b))
    <3>1. PICK b \in Board : c = Call("vlan.set", "switch2", Port[b], BoardChange(b))
      BY <2>3
    <3>2. c.method = "vlan.set" /\ c.sw = "switch2" /\ c.on = Port[b] /\ c.arg = BoardChange(b)
      BY <3>1 DEF Call
    <3>3. <<c.sw, c.on>> \in Slot
      BY <3>2 DEF Slot, BoardSlot
    <3>4. QED
      BY <1>2, <3>2, <3>3 DEF CallFits, EndMethod, BoardChange, VlanChange, ALL_VLANS
  <2>4. QED
    BY <1>2, <2>1, <2>2, <2>3 DEF VlanCall
<1>3. CASE c \in StpCall
  <2>1. PICK m \in {"cist.get", "cist.set"}, x \in RingSlot : c = Call(m, x[1], x[2], {})
    BY <1>3 DEF StpCall
  <2>2. c.method = m /\ c.sw = x[1] /\ c.on = x[2]
    BY <2>1 DEF Call
  <2>3. <<c.sw, c.on>> \in RingSlot
    BY <2>2 DEF RingSlot
  <2>4. QED
    BY <2>2, <2>3 DEF CallFits, EndMethod
<1>4. CASE c \in FloodCall
  <2>1. PICK m \in {"flooding.set", "learn.set"}, sw \in ToSet(SWITCHES), v \in ALL_VLANS : c = Call(m, sw, v, {})
    BY <1>4 DEF FloodCall
  <2>2. c.method = m /\ c.sw = sw /\ c.on = v
    BY <2>1 DEF Call
  <2>3. QED
    BY <2>2 DEF CallFits, EndMethod
<1>5. CASE c \in FdbCall
  <2>1. c.method = "fdb.add" /\ c.on \in Board /\ c.arg \in Direction
    BY <1>5 DEF FdbCall, Call, Direction
  <2>2. QED
    BY <2>1 DEF CallFits, EndMethod
<1>6. ASSUME NEW e \in End, c \in EndCall(e) PROVE CallFits(c)
  <2>1. CASE c \in {Call(m, EndSwitch(e), e, {}) : m \in EndMethod}
    <3>1. c.method \in EndMethod /\ c.on = e
      BY <2>1 DEF Call
    <3>2. QED
      BY <3>1 DEF CallFits, EndMethod
  <2>2. CASE c \in {Call(m, EndSwitch(e), p, e) : m \in {"detach", "attach"}, p \in ToSet(EndPorts(e))}
    <3>1. PICK m \in {"detach", "attach"}, p \in ToSet(EndPorts(e)) : c = Call(m, EndSwitch(e), p, e)
      BY <2>2
    <3>2. c.method = m /\ c.sw = EndSwitch(e) /\ c.on = p /\ c.arg = e
      BY <3>1 DEF Call
    <3>3. <<c.sw, c.on>> \in Slot
      BY <3>2, EndSlots
    <3>4. QED
      BY <3>2, <3>3 DEF CallFits, EndMethod
  <2>3. QED
    BY <1>6, <2>1, <2>2 DEF EndCall
<1>7. QED
  BY <1>1, <1>2, <1>3, <1>4, <1>5, <1>6 DEF AnyCall, PartCall

\* Each port gets one kind of VLAN membership.
LEMMA OneChange ==
  ASSUME NEW c \in VlanCall, NEW d \in VlanCall, c.sw = d.sw, c.on = d.on
  PROVE  c.arg = d.arg
<1> DEFINE Kind(y) ==
      \/ y.arg = RingChange /\ y.on \in Ports
      \/ y.arg = PcChange /\ y.sw = "switch1" /\ y.on = PC_PORT_SW1
      \/ \E b \in Board : y.arg = BoardChange(b) /\ y.sw = "switch2" /\ y.on = Port[b]
<1>1. ASSUME NEW y \in VlanCall PROVE Kind(y)
  <2>1. CASE y \in {Call("vlan.set", x[1], x[2], RingChange) : x \in RingSlot}
    <3>1. PICK x \in RingSlot : y = Call("vlan.set", x[1], x[2], RingChange)
      BY <2>1
    <3>2. x[2] \in Ports
      BY Tables
    <3>3. y.on = x[2] /\ y.arg = RingChange
      BY <3>1 DEF Call
    <3>4. QED
      BY <3>2, <3>3
  <2>2. CASE y = Call("vlan.set", "switch1", PC_PORT_SW1, PcChange)
    <3>1. y.sw = "switch1" /\ y.on = PC_PORT_SW1 /\ y.arg = PcChange
      BY <2>2 DEF Call
    <3>2. QED
      BY <3>1
  <2>3. ASSUME NEW b \in Board, y = Call("vlan.set", "switch2", Port[b], BoardChange(b)) PROVE Kind(y)
    <3>1. y.sw = "switch2" /\ y.on = Port[b] /\ y.arg = BoardChange(b)
      BY <2>3 DEF Call
    <3>2. QED
      BY <3>1
  <2>4. QED
    BY <2>1, <2>2, <2>3 DEF VlanCall
<1>2. Kind(c) /\ Kind(d)
  BY <1>1
<1>3. PC_PORT_SW1 \notin Ports /\ \A b \in Board : Port[b] \notin Ports
  BY Tables, TableAssumption DEF TableAssumption, PC_PORT_SW1, Ports
<1>4. \A a \in Board, b \in Board : Port[a] = Port[b] => a = b
  BY TableAssumption DEF TableAssumption, IsInjective
<1>5. QED
  BY <1>2, <1>3, <1>4

-----------------------------------------------------------------------------
(* What a call does. *)

\* A call that acts on the configuration keeps its types.
LEMMA EffectTypes ==
  ASSUME ConfTypes, NEW c \in AnyCall, NEW got, ReadFits(c, got), conf' = Effect(c, conf, got)
  PROVE  ConfTypes'
<1> DEFINE at == <<c.sw, c.on>>
<1>1. CallFits(c)
  BY CallsFit
<1>2. conf'.matching \in [Slot -> {"default", "dmac_dip"}]
  <2>1. conf'.matching = IF c.method = "vcl_cfg.set" /\ got # {"dmac_dip"}
                         THEN [conf.matching EXCEPT ![at] = "dmac_dip"] ELSE conf.matching
    BY DEF Effect
  <2>2. QED
    BY <2>1, <1>1 DEF ConfTypes, CallFits
<1>3. conf'.vlan \in [Slot -> PortVlan]
  <2>1. conf'.vlan = IF c.method = "vlan.set"
                     THEN [conf.vlan EXCEPT ![at] = Merged(CHOOSE old \in got : TRUE, c.arg)]
                     ELSE conf.vlan
    BY DEF Effect
  <2>2. CASE c.method = "vlan.set"
    <3>1. PICK old \in PortVlan : got = {old}
      BY <2>2 DEF ReadFits
    <3>2. (CHOOSE o \in got : TRUE) = old
      BY <3>1
    <3>3. Merged(old, c.arg) \in PortVlan
      <4>1. old.vlans \subseteq {1} \cup ALL_VLANS /\ old.native = 1
        BY DEF PortVlan
      <4>2. c.arg.add \cup (IF c.arg.keep THEN old.vlans ELSE {}) \in SUBSET ({1} \cup ALL_VLANS)
        BY <4>1, <1>1, <2>2 DEF CallFits
      <4>3. c.arg.tagging \in {"untagThis", "tagAll", "untagAll"}
        BY <1>1, <2>2 DEF CallFits
      <4>4. (IF c.arg.native = 0 THEN old.native ELSE c.arg.native) \in {1}
        BY <4>1, <1>1, <2>2 DEF CallFits
      <4>5. QED
        BY <4>2, <4>3, <4>4 DEF Merged, PortVlan
    <3>4. conf'.vlan = [conf.vlan EXCEPT ![at] = Merged(old, c.arg)]
      BY <2>1, <2>2, <3>2
    <3> HIDE DEF at
    <3>5. \A x : \A M \in PortVlan, f \in [Slot -> PortVlan] :
            [f EXCEPT ![x] = M] \in [Slot -> PortVlan]
      OBVIOUS
    <3>6. conf.vlan \in [Slot -> PortVlan]
      BY DEF ConfTypes
    <3>7. QED
      BY <3>3, <3>4, <3>5, <3>6
  <2>3. CASE c.method # "vlan.set"
    BY <2>1, <2>3 DEF ConfTypes
  <2>4. QED
    BY <2>2, <2>3
<1>4. conf'.stp \in [RingSlot -> BOOLEAN]
  <2>1. conf'.stp = IF c.method = "cist.set" /\ got # {FALSE}
                    THEN [conf.stp EXCEPT ![at] = FALSE] ELSE conf.stp
    BY DEF Effect
  <2> HIDE DEF at
  <2>2. [conf.stp EXCEPT ![at] = FALSE] \in [RingSlot -> BOOLEAN] /\ conf.stp \in [RingSlot -> BOOLEAN]
    <3>1. \A x : \A f \in [RingSlot -> BOOLEAN] : [f EXCEPT ![x] = FALSE] \in [RingSlot -> BOOLEAN]
      OBVIOUS
    <3>2. conf.stp \in [RingSlot -> BOOLEAN]
      BY DEF ConfTypes
    <3>3. QED
      BY <3>1, <3>2
  <2>3. QED
    BY <2>1, <2>2, Zenon
<1>5. /\ conf'.flooding \subseteq ToSet(SWITCHES) \X ALL_VLANS
      /\ conf'.unlearned \subseteq ToSet(SWITCHES) \X ALL_VLANS
  <2>1. /\ conf'.flooding = IF c.method = "flooding.set" THEN conf.flooding \cup {at} ELSE conf.flooding
        /\ conf'.unlearned = IF c.method = "learn.set" THEN conf.unlearned \cup {at} ELSE conf.unlearned
    BY DEF Effect
  <2>2. c.method \in {"flooding.set", "learn.set"} => at \in ToSet(SWITCHES) \X ALL_VLANS
    BY <1>1 DEF CallFits
  <2> HIDE DEF at
  <2>3. QED
    BY <2>1, <2>2 DEF ConfTypes
<1>6. conf'.streams \subseteq End /\ conf'.instances \subseteq End
  <2>1. /\ conf'.streams = IF c.method \in {"stream.add", "stream.set"}
                           THEN conf.streams \cup {c.on} ELSE conf.streams
        /\ conf'.instances = IF c.method \in {"frer.add", "frer.set"}
                             THEN conf.instances \cup {c.on} ELSE conf.instances
    BY DEF Effect
  <2>2. QED
    BY <2>1, <1>1 DEF ConfTypes, CallFits, EndMethod
<1>7. conf'.fdb \subseteq {Delivery(b, d) : b \in Board, d \in Direction}
  <2>1. conf'.fdb = IF c.method = "fdb.add"
                    THEN conf.fdb \cup {Delivery(c.on, c.arg)} ELSE conf.fdb
    BY DEF Effect
  <2>2. QED
    BY <2>1, <1>1 DEF ConfTypes, CallFits
<1>8. QED
  BY <1>2, <1>3, <1>4, <1>5, <1>6, <1>7 DEF ConfTypes

\* An attach between its detach and the end of the run meets the corrected key.
KeyFits(c) ==
  c.method = "attach" => conf.matching[<<c.sw, c.on>>] = "dmac_dip" /\ KeyGone(c)

\* A call has its effect, or none, or the switch answers it with an error that is swallowed.
Made(c, got) == conf' = Effect(c, conf, got) /\ refused' = refused \cap conf'.attached
Lost         == conf' = conf /\ refused' = refused \cap conf'.attached
Denied(c)    == /\ c.method \in {"stream.add", "detach", "frer.add"}
                /\ conf' = conf
                /\ refused' = (IF c.method = "detach" THEN refused \cup {OldKey(c)}
                                                     ELSE refused) \cap conf.attached

\* A call meets its purpose.
LEMMA EffectMeets ==
  ASSUME ConfTypes, NEW c \in AnyCall, NEW got, ReadFits(c, got), KeyFits(c),
         Made(c, got)
  PROVE  Met(c)'
<1> DEFINE at == <<c.sw, c.on>>
<1>1. CallFits(c) /\ conf' = Effect(c, conf, got) /\ refused' = refused \cap conf'.attached
  BY CallsFit DEF Made
<1>2. ASSUME c.method = "vcl_cfg.set" PROVE conf'.matching[at] = "dmac_dip"
  <2>1. conf'.matching = IF got # {"dmac_dip"}
                         THEN [conf.matching EXCEPT ![at] = "dmac_dip"] ELSE conf.matching
    BY <1>2, <1>1 DEF Effect
  <2>2. at \in Slot
    BY <1>1, <1>2 DEF CallFits
  <2>3. got = {"dmac_dip"} => conf.matching[at] = "dmac_dip"
    <3>1. {"default"} # {"dmac_dip"}
      OBVIOUS
    <3>2. QED
      BY <1>2, <3>1 DEF ReadFits, Met
  <2> HIDE DEF at
  <2>4. QED
    BY <2>1, <2>2, <2>3 DEF ConfTypes
<1>3. ASSUME c.method = "vlan.set"
      PROVE  c.arg.add \subseteq conf'.vlan[at].vlans /\ conf'.vlan[at].tagging = c.arg.tagging
  <2>1. conf'.vlan = [conf.vlan EXCEPT ![at] = Merged(CHOOSE old \in got : TRUE, c.arg)]
    BY <1>3, <1>1 DEF Effect
  <2>2. at \in Slot
    BY <1>1, <1>3 DEF CallFits
  <2>3. conf'.vlan[at] = Merged(CHOOSE old \in got : TRUE, c.arg)
    BY <2>1, <2>2 DEF ConfTypes
  <2>4. QED
    BY <2>3 DEF Merged
<1>4. ASSUME c.method = "cist.set" PROVE conf'.stp[at] = FALSE
  <2>1. conf'.stp = IF got # {FALSE} THEN [conf.stp EXCEPT ![at] = FALSE] ELSE conf.stp
    BY <1>4, <1>1 DEF Effect
  <2>2. at \in RingSlot
    BY <1>1, <1>4 DEF CallFits
  <2>3. got = {FALSE} => conf.stp[at] = FALSE
    <3>1. {TRUE} # {FALSE}
      OBVIOUS
    <3>2. QED
      BY <1>4, <3>1 DEF ReadFits, Met
  <2> HIDE DEF at
  <2>4. [conf.stp EXCEPT ![at] = FALSE][at] = FALSE
    BY <2>2 DEF ConfTypes
  <2>5. QED
    BY <2>1, <2>3, <2>4, Zenon
<1>5. /\ c.method = "flooding.set" => at \in conf'.flooding
      /\ c.method = "learn.set"    => at \in conf'.unlearned
      /\ c.method = "stream.set"   => c.on \in conf'.streams
      /\ c.method = "frer.set"     => c.on \in conf'.instances
      /\ c.method = "fdb.add"      => Delivery(c.on, c.arg) \in conf'.fdb
  BY <1>1 DEF Effect
<1>6. ASSUME c.method = "attach" PROVE (Keyed(c) \/ OldKey(c) \in refused)'
  <2>1. conf'.attached = Attached(conf, c.sw, c.on, c.arg)
    BY <1>6, <1>1 DEF Effect
  <2>2. CASE OldKey(c) \in conf.attached
    <3>1. OldKey(c) \in refused
      BY <1>6, <2>2 DEF KeyFits, KeyGone
    <3>2. conf'.attached = conf.attached
      BY <2>1, <2>2 DEF Attached, OldKey
    <3>3. QED
      BY <1>1, <2>2, <3>1, <3>2
  <2>3. CASE OldKey(c) \notin conf.attached
    BY <2>1, <2>3, <1>6 DEF Attached, KeyFits, OldKey, Keyed
  <2>4. QED
    BY <2>2, <2>3
<1>7. QED
  BY <1>2, <1>3, <1>4, <1>5, <1>6 DEF Met

\* It leaves the purpose of every other met, but for a detach that of its attach.
LEMMA EffectKeeps ==
  ASSUME ConfTypes, NEW c \in AnyCall, NEW got, ReadFits(c, got), Made(c, got),
         refused \subseteq conf.attached, NEW d \in AnyCall, Met(d), ~(c.method = "detach" /\ Opens(c, d))
  PROVE  Met(d)'
<1> DEFINE at == <<c.sw, c.on>>
           to == <<d.sw, d.on>>
<1>1. CallFits(c) /\ CallFits(d) /\ conf' = Effect(c, conf, got)
  BY CallsFit DEF Made
<1>2. ASSUME d.method = "vcl_cfg.set" PROVE conf'.matching[to] = "dmac_dip"
  <2>1. conf'.matching = IF c.method = "vcl_cfg.set" /\ got # {"dmac_dip"}
                         THEN [conf.matching EXCEPT ![at] = "dmac_dip"] ELSE conf.matching
    BY <1>1 DEF Effect
  <2>2. to \in Slot /\ conf.matching[to] = "dmac_dip"
    BY <1>1, <1>2 DEF CallFits, Met
  <2> HIDE DEF at, to
  <2>3. QED
    BY <2>1, <2>2 DEF ConfTypes
<1>3. ASSUME d.method = "vlan.set"
      PROVE  d.arg.add \subseteq conf'.vlan[to].vlans /\ conf'.vlan[to].tagging = d.arg.tagging
  <2>1. conf'.vlan = IF c.method = "vlan.set"
                     THEN [conf.vlan EXCEPT ![at] = Merged(CHOOSE old \in got : TRUE, c.arg)]
                     ELSE conf.vlan
    BY <1>1 DEF Effect
  <2>2. to \in Slot /\ d.arg.add \subseteq conf.vlan[to].vlans /\ conf.vlan[to].tagging = d.arg.tagging
    BY <1>1, <1>3 DEF CallFits, Met
  <2>3. CASE c.method = "vlan.set" /\ at = to
    <3>1. c.sw = d.sw /\ c.on = d.on /\ c \in VlanCall /\ d \in VlanCall
      BY <1>1, <1>3, <2>3 DEF CallFits
    <3>2. c.arg = d.arg
      BY <3>1, OneChange
    <3>3. conf'.vlan[to] = Merged(CHOOSE old \in got : TRUE, c.arg)
      BY <2>1, <2>2, <2>3 DEF ConfTypes
    <3>4. QED
      BY <3>2, <3>3 DEF Merged
  <2>4. CASE ~(c.method = "vlan.set" /\ at = to)
    <3> HIDE DEF at, to
    <3>1. conf'.vlan[to] = conf.vlan[to]
      BY <2>1, <2>2, <2>4 DEF ConfTypes
    <3>2. QED
      BY <2>2, <3>1
  <2>5. QED
    BY <2>3, <2>4
<1>4. ASSUME d.method = "cist.set" PROVE conf'.stp[to] = FALSE
  <2>1. conf'.stp = IF c.method = "cist.set" /\ got # {FALSE}
                    THEN [conf.stp EXCEPT ![at] = FALSE] ELSE conf.stp
    BY <1>1 DEF Effect
  <2>2. to \in RingSlot /\ conf.stp[to] = FALSE
    BY <1>1, <1>4 DEF CallFits, Met
  <2> HIDE DEF at, to
  <2>3. [conf.stp EXCEPT ![at] = FALSE][to] = FALSE
    <3>1. to \in DOMAIN conf.stp
      BY <2>2 DEF ConfTypes
    <3>2. [conf.stp EXCEPT ![at] = FALSE][to] = IF to = at THEN FALSE ELSE conf.stp[to]
      BY <3>1, Zenon
    <3>3. QED
      BY <2>2, <3>2, Zenon
  <2>4. QED
    BY <2>1, <2>2, <2>3, Zenon
<1>5. /\ d.method = "flooding.set" => to \in conf'.flooding
      /\ d.method = "learn.set"    => to \in conf'.unlearned
      /\ d.method = "stream.set"   => d.on \in conf'.streams
      /\ d.method = "frer.set"     => d.on \in conf'.instances
      /\ d.method = "fdb.add"      => Delivery(d.on, d.arg) \in conf'.fdb
  <2>1. /\ conf.flooding \subseteq conf'.flooding
        /\ conf.unlearned \subseteq conf'.unlearned
        /\ conf.streams \subseteq conf'.streams
        /\ conf.instances \subseteq conf'.instances
        /\ conf.fdb \subseteq conf'.fdb
    BY <1>1 DEF Effect
  <2>2. QED
    BY <2>1 DEF Met
<1>6. ASSUME d.method = "attach", NEW x \in conf.attached,
             x \in {<<d.sw, d.on, d.arg, k>> : k \in {"default", "dmac_dip"}}
      PROVE  x \in conf'.attached
  <2>1. CASE c.method = "detach"
    <3>1. conf'.attached = conf.attached \ {<<c.sw, c.on, c.arg, k>> : k \in {"default", "dmac_dip"}}
      BY <1>1, <2>1 DEF Effect
    <3>2. ~(c.sw = d.sw /\ c.on = d.on /\ c.arg = d.arg)
      BY <2>1, <1>6 DEF Opens
    <3>3. QED
      BY <1>6, <3>1, <3>2
  <2>2. CASE c.method = "attach"
    <3>1. conf'.attached = Attached(conf, c.sw, c.on, c.arg)
      BY <1>1, <2>2 DEF Effect
    <3>2. QED
      BY <1>6, <3>1 DEF Attached
  <2>3. CASE c.method \notin {"attach", "detach"}
    <3>1. conf'.attached = conf.attached
      BY <1>1, <2>3 DEF Effect
    <3>2. QED
      BY <1>6, <3>1
  <2>4. QED
    BY <2>1, <2>2, <2>3
<1>7. ASSUME d.method = "attach" PROVE (Keyed(d) \/ OldKey(d) \in refused)'
  <2>1. CASE Keyed(d)
    <3>1. <<d.sw, d.on, d.arg, "dmac_dip">> \in conf.attached
      BY <2>1 DEF Keyed
    <3>2. <<d.sw, d.on, d.arg, "dmac_dip">> \in conf'.attached
      BY <1>6, <1>7, <3>1
    <3>3. QED
      BY <3>2 DEF Keyed
  <2>2. CASE OldKey(d) \in refused
    <3>1. OldKey(d) \in conf'.attached
      BY <1>6, <1>7, <2>2 DEF OldKey
    <3>2. refused' = refused \cap conf'.attached
      BY DEF Made
    <3>3. QED
      BY <2>2, <3>1, <3>2 DEF OldKey
  <2>3. QED
    BY <1>7, <2>1, <2>2 DEF Met
<1>8. QED
  BY <1>2, <1>3, <1>4, <1>5, <1>7 DEF Met

\* A detach takes both keys out, and no attach puts the old one back once the matching mode
\* is corrected.
LEMMA EffectKey ==
  ASSUME NEW c, NEW got, KeyFits(c), Made(c, got), NEW d, d.method = "attach",
         (c.method = "detach" /\ Opens(c, d)) \/ KeyGone(d)
  PROVE  KeyGone(d)'
<1>1. conf' = Effect(c, conf, got) /\ refused' = refused \cap conf'.attached
  BY DEF Made
<1> SUFFICES ASSUME OldKey(d) \in conf'.attached PROVE OldKey(d) \in refused
  BY <1>1 DEF KeyGone, OldKey
<1>2. CASE c.method = "detach"
  <2>1. conf'.attached = conf.attached \ {<<c.sw, c.on, c.arg, k>> : k \in {"default", "dmac_dip"}}
    BY <1>1, <1>2 DEF Effect
  <2>2. ~Opens(c, d)
    BY <1>2, <2>1 DEF Opens, OldKey
  <2>3. QED
    BY <1>2, <2>1, <2>2 DEF KeyGone
<1>3. CASE c.method = "attach"
  <2>1. conf'.attached = Attached(conf, c.sw, c.on, c.arg)
    BY <1>1, <1>3 DEF Effect
  <2>2. OldKey(d) \in conf.attached
    <3>1. OldKey(d) # <<c.sw, c.on, c.arg, "dmac_dip">>
      BY DEF OldKey
    <3>2. QED
      BY <2>1, <3>1, <1>3 DEF Attached, KeyFits
  <2>3. QED
    BY <1>3, <2>2 DEF KeyGone
<1>4. CASE c.method \notin {"attach", "detach"}
  <2>1. conf'.attached = conf.attached
    BY <1>1, <1>4 DEF Effect
  <2>2. QED
    BY <2>1, <1>4 DEF KeyGone
<1>5. QED
  BY <1>2, <1>3, <1>4

\* An error that is swallowed changes nothing, and excuses the classifier a detach was for.
LEMMA DeniedKeeps ==
  ASSUME NEW c, Denied(c), refused \subseteq conf.attached
  PROVE  /\ refused \subseteq refused' /\ refused' \subseteq conf'.attached
         /\ Met(c)'
         /\ \A d : Met(d) => Met(d)'
         /\ \A d : KeyGone(d) \/ (c.method = "detach" /\ Opens(c, d)) => KeyGone(d)'
<1>1. /\ conf' = conf /\ refused \subseteq refused' /\ refused' \subseteq conf.attached
      /\ c.method = "detach" /\ OldKey(c) \in conf.attached => OldKey(c) \in refused'
  BY DEF Denied
<1>2. Met(c)'
  BY DEF Denied, Met
<1>3. ASSUME NEW d, Met(d) PROVE Met(d)'
  BY <1>1, <1>3 DEF Met, Keyed, OldKey
<1>4. ASSUME NEW d, KeyGone(d) PROVE KeyGone(d)'
  BY <1>1, <1>4 DEF KeyGone, OldKey
<1>5. ASSUME NEW d, c.method = "detach", Opens(c, d) PROVE KeyGone(d)'
  BY <1>1, <1>5 DEF KeyGone, OldKey, Opens
<1>6. QED
  BY <1>1, <1>2, <1>3, <1>4, <1>5

-----------------------------------------------------------------------------
(* The steps. *)

\* The calls of main, one by one.
LEMMA MainAt ==
  /\ N \in Nat /\ N >= 1
  /\ \A n \in 1..N : main[n] \in AnyCall
  /\ \A n \in 1..N : main[n].method \in Opened => n > 1 /\ Opens(main[n-1], main[n])
  /\ \A n \in 1..N : main[n].method = "detach" => n < N /\ Opens(main[n], main[n+1])
<1>1. main \in Paired(AnyCall) /\ N \in Nat /\ ToSet(main) = AnyCall
  BY MainCalls
<1>2. main \in Seq(AnyCall) /\ DOMAIN main = 1..N
  BY <1>1 DEF Paired, N
<1>3. N >= 1
  <2>1. Call("vlan.set", "switch1", PC_PORT_SW1, PcChange) \in AnyCall
    BY DEF AnyCall, PartCall, VlanCall
  <2>2. \E n \in 1..N : TRUE
    BY <1>1, <1>2, <2>1 DEF ToSet
  <2>3. QED
    BY <1>1, <2>2
<1>4. \A n \in 1..N :
        /\ main[n].method \in Opened  => n > 1 /\ Opens(main[n-1], main[n])
        /\ main[n].method = "detach" => n < N /\ Opens(main[n], main[n+1])
  BY <1>1 DEF Paired, N
<1>5. QED
  BY <1>1, <1>2, <1>3, <1>4

\* A script that is about to attach has corrected the key of the port and removed the
\* classifier.
LEMMA AttachFits ==
  ASSUME Base, NEW s \in Scripts, pc[s] # 0
  PROVE  pc[s] \in 1..N /\ KeyFits(main[pc[s]])
<1> DEFINE c == main[pc[s]]
<1>1. pc[s] \in 1..N
  BY MainAt DEF Base, RunTypes
<1>2. ASSUME c.method = "attach" PROVE KeyFits(c)
  <2>1. <<c.sw, c.on>> \in Slot
    BY <1>1, <1>2, MainAt, CallsFit DEF CallFits
  <2> DEFINE set == Call("vcl_cfg.set", c.sw, c.on, {})
  <2>2. set \in PortCall
    <3>1. <<c.sw, c.on>>[1] = c.sw /\ <<c.sw, c.on>>[2] = c.on
      OBVIOUS
    <3>2. \E x \in Slot : set = Call("vcl_cfg.set", x[1], x[2], {})
      BY <2>1, <3>1
    <3> HIDE DEF set, c
    <3>3. QED
      BY <3>2 DEF PortCall
  <2>3. PICK k \in 1..N : k < pc[s] /\ main[k] = set
    <3>1. c.method \in FlowMethod
      BY <1>2 DEF FlowMethod
    <3> HIDE DEF set
    <3>2. QED
      BY <1>1, <2>2, <3>1, MainCalls
  <2>4. set.method = "vcl_cfg.set" /\ set.sw = c.sw /\ set.on = c.on
    BY DEF Call
  <2> HIDE DEF set
  <2>5. Met(set)
    BY <2>3, <2>4 DEF Base, KeyInv
  <2>6. conf.matching[<<c.sw, c.on>>] = "dmac_dip"
    BY <2>4, <2>5 DEF Met
  <2>7. KeyGone(c)
    BY <1>1, <1>2, MainAt DEF Base, KeyInv
  <2>8. QED
    BY <2>6, <2>7 DEF KeyFits
<1>3. QED
  BY <1>1, <1>2 DEF KeyFits

\* What the call a script makes changes, whatever becomes of it.
LEMMA ActKeeps ==
  ASSUME Base, NEW s \in Scripts, pc[s] # 0, NEW c, c = main[pc[s]], NEW got, got = read[s],
         Made(c, got) \/ Lost \/ Denied(c)
  PROVE  /\ ConfTypes' /\ (refused \subseteq conf.attached)'
         /\ \A d \in AnyCall : Met(d) => Met(d)' \/ (c.method = "detach" /\ Opens(c, d))
         /\ \A d \in AnyCall : d.method = "attach" /\ KeyGone(d) => KeyGone(d)'
         /\ Made(c, got) \/ Denied(c) =>
              /\ Met(c)'
              /\ \A d \in AnyCall :
                   d.method = "attach" /\ c.method = "detach" /\ Opens(c, d) => KeyGone(d)'
<1>1. c \in AnyCall /\ KeyFits(c)
  BY AttachFits, MainAt
<1>2. ReadFits(c, got) /\ ConfTypes /\ refused \subseteq conf.attached
  BY DEF Base, ReadsFit
<1>3. CASE Made(c, got)
  <2>1. ConfTypes'
    BY <1>1, <1>2, <1>3, EffectTypes DEF Made
  <2>2. Met(c)'
    BY <1>1, <1>2, <1>3, EffectMeets
  <2>3. ASSUME NEW d \in AnyCall, Met(d), ~(c.method = "detach" /\ Opens(c, d)) PROVE Met(d)'
    BY <1>1, <1>2, <1>3, <2>3, EffectKeeps
  <2>4. ASSUME NEW d \in AnyCall, d.method = "attach",
               (c.method = "detach" /\ Opens(c, d)) \/ KeyGone(d)
        PROVE  KeyGone(d)'
    BY <1>1, <1>3, <2>4, EffectKey
  <2>5. (refused \subseteq conf.attached)'
    BY <1>3 DEF Made
  <2>6. QED
    BY <2>1, <2>2, <2>3, <2>4, <2>5
<1>4. CASE Denied(c)
  <2>1. ConfTypes'
    BY <1>2, <1>4 DEF ConfTypes, Denied
  <2>2. QED
    BY <1>2, <1>4, <2>1, DeniedKeeps
<1>5. CASE Lost /\ ~Made(c, got) /\ ~Denied(c)
  <2>1. conf' = conf /\ refused' = refused
    BY <1>2, <1>5 DEF Lost
  <2>2. ConfTypes' /\ (refused \subseteq conf.attached)'
    BY <1>2, <2>1 DEF ConfTypes
  <2>3. \A d \in AnyCall : Met(d) => Met(d)'
    BY <2>1 DEF Met, Keyed, OldKey
  <2>4. \A d \in AnyCall : KeyGone(d) => KeyGone(d)'
    BY <2>1 DEF KeyGone, OldKey
  <2>5. QED
    BY <1>5, <2>2, <2>3, <2>4
<1>6. QED
  BY <1>3, <1>4, <1>5

\* At a get, the configuration stays and the set that follows can use the answer.
LEMMA AnswerFits ==
  ASSUME ConfTypes, NEW c \in AnyCall, NEW d \in AnyCall, NEW got, NEW ans,
         d.method \in Opened, Opens(c, d), conf' = Effect(c, conf, got), ans = Answer(c, conf)
  PROVE  ReadFits(d, ans)'
<1> DEFINE at == <<c.sw, c.on>>
<1>1. CallFits(c) /\ CallFits(d) /\ at = <<d.sw, d.on>>
  BY CallsFit DEF Opens
<1>2. ASSUME d.method = "vcl_cfg.set"
      PROVE  ReadFits(d, ans)'
  <2>1. c.method = "vcl_cfg.get"
    BY <1>2 DEF Opens
  <2>2. ans = {conf.matching[at]}
    BY <2>1 DEF Answer
  <2>3. conf.matching[at] \in {"default", "dmac_dip"}
    BY <1>1, <2>1 DEF ConfTypes, CallFits
  <2>4. conf'.matching = conf.matching
    BY <2>1 DEF Effect
  <2>5. conf.matching[at] = "dmac_dip" => Met(d)'
    BY <2>4, <1>1, <1>2 DEF Met
  <2>6. \/ ans = {"default"}
        \/ ans = {"dmac_dip"} /\ Met(d)'
    BY <2>2, <2>3, <2>5
  <2>7. QED
    BY <2>6, <1>2 DEF ReadFits
<1>3. ASSUME d.method = "vlan.set"
      PROVE  ReadFits(d, ans)'
  <2>1. c.method = "vlan.get"
    BY <1>3 DEF Opens
  <2>2. ans = {conf.vlan[at]}
    BY <2>1 DEF Answer
  <2>3. conf.vlan[at] \in PortVlan
    BY <1>1, <2>1 DEF ConfTypes, CallFits
  <2>4. QED
    BY <2>2, <2>3, <1>3 DEF ReadFits
<1>4. ASSUME d.method = "cist.set"
      PROVE  ReadFits(d, ans)'
  <2>1. c.method = "cist.get"
    BY <1>4 DEF Opens
  <2>2. ans = {conf.stp[at]}
    BY <2>1 DEF Answer
  <2>3. conf.stp[at] \in BOOLEAN
    BY <1>1, <2>1 DEF ConfTypes, CallFits
  <2>4. conf'.stp = conf.stp
    BY <2>1 DEF Effect
  <2>5. conf.stp[at] = FALSE => Met(d)'
    BY <2>4, <1>1, <1>4 DEF Met
  <2>6. \/ ans = {TRUE}
        \/ ans = {FALSE} /\ Met(d)'
    <3>1. conf.stp[at] = TRUE \/ conf.stp[at] = FALSE
      BY <2>3
    <3>2. QED
      BY <2>2, <2>5, <3>1
  <2>7. QED
    BY <2>6, <1>4 DEF ReadFits
<1>5. ASSUME d.method = "attach"
      PROVE  ReadFits(d, ans)'
  BY <1>5 DEF ReadFits
<1>6. QED
  BY <1>2, <1>3, <1>4, <1>5 DEF Opened

\* The switches as shipped, with or without what an earlier attempt left.
LEMMA BaseInit == Init => Base
<1> SUFFICES ASSUME Init PROVE Base
  OBVIOUS
<1>1. PICK leftover \in Leftovers : conf = Shipped(leftover)
  BY DEF Init
<1>2. ConfTypes
  <2>1. conf.matching \in [Slot -> {"default", "dmac_dip"}]
    BY <1>1 DEF Shipped
  <2>2. conf.vlan \in [Slot -> PortVlan]
    <3>1. ASSUME NEW x \in Slot
          PROVE  [vlans |-> {1} \cup (IF x \in BoardSlot THEN ALL_VLANS ELSE {}),
                  tagging |-> "untagThis", native |-> 1] \in PortVlan
      BY DEF PortVlan
    <3>2. QED
      BY <1>1, <3>1 DEF Shipped
  <2>3. conf.stp \in [RingSlot -> BOOLEAN]
    <3>1. [x \in RingSlot |-> TRUE] \in [RingSlot -> BOOLEAN]
      BY Zenon
    <3>2. conf.stp = [x \in RingSlot |-> TRUE]
      BY <1>1 DEF Shipped
    <3>3. QED
      BY <3>1, <3>2
  <2>4. /\ conf.flooding = {} /\ conf.unlearned = {} /\ conf.fdb = {}
        /\ conf.streams = leftover /\ conf.instances = leftover
        /\ leftover \subseteq End
    BY <1>1, LeftoversAssumption DEF Shipped
  <2>5. QED
    BY <2>1, <2>2, <2>3, <2>4 DEF ConfTypes
<1>3. /\ pc \in [Scripts -> 0..N] /\ \A s \in Scripts : pc[s] = 0
      /\ \A s \in Scripts : result[s] = "none"
      /\ result \in [Scripts -> {"none", "running", "ok", "failed"}]
      /\ read \in [Scripts -> SUBSET Reading]
      /\ runs \in Nat
  BY MainAt DEF Init
<1>4. RunTypes
  BY <1>3 DEF RunTypes
<1>5. ReadsFit /\ KeyInv
  <2>1. \A s \in Scripts, n \in 1..N : ~(n < pc[s])
    BY <1>3, MainAt
  <2>2. QED
    BY <1>3, <2>1 DEF ReadsFit, KeyInv
<1>6. refused \subseteq conf.attached
  BY DEF Init
<1>7. QED
  BY <1>2, <1>4, <1>5, <1>6 DEF Base

\* What a get answers is something a port can be set to.
LEMMA AnswerTypes ==
  ASSUME ConfTypes, NEW c \in AnyCall
  PROVE  Answer(c, conf) \in SUBSET Reading
<1>1. CallFits(c)
  BY CallsFit
<1>2. CASE c.method = "vcl_cfg.get"
  <2>1. conf.matching[<<c.sw, c.on>>] \in {"default", "dmac_dip"}
    BY <1>1, <1>2 DEF ConfTypes, CallFits
  <2>2. Answer(c, conf) = {conf.matching[<<c.sw, c.on>>]}
    BY <1>2 DEF Answer
  <2>3. QED
    BY <2>1, <2>2 DEF Reading
<1>3. CASE c.method = "vlan.get"
  <2>1. conf.vlan[<<c.sw, c.on>>] \in PortVlan
    BY <1>1, <1>3 DEF ConfTypes, CallFits
  <2>2. Answer(c, conf) = {conf.vlan[<<c.sw, c.on>>]}
    BY <1>3 DEF Answer
  <2>3. QED
    BY <2>1, <2>2 DEF Reading
<1>4. CASE c.method = "cist.get"
  <2>1. conf.stp[<<c.sw, c.on>>] \in BOOLEAN
    BY <1>1, <1>4 DEF ConfTypes, CallFits
  <2>2. Answer(c, conf) = {conf.stp[<<c.sw, c.on>>]}
    BY <1>4 DEF Answer
  <2>3. QED
    BY <2>1, <2>2 DEF Reading
<1>5. CASE c.method \notin {"vcl_cfg.get", "vlan.get", "cist.get"}
  BY <1>5 DEF Answer
<1>6. QED
  BY <1>2, <1>3, <1>4, <1>5

\* A fresh start changes nothing on the switches, and main's first call is no set.
LEMMA BaseStart ==
  ASSUME Base, NEW s \in Scripts, Start(s)
  PROVE  Base'
<1>1. /\ conf' = conf /\ read' = read /\ refused' = refused
      /\ pc[s] = 0 /\ pc' = [pc EXCEPT ![s] = 1] /\ result' = [result EXCEPT ![s] = "running"]
      /\ runs' = runs + 1
  BY DEF Start
<1>2. RunTypes
  BY DEF Base
<1>3. pc'[s] = 1 /\ \A t \in Scripts : t # s => pc'[t] = pc[t]
  BY <1>1, <1>2 DEF RunTypes
<1>4. main[1].method \notin Opened
  BY MainAt
<1>5. \A d : (Met(d) => Met(d)') /\ (KeyGone(d) => KeyGone(d)')
  BY <1>1 DEF Met, Keyed, KeyGone, OldKey
<1>6. ConfTypes'
  BY <1>1 DEF Base, ConfTypes
<1>7. RunTypes'
  <2>1. pc' \in [Scripts -> 0..N]
    BY <1>1, <1>2, MainAt DEF RunTypes
  <2>2. result' \in [Scripts -> {"none", "running", "ok", "failed"}]
    BY <1>1, <1>2 DEF RunTypes
  <2>3. \A t \in Scripts : result'[t] = "running" <=> pc'[t] # 0
    BY <1>1, <1>2, <1>3 DEF RunTypes
  <2>4. QED
    BY <1>1, <1>2, <2>1, <2>2, <2>3 DEF RunTypes
<1>8. ReadsFit'
  <2> SUFFICES ASSUME NEW t \in Scripts, pc'[t] # 0
               PROVE  ReadFits(main[pc[t]], read[t])'
    BY DEF ReadsFit
  <2>1. CASE t = s
    BY <1>3, <1>4, <2>1 DEF ReadFits, Opened
  <2>2. CASE t # s
    <3>1. pc'[t] = pc[t] /\ read'[t] = read[t] /\ ReadFits(main[pc[t]], read[t])
      BY <1>1, <1>3, <2>2 DEF Base, ReadsFit
    <3>2. QED
      BY <1>5, <3>1 DEF ReadFits
  <2>3. QED
    BY <2>1, <2>2
<1>9. KeyInv'
  <2> SUFFICES ASSUME NEW t \in Scripts
               PROVE  /\ \A n \in 1..N : n < pc'[t] /\ main[n].method = "vcl_cfg.set" => Met(main[n])'
                      /\ pc'[t] # 0 /\ main[pc'[t]].method = "attach" => KeyGone(main[pc[t]])'
    BY DEF KeyInv
  <2>1. CASE t = s
    BY <1>3, <1>4, <2>1 DEF Opened
  <2>2. CASE t # s
    BY <1>1, <1>3, <1>5, <2>2 DEF Base, KeyInv
  <2>3. QED
    BY <2>1, <2>2
<1>10. (refused \subseteq conf.attached)'
  BY <1>1 DEF Base
<1>11. QED
  BY <1>6, <1>7, <1>8, <1>9, <1>10 DEF Base

\* What a script relies on.
Relies(t) ==
  /\ pc[t] # 0 => ReadFits(main[pc[t]], read[t])
  /\ \A n \in 1..N : n < pc[t] /\ main[n].method = "vcl_cfg.set" => Met(main[n])
  /\ pc[t] # 0 /\ main[pc[t]].method = "attach" => KeyGone(main[pc[t]])

\* The others keep what they rely on, whatever one of them calls.
LEMMA OthersRely ==
  ASSUME Base, NEW s \in Scripts, pc[s] # 0, NEW c, c = main[pc[s]], NEW got, got = read[s],
         Made(c, got) \/ Lost \/ Denied(c),
         NEW t \in Scripts, pc'[t] = pc[t], read'[t] = read[t]
  PROVE  Relies(t)'
<1>1. /\ \A d \in AnyCall : Met(d) => Met(d)' \/ (c.method = "detach" /\ Opens(c, d))
      /\ \A d \in AnyCall : d.method = "attach" /\ KeyGone(d) => KeyGone(d)'
  BY ActKeeps
<1>2. \A n \in 1..N : main[n] \in AnyCall
  BY MainAt
<1>3. pc[t] # 0 => pc[t] \in 1..N
  BY MainAt DEF Base, RunTypes
<1>4. \A d \in AnyCall : Met(d) /\ d.method # "attach" => Met(d)'
  BY <1>1 DEF Opens
<1>5. \A n \in 1..N : n < pc[t] /\ main[n].method = "vcl_cfg.set" => Met(main[n])'
  BY <1>2, <1>4 DEF Base, KeyInv
<1>6. ASSUME pc[t] # 0, main[pc[t]].method = "attach"
      PROVE  KeyGone(main[pc[t]])'
  <2>1. PICK d : d = main[pc[t]]
    OBVIOUS
  <2>2. d \in AnyCall /\ KeyGone(d) /\ d.method = "attach"
    BY <1>2, <1>3, <1>6, <2>1 DEF Base, KeyInv
  <2>3. KeyGone(d)' /\ d = main[pc'[t]]
    BY <1>1, <2>1, <2>2
  <2>4. QED
    BY <2>3
<1>7. ASSUME pc[t] # 0, NEW d, d = main[pc[t]], NEW ans, ans = read[t]
      PROVE  ReadFits(d, ans)'
  <2>1. ReadFits(d, ans)
    BY <1>7 DEF Base, ReadsFit
  <2>2. d \in AnyCall
    BY <1>2, <1>3, <1>7
  <2>3. Met(d) /\ d.method # "attach" => Met(d)'
    BY <1>4, <2>2
  <2>4. QED
    BY <2>1, <2>3 DEF ReadFits
<1>8. pc[t] # 0 => ReadFits(main[pc[t]], read[t])'
  <2> SUFFICES ASSUME pc[t] # 0 PROVE ReadFits(main[pc[t]], read[t])'
    OBVIOUS
  <2>1. PICK d, ans : d = main[pc[t]] /\ ans = read[t]
    OBVIOUS
  <2>2. ReadFits(d, ans)'
    BY <1>7, <2>1
  <2>3. d = main[pc'[t]] /\ ans = read'[t]
    BY <2>1
  <2>4. QED
    BY <2>2, <2>3 DEF ReadFits
<1>9. QED
  BY <1>5, <1>6, <1>8 DEF Relies

\* The script that goes on relies on what its own calls achieved.
LEMMA ProceedRelies ==
  ASSUME Base, NEW s \in Scripts, Proceed(s) \/ Swallow(s)
  PROVE  Relies(s)'
<1> DEFINE n == pc[s]
<1>1. PICK c, got : c = main[pc[s]] /\ got = read[s]
  OBVIOUS
<1>2. /\ pc[s] # 0
      /\ (Proceed(s) /\ Made(c, got)) \/ (Swallow(s) /\ Denied(c))
      /\ read'[s] = Answer(c, conf)
      /\ pc[s] \in 1..N /\ main[pc[s]] \in AnyCall
      /\ pc'[s] = IF pc[s] = N THEN 0 ELSE pc[s] + 1
  <2>1. pc[s] # 0 /\ pc[s] \in 1..N /\ main[pc[s]] \in AnyCall
    BY AttachFits, MainAt DEF Proceed, Swallow
  <2>2. pc'[s] = IF pc[s] = N THEN 0 ELSE pc[s] + 1
    BY <2>1 DEF Proceed, Swallow, GoOn, N, Base, RunTypes
  <2>3. CASE Proceed(s)
    BY <1>1, <2>1, <2>2, <2>3 DEF Proceed, Made, Base, RunTypes
  <2>4. CASE Swallow(s)
    <3>1. Denied(c)
      BY <1>1, <2>4 DEF Swallow, Denied
    <3>2. Answer(c, conf) = {}
      BY <3>1 DEF Denied, Answer
    <3>3. read'[s] = {}
      BY <2>4 DEF Swallow, Base, RunTypes
    <3>4. QED
      BY <2>1, <2>2, <2>4, <3>1, <3>2, <3>3
  <2>5. QED
    BY <2>3, <2>4
<1>3. /\ \A d \in AnyCall : Met(d) => Met(d)' \/ (c.method = "detach" /\ Opens(c, d))
      /\ Met(c)'
      /\ \A d \in AnyCall :
           d.method = "attach" /\ c.method = "detach" /\ Opens(c, d) => KeyGone(d)'
  BY <1>1, <1>2, ActKeeps
<1>4. CASE pc[s] = N
  <2>1. pc'[s] = 0
    BY <1>2, <1>4
  <2>2. \A k \in 1..N : ~(k < pc'[s])
    BY <2>1, MainAt
  <2>3. QED
    BY <2>1, <2>2 DEF Relies
<1>5. CASE pc[s] # N
  <2>1. PICK d : d = main[pc[s] + 1]
    OBVIOUS
  <2>2. /\ pc'[s] = pc[s] + 1 /\ pc[s] + 1 \in 1..N /\ d \in AnyCall /\ pc[s] + 1 - 1 = pc[s]
        /\ d = main[pc'[s]]
    BY <1>2, <1>5, <2>1, MainAt
  <2>3. d.method \in Opened => Opens(c, d)
    <3> DEFINE k == pc[s] + 1
    <3>1. k \in 1..N /\ k = pc[s] + 1 /\ k - 1 = pc[s]
      BY <1>2, <2>2, MainAt
    <3> HIDE DEF k
    <3>2. main[k].method \in Opened => Opens(main[k - 1], main[k])
      BY <3>1, MainAt
    <3>3. QED
      BY <1>1, <2>1, <3>1, <3>2
  <2>4. ASSUME NEW k \in 1..N, k < pc'[s], main[k].method = "vcl_cfg.set"
        PROVE  Met(main[k])'
    <3>1. CASE k = pc[s]
      BY <1>1, <1>3, <3>1
    <3>2. CASE k # pc[s]
      <4>1. k < pc[s] /\ main[k] \in AnyCall
        BY <1>2, <2>2, <2>4, <3>2, MainAt
      <4>2. Met(main[k])
        BY <2>4, <4>1 DEF Base, KeyInv
      <4>3. ~Opens(c, main[k]) \/ c.method # "detach"
        BY <2>4 DEF Opens
      <4>4. QED
        BY <1>3, <4>1, <4>2, <4>3
    <3>3. QED
      BY <3>1, <3>2
  <2>5. ASSUME d.method = "attach"
        PROVE  KeyGone(d)'
    BY <1>3, <2>2, <2>3, <2>5 DEF Opens, Opened
  <2>6. PICK ans : ans = Answer(c, conf)
    OBVIOUS
  <2>7. ReadFits(d, ans)'
    <3>1. CASE d.method \in Opened
      <4>1. CASE Made(c, got)
        BY <1>1, <1>2, <2>2, <2>3, <2>6, <3>1, <4>1, AnswerFits DEF Base, Made
      <4>2. CASE Denied(c)
        BY <2>3, <3>1, <4>2 DEF ReadFits, Opens, Denied
      <4>3. QED
        BY <1>2, <4>1, <4>2
    <3>2. CASE d.method \notin Opened
      BY <3>2 DEF ReadFits, Opened
    <3>3. QED
      BY <3>1, <3>2
  <2>8. ReadFits(main[pc[s]], read[s])'
    <3>1. d = main[pc'[s]] /\ ans = read'[s]
      BY <1>2, <2>2, <2>6
    <3>2. QED
      BY <2>7, <3>1 DEF ReadFits
  <2>9. d.method = "attach" => KeyGone(main[pc[s]])'
    BY <2>2, <2>5
  <2>10. QED
    BY <2>2, <2>4, <2>8, <2>9 DEF Relies
<1>6. QED
  BY <1>4, <1>5

\* Base is an invariant.
LEMMA BaseStep == Base /\ [Next]_vars => Base'
<1> SUFFICES ASSUME Base, [Next]_vars PROVE Base'
  OBVIOUS
<1>1. ASSUME NEW s \in Scripts, Start(s) PROVE Base'
  BY <1>1, BaseStart
<1>2. RunTypes
  BY DEF Base
<1>3. ASSUME NEW s \in Scripts, Proceed(s) \/ Swallow(s) \/ Abort(s) PROVE Base'
  <2>1. PICK c, got : c = main[pc[s]] /\ got = read[s]
    OBVIOUS
  <2>2. pc[s] # 0 /\ (Made(c, got) \/ Lost \/ Denied(c)) /\ runs' = runs
    BY <1>3, <2>1 DEF Proceed, Swallow, Abort, Made, Lost, Denied
  <2>3. pc[s] \in 1..N /\ c \in AnyCall
    BY <2>1, <2>2, AttachFits, MainAt
  <2>4. /\ pc' = [pc EXCEPT ![s] = pc'[s]] /\ pc'[s] \in 0..N
        /\ \A t \in Scripts : t # s => pc'[t] = pc[t] /\ read'[t] = read[t] /\ result'[t] = result[t]
    BY <1>2, <1>3, <2>3, MainAt DEF RunTypes, Proceed, Swallow, GoOn, Abort, N
  <2>5. ConfTypes' /\ (refused \subseteq conf.attached)'
    BY <2>1, <2>2, ActKeeps
  <2>6. RunTypes'
    <3>1. pc' \in [Scripts -> 0..N]
      BY <1>2, <2>4 DEF RunTypes
    <3>2. result' \in [Scripts -> {"none", "running", "ok", "failed"}]
      BY <1>2, <1>3 DEF RunTypes, Proceed, Swallow, GoOn, Abort
    <3>3. result'[s] = "running" <=> pc'[s] # 0
      BY <1>2, <1>3, <2>3, MainAt DEF RunTypes, Proceed, Swallow, GoOn, Abort, N
    <3>4. read' \in [Scripts -> SUBSET Reading]
      <4>1. Answer(c, conf) \in SUBSET Reading
        BY <2>3, AnswerTypes DEF Base
      <4>2. QED
        BY <4>1, <1>2, <1>3, <2>1 DEF RunTypes, Proceed, Swallow, GoOn, Abort
    <3>5. QED
      BY <1>2, <2>2, <2>4, <3>1, <3>2, <3>3, <3>4 DEF RunTypes
  <2>7. ASSUME NEW t \in Scripts, t # s PROVE Relies(t)'
    BY <2>1, <2>2, <2>4, <2>7, OthersRely
  <2>8. Relies(s)'
    <3>1. CASE Proceed(s) \/ Swallow(s)
      BY <3>1, ProceedRelies
    <3>2. CASE Abort(s)
      <4>1. pc'[s] = 0
        BY <1>2, <3>2 DEF RunTypes, Abort
      <4>2. \A k \in 1..N : ~(k < pc'[s])
        BY <4>1, MainAt
      <4>3. QED
        BY <4>1, <4>2 DEF Relies
    <3>3. QED
      BY <1>3, <3>1, <3>2
  <2>9. \A t \in Scripts : Relies(t)'
    BY <2>7, <2>8
  <2>10. ReadsFit' /\ KeyInv'
    BY <2>9 DEF Relies, ReadsFit, KeyInv
  <2>11. QED
    BY <2>5, <2>6, <2>10 DEF Base
<1>4. CASE UNCHANGED vars
  <2>1. /\ conf' = conf /\ pc' = pc /\ read' = read /\ result' = result /\ runs' = runs
        /\ refused' = refused
    BY <1>4 DEF vars
  <2>2. ConfTypes'
    BY <2>1 DEF Base, ConfTypes
  <2>3. RunTypes'
    BY <2>1 DEF Base, RunTypes
  <2>4. \A d : (Met(d) => Met(d)') /\ (KeyGone(d) => KeyGone(d)')
    BY <2>1 DEF Met, Keyed, KeyGone, OldKey
  <2>5. ReadsFit'
    BY <2>1, <2>4 DEF Base, ReadsFit, ReadFits
  <2>6. KeyInv'
    BY <2>1, <2>4 DEF Base, KeyInv
  <2>7. (refused \subseteq conf.attached)'
    BY <2>1 DEF Base
  <2>8. QED
    BY <2>2, <2>3, <2>5, <2>6, <2>7 DEF Base
<1>5. QED
  BY <1>1, <1>3, <1>4 DEF Next

\* The types, and what every script relies on, hold throughout.
THEOREM BaseHolds == Spec => []Base
<1>1. Init => Base
  BY BaseInit
<1>2. Base /\ [Next]_vars => Base'
  BY BaseStep
<1>3. QED
  BY <1>1, <1>2, PTL DEF Spec

\* Base gives the types of FrerSetup, native VLAN 1 on every port included.
THEOREM TypesHold == Spec => []TypeOK
<1>1. Base => TypeOK
  <2> SUFFICES ASSUME Base PROVE TypeOK
    OBVIOUS
  <2>1. ConfTypes /\ RunTypes /\ refused \subseteq conf.attached
    BY DEF Base
  <2>2. \A x \in Slot : /\ conf.vlan[x].vlans \subseteq {1} \cup ALL_VLANS
                        /\ conf.vlan[x].tagging \in {"untagThis", "tagAll", "untagAll"}
                        /\ conf.vlan[x].native = 1
    <3> SUFFICES ASSUME NEW x \in Slot
                 PROVE  /\ conf.vlan[x].vlans \subseteq {1} \cup ALL_VLANS
                        /\ conf.vlan[x].tagging \in {"untagThis", "tagAll", "untagAll"}
                        /\ conf.vlan[x].native = 1
      OBVIOUS
    <3>1. conf.vlan[x] \in PortVlan
      BY <2>1 DEF ConfTypes
    <3>2. QED
      BY <3>1 DEF PortVlan
  <2>3. QED
    BY <2>1, <2>2 DEF TypeOK, ConfTypes, RunTypes, N, Direction
<1>2. QED
  BY <1>1, BaseHolds, PTL

-----------------------------------------------------------------------------
(* A run that ends well leaves nothing undone. *)

\* A call is what its fields say.
LEMMA SameCall ==
  ASSUME NEW c \in AnyCall, NEW d \in AnyCall,
         c.method = d.method, c.sw = d.sw, c.on = d.on, c.arg = d.arg
  PROVE  c = d
<1>1. ASSUME NEW x \in AnyCall PROVE x = Call(x.method, x.sw, x.on, x.arg)
  <2>1. \A m, sw, on, arg : x = Call(m, sw, on, arg) => x = Call(x.method, x.sw, x.on, x.arg)
    BY DEF Call
  <2>2. \E m, sw, on, arg : x = Call(m, sw, on, arg)
    <3>1. CASE x \in PortCall
      BY <3>1 DEF PortCall
    <3>2. CASE x \in VlanCall
      BY <3>2 DEF VlanCall
    <3>3. CASE x \in StpCall
      BY <3>3 DEF StpCall
    <3>4. CASE x \in FloodCall
      BY <3>4 DEF FloodCall
    <3>5. CASE x \in FdbCall
      BY <3>5 DEF FdbCall
    <3>6. ASSUME NEW e \in End, x \in EndCall(e) PROVE \E m, sw, on, arg : x = Call(m, sw, on, arg)
      BY <3>6 DEF EndCall
    <3>7. QED
      BY <3>1, <3>2, <3>3, <3>4, <3>5, <3>6 DEF AnyCall, PartCall
  <2>3. QED
    BY <2>1, <2>2
<1>2. c = Call(c.method, c.sw, c.on, c.arg) /\ d = Call(d.method, d.sw, d.on, d.arg)
  BY <1>1
<1>3. QED
  BY <1>2

\* A detach opens one attach, the one main makes next.
LEMMA DetachOpens ==
  ASSUME NEW n \in 1..N, main[n].method = "detach", NEW d \in AnyCall, Opens(main[n], d)
  PROVE  n < N /\ n + 1 \in 1..N /\ main[n+1] = d /\ d.method = "attach"
<1>1. n < N /\ Opens(main[n], main[n+1])
  BY MainAt
<1>2. n + 1 \in 1..N
  BY <1>1, MainAt
<1>3. main[n+1] \in AnyCall
  BY <1>2, MainAt
<1>4. main[n+1].method = d.method /\ main[n+1].sw = d.sw /\ main[n+1].on = d.on /\ main[n+1].arg = d.arg
  BY <1>1 DEF Opens
<1>5. QED
  BY <1>1, <1>2, <1>3, <1>4, SameCall DEF Opens

\* Before the first run no script is at a call.
Ahead == /\ AheadInv
         /\ runs = 0 => \A s \in Scripts : pc[s] = 0

\* At first no purpose needs to be met.
LEMMA AheadInit == Init => Ahead
  BY DEF Init, Ahead, AheadInv

\* What a call undoes is the next one of the same script.
LEMMA AheadProceed ==
  ASSUME Base, Ahead, NEW s \in Scripts, Proceed(s) \/ Swallow(s)
  PROVE  AheadInv'
<1>1. PICK c, got : c = main[pc[s]] /\ got = read[s]
  OBVIOUS
<1>2. /\ pc[s] # 0 /\ (Made(c, got) \/ Denied(c)) /\ runs' = runs
      /\ pc[s] \in 1..N
      /\ pc'[s] = IF pc[s] = N THEN 0 ELSE pc[s] + 1
      /\ \A t \in Scripts : t # s => pc'[t] = pc[t] /\ result'[t] = result[t]
      /\ result[s] = "running"
  BY <1>1, AttachFits DEF Proceed, Swallow, GoOn, Made, Denied, N, Base, RunTypes
<1>3. /\ \A d \in AnyCall : Met(d) => Met(d)' \/ (c.method = "detach" /\ Opens(c, d))
      /\ Met(c)'
  BY <1>1, <1>2, ActKeeps
<1>4. runs # 0
  BY <1>2 DEF Ahead
<1> SUFFICES ASSUME NEW n \in 1..N
             PROVE  \/ Met(main[n])'
                    \/ \E t \in Scripts : \/ result'[t] = "failed"
                                          \/ pc'[t] # 0 /\ \E k \in pc'[t]..N : main[k] = main[n]
  BY DEF AheadInv
<1>5. PICK d : d = main[n] /\ d \in AnyCall
  BY MainAt
<1>6. CASE d = c
  BY <1>3, <1>5, <1>6
<1>7. CASE Met(d) /\ ~Met(d)'
  <2>1. c.method = "detach" /\ Opens(c, d)
    BY <1>3, <1>5, <1>7
  <2>2. pc[s] < N /\ pc[s] + 1 \in 1..N /\ main[pc[s] + 1] = d
    BY <1>1, <1>2, <1>5, <2>1, DetachOpens
  <2>3. pc'[s] # 0 /\ pc'[s] \in pc'[s]..N /\ main[pc'[s]] = d
    BY <1>2, <2>2, MainAt
  <2>4. QED
    BY <1>5, <2>3
<1>8. CASE ~Met(d) /\ d # c
  <2>1. PICK t \in Scripts : result[t] = "failed" \/ (pc[t] # 0 /\ \E k \in pc[t]..N : main[k] = d)
    BY <1>4, <1>5, <1>8 DEF Ahead, AheadInv
  <2>2. CASE t # s
    BY <1>2, <1>5, <2>1, <2>2
  <2>3. CASE t = s
    <3>1. PICK k \in pc[s]..N : main[k] = d
      BY <1>2, <2>1, <2>3
    <3>2. k # pc[s]
      BY <1>1, <1>8, <3>1
    <3>3. pc'[s] = pc[s] + 1 /\ pc'[s] # 0 /\ k \in pc'[s]..N
      BY <1>2, <3>1, <3>2, MainAt
    <3>4. QED
      BY <1>5, <3>1, <3>3
  <2>4. QED
    BY <2>2, <2>3
<1>9. QED
  BY <1>5, <1>6, <1>7, <1>8

\* A start has all of main ahead of it, a run broken off counts as failed.
LEMMA AheadStep == Base /\ Ahead /\ [Next]_vars => Ahead'
<1> SUFFICES ASSUME Base, Ahead, [Next]_vars PROVE Ahead'
  OBVIOUS
<1>1. RunTypes
  BY DEF Base
<1>2. ASSUME NEW s \in Scripts, Start(s) PROVE Ahead'
  <2>1. pc'[s] = 1 /\ runs' # 0
    BY <1>1, <1>2 DEF RunTypes, Start
  <2>2. ASSUME NEW n \in 1..N
        PROVE  pc'[s] # 0 /\ n \in pc'[s]..N
    BY <2>1, MainAt
  <2>3. QED
    BY <2>1, <2>2 DEF Ahead, AheadInv
<1>3. ASSUME NEW s \in Scripts, Proceed(s) \/ Swallow(s) PROVE Ahead'
  <2>1. runs' = runs /\ runs # 0
    BY <1>3 DEF Proceed, Swallow, Ahead
  <2>2. QED
    BY <1>3, <2>1, AheadProceed DEF Ahead
<1>4. ASSUME NEW s \in Scripts, Abort(s) PROVE Ahead'
  <2>1. runs' = runs /\ runs # 0 /\ result'[s] = "failed"
    BY <1>1, <1>4 DEF RunTypes, Abort, Ahead
  <2>2. QED
    BY <2>1 DEF Ahead, AheadInv
<1>5. CASE UNCHANGED vars
  <2>1. conf' = conf /\ pc' = pc /\ result' = result /\ runs' = runs /\ refused' = refused
    BY <1>5 DEF vars
  <2>2. \A n \in 1..N : Met(main[n]) => Met(main[n])'
    BY <2>1 DEF Met, Keyed, OldKey
  <2>3. QED
    BY <2>1, <2>2 DEF Ahead, AheadInv
<1>6. QED
  BY <1>2, <1>3, <1>4, <1>5 DEF Next

\* An end whose calls met their purpose is live, but for the classifiers the switch refused to
\* detach.
LEMMA LiveEnd ==
  ASSUME NEW e \in End, \A c \in EndCall(e) : Met(c)
  PROVE  LiveBut(e, refused)
<1>1. e \in conf.streams
  <2> DEFINE c == Call("stream.set", EndSwitch(e), e, {})
  <2>1. c \in EndCall(e) /\ c.method = "stream.set" /\ c.on = e
    BY DEF EndCall, EndMethod, Call
  <2> HIDE DEF c
  <2>2. QED
    BY <2>1 DEF Met
<1>2. e \in conf.instances
  <2> DEFINE c == Call("frer.set", EndSwitch(e), e, {})
  <2>1. c \in EndCall(e) /\ c.method = "frer.set" /\ c.on = e
    BY DEF EndCall, EndMethod, Call
  <2> HIDE DEF c
  <2>2. QED
    BY <2>1 DEF Met
<1>3. ASSUME NEW p \in ToSet(EndPorts(e))
      PROVE  \/ <<EndSwitch(e), p, e, "dmac_dip">> \in conf.attached
             \/ <<EndSwitch(e), p, e, "default">> \in refused
  <2> DEFINE c == Call("attach", EndSwitch(e), p, e)
  <2>1. /\ c \in EndCall(e) /\ c.method = "attach"
        /\ c.sw = EndSwitch(e) /\ c.on = p /\ c.arg = e
    BY DEF EndCall, Call
  <2> HIDE DEF c
  <2>2. QED
    BY <2>1 DEF Met, Keyed, OldKey
<1>4. QED
  BY <1>1, <1>2, <1>3 DEF LiveBut

\* A slot whose set_vlan met its purpose carries the VLANs it adds.
LEMMA VlanMet ==
  ASSUME NEW sw, NEW p, NEW change, Met(Call("vlan.set", sw, p, change))
  PROVE  change.add \subseteq conf.vlan[<<sw, p>>].vlans /\ conf.vlan[<<sw, p>>].tagging = change.tagging
  BY DEF Met, Call

\* A ring whose ports were all given their VLANs carries every flow.
LEMMA RingCarries ==
  ASSUME \A c \in VlanCall : Met(c), NEW b \in Board, NEW d \in Direction
  PROVE  Carried(b, d) /\ FlowVlan(b, d) \in ALL_VLANS
<1>1. FlowVlan(b, d) \in ALL_VLANS
  BY DEF FlowVlan, ALL_VLANS
<1>2. ASSUME NEW x \in RingSlot
      PROVE  FlowVlan(b, d) \in conf.vlan[x].vlans /\ conf.vlan[x].tagging = "tagAll"
  <2>1. Met(Call("vlan.set", x[1], x[2], RingChange))
    BY DEF VlanCall
  <2>2. x = <<x[1], x[2]>>
    BY DEF RingSlot
  <2>3. RingChange.add = ALL_VLANS /\ RingChange.tagging = "tagAll"
    BY DEF RingChange, VlanChange
  <2>4. QED
    BY <1>1, <2>1, <2>2, <2>3, VlanMet
<1>3. QED
  BY <1>1, <1>2 DEF Carried

\* The call gives a slot the VLAN of a flow, untagged.
Serves(c, x, b, d) ==
  /\ c.method = "vlan.set"
  /\ x = <<c.sw, c.on>>
  /\ FlowVlan(b, d) \in c.arg.add
  /\ c.arg.tagging = "untagAll"

\* The ports of a board and of the PC are each given the VLANs of the board's flows.
LEMMA EdgeCall ==
  ASSUME NEW b \in Board, NEW d \in Direction,
         NEW x \in {<<"switch2", Port[b]>>, <<"switch1", PC_PORT_SW1>>}
  PROVE  \E c \in VlanCall : Serves(c, x, b, d)
<1>1. CASE x = <<"switch2", Port[b]>>
  <2> DEFINE c == Call("vlan.set", "switch2", Port[b], BoardChange(b))
  <2>1. c \in VlanCall
    BY DEF VlanCall
  <2>2. FlowVlan(b, d) \in BoardChange(b).add /\ BoardChange(b).tagging = "untagAll"
    BY DEF BoardChange, VlanChange, FlowVlan
  <2>3. /\ c.method = "vlan.set" /\ c.sw = "switch2" /\ c.on = Port[b]
        /\ c.arg = BoardChange(b)
    BY DEF Call
  <2> HIDE DEF c
  <2>4. QED
    BY <1>1, <2>1, <2>2, <2>3 DEF Serves
<1>2. CASE x = <<"switch1", PC_PORT_SW1>>
  <2> DEFINE c == Call("vlan.set", "switch1", PC_PORT_SW1, PcChange)
  <2>1. c \in VlanCall
    BY DEF VlanCall
  <2>2. FlowVlan(b, d) \in PcChange.add /\ PcChange.tagging = "untagAll"
    BY DEF PcChange, VlanChange, FlowVlan, ALL_VLANS
  <2>3. /\ c.method = "vlan.set" /\ c.sw = "switch1" /\ c.on = PC_PORT_SW1
        /\ c.arg = PcChange
    BY DEF Call
  <2> HIDE DEF c
  <2>4. QED
    BY <1>2, <2>1, <2>2, <2>3 DEF Serves
<1>3. QED
  BY <1>1, <1>2

\* All purposes met: the switches are configured, but for those classifiers.
LEMMA AllMet ==
  ASSUME Base, \A c \in AnyCall : Met(c)
  PROVE  ConfiguredBut(refused)
<1>1. \A e \in End : LiveBut(e, refused)
  BY LiveEnd DEF AnyCall
<1>2. \A c \in VlanCall : Met(c)
  BY DEF AnyCall, PartCall
<1>3. ASSUME NEW sw \in ToSet(SWITCHES), NEW v \in ALL_VLANS
      PROVE  <<sw, v>> \in conf.flooding /\ <<sw, v>> \in conf.unlearned
  <2>1. Met(Call("flooding.set", sw, v, {})) /\ Met(Call("learn.set", sw, v, {}))
    BY DEF AnyCall, PartCall, FloodCall
  <2>2. QED
    BY <2>1 DEF Met, Call
<1>4. ASSUME NEW x \in RingSlot PROVE ~conf.stp[x]
  <2>1. Met(Call("cist.set", x[1], x[2], {})) /\ x = <<x[1], x[2]>>
    BY DEF AnyCall, PartCall, StpCall, RingSlot
  <2>2. conf.stp[<<x[1], x[2]>>] = FALSE
    BY <2>1 DEF Met, Call
  <2>3. QED
    BY <2>1, <2>2
<1>5. ASSUME NEW b \in Board, NEW d \in Direction
      PROVE  ServedBut(b, d, refused)
  <2>1. Carried(b, d) /\ FlowVlan(b, d) \in ALL_VLANS
    BY <1>2, RingCarries
  <2>2. Delivery(b, d) \in conf.fdb
    <3>1. \E sw : Call("fdb.add", sw, b, d) \in AnyCall
      BY DEF AnyCall, PartCall, FdbCall, Direction
    <3>2. PICK c : c \in AnyCall /\ c.method = "fdb.add" /\ c.on = b /\ c.arg = d
      BY <3>1 DEF Call
    <3>3. QED
      BY <3>2 DEF Met
  <2>3. ASSUME NEW x \in {<<"switch2", Port[b]>>, <<"switch1", PC_PORT_SW1>>}
        PROVE  FlowVlan(b, d) \in conf.vlan[x].vlans /\ conf.vlan[x].tagging = "untagAll"
    <3>1. PICK y \in VlanCall : Serves(y, x, b, d)
      BY EdgeCall
    <3>2. Met(y)
      BY <1>2
    <3>3. QED
      BY <3>1, <3>2 DEF Met, Serves
  <2>4. ToSet(SWITCHES) \X {FlowVlan(b, d)} \subseteq conf.flooding \cap conf.unlearned
    BY <1>3, <2>1
  <2>5. <<b, d, "gen">> \in End /\ <<b, d, "rec">> \in End
    BY DEF End, Direction
  <2>6. QED
    BY <1>1, <1>4, <2>1, <2>2, <2>3, <2>4, <2>5 DEF ServedBut
<1>6. QED
  BY <1>5 DEF ConfiguredBut, Direction

\* When every script's last run ended well the switches are configured: whatever is not met
\* is still ahead of some run, or one failed and was not repeated.
THEOREM SuccessIsConfigured == Spec => []SuccessMeansConfigured
<1>1. Base /\ Ahead => SuccessMeansConfigured
  <2> SUFFICES ASSUME Base, Ahead, \A s \in Scripts : result[s] \in {"ok", "none"}, runs > 0
               PROVE  ConfiguredBut(refused)
    BY DEF SuccessMeansConfigured
  <2>1. runs # 0 /\ \A s \in Scripts : pc[s] = 0 /\ result[s] # "failed"
    BY DEF Base, RunTypes
  <2>2. \A n \in 1..N : Met(main[n])
    BY <2>1 DEF Ahead, AheadInv
  <2>3. \A c \in AnyCall : \E n \in 1..N : main[n] = c
    BY MainCalls DEF ToSet, Paired, N
  <2>4. QED
    BY <2>2, <2>3, AllMet
<1>2. Spec => []Ahead
  BY BaseHolds, AheadInit, AheadStep, PTL DEF Spec
<1>3. QED
  BY <1>1, <1>2, BaseHolds, PTL

-----------------------------------------------------------------------------
(* How far each run came: H[r] is the call run r makes next or was broken off at, N + 1 once *)
(* it is through; q is the run script s is in.                                            *)

Passed(H, n) == \E r \in DOMAIN H : H[r] > n

\* A run is, or was broken off, between the detach and the end of the attach of d.
Between(H, d) ==
  /\ d.method = "attach"
  /\ \E r \in DOMAIN H : /\ H[r] \in 1..N
                         /\ \/ main[H[r]] = d
                            \/ main[H[r]].method = "detach" /\ Opens(main[H[r]], d)

\* What the runs came past is in place but for an attach some run is in the middle of, and
\* what is attached with the corrected key some run came to.
Traced(H) ==
  /\ \A n \in 1..N : Passed(H, n) => Met(main[n]) \/ Between(H, main[n])
  /\ \A n \in 1..N : main[n].method = "attach" /\ Keyed(main[n]) =>
       \E r \in DOMAIN H, k \in 1..N : main[k] = main[n] /\ k <= H[r]

Hist(H, R) ==
  /\ H \in [1..runs -> 1..(N+1)]
  /\ R \in [Scripts -> Nat]
  /\ \A s \in Scripts : pc[s] # 0 => R[s] \in 1..runs /\ H[R[s]] = pc[s]
  /\ \A s, t \in Scripts : pc[s] # 0 /\ pc[t] # 0 /\ R[s] = R[t] => s = t
  /\ Traced(H)

HistInv == \E H, R : Hist(H, R)

\* No classifier has the corrected key before the first run.
LEMMA HistInit == Init => HistInv
<1> SUFFICES ASSUME Init PROVE HistInv
  OBVIOUS
<1>1. PICK leftover \in Leftovers : conf = Shipped(leftover)
  BY DEF Init
<1>2. PICK H, R : H = [r \in 1..0 |-> 1] /\ R = [s \in Scripts |-> 0]
  OBVIOUS
<1>3. /\ runs = 0 /\ \A s \in Scripts : pc[s] = 0
      /\ H \in [1..runs -> 1..(N+1)] /\ R \in [Scripts -> Nat] /\ DOMAIN H = {}
  BY <1>2 DEF Init
<1>4. ASSUME NEW d PROVE ~Keyed(d)
  <2>1. conf.attached = UNION {{<<EndSwitch(e), p, e, "default">> : p \in ToSet(EndPorts(e))} :
                                 e \in leftover}
    BY <1>1 DEF Shipped
  <2>2. <<d.sw, d.on, d.arg, "dmac_dip">> \notin conf.attached
    BY <2>1
  <2>3. QED
    BY <2>2 DEF Keyed
<1>5. Hist(H, R)
  BY <1>3, <1>4 DEF Hist, Traced, Passed
<1>6. QED
  BY <1>5 DEF HistInv

\* Only an attach adds a classifier, its own; none of them is attached by a call that is refused.
LEMMA EffectNew ==
  ASSUME Base, NEW s \in Scripts, pc[s] # 0, NEW c, c = main[pc[s]], NEW got, got = read[s],
         Made(c, got) \/ Lost \/ Denied(c)
  PROVE  \A d \in AnyCall : d.method = "attach" /\ Keyed(d)' => Keyed(d) \/ c = d
<1> SUFFICES ASSUME NEW d \in AnyCall, d.method = "attach", ~Keyed(d), Keyed(d)' PROVE c = d
  OBVIOUS
<1>1. /\ <<d.sw, d.on, d.arg, "dmac_dip">> \in conf'.attached
      /\ <<d.sw, d.on, d.arg, "dmac_dip">> \notin conf.attached
  BY DEF Keyed
<1>2. conf' = Effect(c, conf, got) /\ c \in AnyCall
  BY <1>1, AttachFits, MainAt DEF Made, Lost, Denied
<1>3. CASE c.method = "attach"
  <2>1. conf'.attached = Attached(conf, c.sw, c.on, c.arg)
    BY <1>2, <1>3 DEF Effect
  <2>2. c.sw = d.sw /\ c.on = d.on /\ c.arg = d.arg
    BY <1>1, <2>1 DEF Attached
  <2>3. QED
    BY <1>2, <1>3, <2>2, SameCall
<1>4. CASE c.method # "attach"
  <2>1. conf'.attached \subseteq conf.attached
    BY <1>2, <1>4 DEF Effect
  <2>2. QED
    BY <1>1, <2>1
<1>5. QED
  BY <1>3, <1>4

\* A call moves its run on, or the run ends at it; G says how far the runs came after it.
LEMMA HistCall ==
  ASSUME Base, NEW s \in Scripts, pc[s] # 0, NEW c, c = main[pc[s]], NEW got, got = read[s],
         Made(c, got) \/ Lost \/ Denied(c),
         NEW H \in [1..runs -> 1..(N+1)], Traced(H),
         NEW q \in 1..runs, H[q] = pc[s],
         NEW x \in {pc[s], pc[s] + 1}, x = pc[s] \/ Made(c, got) \/ Denied(c),
         NEW G, G = [H EXCEPT ![q] = x]
  PROVE  Traced(G)'
<1>1. /\ pc[s] \in 1..N /\ c \in AnyCall /\ N \in Nat
      /\ DOMAIN H = 1..runs /\ DOMAIN G = 1..runs
      /\ G[q] = x /\ \A r \in 1..runs : r # q => G[r] = H[r]
      /\ \A r \in 1..runs : H[r] \in 1..(N+1) /\ G[r] \in 1..(N+1) /\ G[r] >= H[r]
  <2>1. pc[s] \in 1..N /\ c \in AnyCall /\ N \in Nat
    BY AttachFits, MainAt
  <2>2. DOMAIN H = 1..runs /\ DOMAIN G = 1..runs /\ \A r \in 1..runs : H[r] \in 1..(N+1)
    OBVIOUS
  <2>3. G[q] = x /\ \A r \in 1..runs : r # q => G[r] = H[r]
    OBVIOUS
  <2>4. \A r \in 1..runs : G[r] \in 1..(N+1) /\ G[r] >= H[r]
    BY <2>1, <2>2, <2>3
  <2>5. QED
    BY <2>1, <2>2, <2>3, <2>4
<1>2. /\ \A d \in AnyCall : Met(d) => Met(d)' \/ (c.method = "detach" /\ Opens(c, d))
      /\ Made(c, got) \/ Denied(c) => Met(c)'
      /\ \A d \in AnyCall : d.method = "attach" /\ Keyed(d)' => Keyed(d) \/ c = d
  BY ActKeeps, EffectNew
<1>3. ASSUME NEW d \in AnyCall, c.method = "detach", Opens(c, d)
      PROVE  Between(G, d)
  <2>1. d.method = "attach" /\ pc[s] < N /\ pc[s] + 1 \in 1..N /\ main[pc[s] + 1] = d
    BY <1>1, <1>3, DetachOpens
  <2>2. \/ x \in 1..N /\ main[x] = c
        \/ x \in 1..N /\ main[x] = d
    BY <1>1, <2>1
  <2>3. QED
    BY <1>1, <1>3, <2>1, <2>2 DEF Between
<1>4. ASSUME NEW n \in 1..N, Passed(G, n)
      PROVE  Met(main[n])' \/ Between(G, main[n])
  <2>1. PICK d : d = main[n] /\ d \in AnyCall
    BY MainAt
  <2>2. SUFFICES Met(d)' \/ Between(G, d)
    BY <2>1
  <2>3. CASE c.method = "detach" /\ Opens(c, d)
    BY <2>1, <2>3, <1>3
  <2>4. CASE ~(c.method = "detach" /\ Opens(c, d))
    <3>1. CASE Met(d)
      BY <1>2, <2>1, <2>4, <3>1
    <3>2. CASE ~Met(d) /\ Passed(H, n)
      <4>1. Between(H, d)
        BY <2>1, <3>2 DEF Traced
      <4>2. PICK r \in 1..runs : /\ H[r] \in 1..N
                                 /\ \/ main[H[r]] = d
                                    \/ main[H[r]].method = "detach" /\ Opens(main[H[r]], d)
        BY <4>1, <1>1 DEF Between
      <4>3. CASE r # q \/ x = pc[s]
        <5>1. G[r] = H[r]
          BY <4>3, <1>1
        <5>2. d.method = "attach"
          BY <4>1 DEF Between
        <5>3. QED
          BY <4>2, <5>1, <5>2, <1>1 DEF Between
      <4>4. CASE r = q /\ x = pc[s] + 1 /\ (Made(c, got) \/ Denied(c))
        <5>0. H[r] = pc[s] /\ main[H[r]] = c
          BY <4>4, <1>1
        <5>1. c = d
          <6>1. PICK y : y = main[H[r]]
            OBVIOUS
          <6>2. y = d \/ (y.method = "detach" /\ Opens(y, d))
            BY <4>2, <6>1
          <6>3. QED
            BY <5>0, <6>1, <6>2, <2>4
        <5>2. Met(c)'
          BY <4>4, <1>2
        <5>3. QED
          BY <5>1, <5>2
      <4>5. QED
        BY <4>3, <4>4
    <3>3. CASE ~Passed(H, n)
      <4>1. PICK r \in 1..runs : G[r] > n
        BY <1>1, <1>4 DEF Passed
      <4>2. ~(H[r] > n)
        BY <1>1, <3>3 DEF Passed
      <4>3. r = q /\ x = pc[s] + 1 /\ (Made(c, got) \/ Denied(c))
        BY <1>1, <4>1, <4>2
      <4>4. n = pc[s]
        BY <1>1, <4>1, <4>2, <4>3
      <4>5. Met(c)' /\ c = d
        BY <1>2, <2>1, <4>3, <4>4
      <4>6. QED
        BY <4>5
    <3>4. QED
      BY <3>1, <3>2, <3>3
  <2>5. QED
    BY <2>3, <2>4
<1>5. ASSUME NEW n \in 1..N, main[n].method = "attach", Keyed(main[n])'
      PROVE  \E r \in DOMAIN G, k \in 1..N : main[k] = main[n] /\ k <= G[r]
  <2>1. PICK d : d = main[n] /\ d \in AnyCall
    BY MainAt
  <2>2. Keyed(d)'
    BY <1>5, <2>1 DEF Keyed
  <2>3. CASE Keyed(d)
    <3>1. PICK r \in 1..runs, k \in 1..N : main[k] = main[n] /\ k <= H[r]
      BY <1>1, <1>5, <2>1, <2>3 DEF Traced
    <3>2. k <= G[r]
      BY <1>1, <3>1
    <3>3. QED
      BY <1>1, <3>1, <3>2
  <2>4. CASE ~Keyed(d)
    <3>1. c = d
      <4>1. d \in AnyCall /\ d.method = "attach" /\ c \in AnyCall
        BY <1>1, <1>5, <2>1
      <4>2. QED
        BY <4>1, <1>2, <2>2, <2>4
    <3>2. pc[s] <= x
      BY <1>1
    <3>3. QED
      BY <1>1, <2>1, <3>1, <3>2
  <2>5. QED
    BY <2>3, <2>4
<1>6. QED
  BY <1>4, <1>5 DEF Traced

\* HistInv is kept: a start adds a run at the first call.
LEMMA HistStep == Base /\ Ahead /\ HistInv /\ [Next]_vars => HistInv'
<1> SUFFICES ASSUME Base, Ahead, HistInv, [Next]_vars PROVE HistInv'
  OBVIOUS
<1>1. PICK H, R : Hist(H, R)
  BY DEF HistInv
<1>2. /\ pc \in [Scripts -> 0..N] /\ N \in Nat /\ N >= 1 /\ runs \in Nat
      /\ H \in [1..runs -> 1..(N+1)] /\ R \in [Scripts -> Nat] /\ DOMAIN H = 1..runs
      /\ \A t \in Scripts : pc[t] # 0 => R[t] \in 1..runs /\ H[R[t]] = pc[t]
      /\ \A t, u \in Scripts : pc[t] # 0 /\ pc[u] # 0 /\ R[t] = R[u] => t = u
  BY <1>1, MainAt DEF Base, RunTypes, Hist
<1>3. ASSUME NEW s \in Scripts, Start(s) PROVE HistInv'
  <2>1. /\ conf' = conf /\ refused' = refused
        /\ runs' = runs + 1 /\ pc' = [pc EXCEPT ![s] = 1]
    BY <1>3 DEF Start
  <2>2. PICK G, Q : /\ G = [r \in 1..(runs+1) |-> IF r = runs + 1 THEN 1 ELSE H[r]]
                    /\ Q = [R EXCEPT ![s] = runs + 1]
    OBVIOUS
  <2>3. /\ DOMAIN G = 1..runs' /\ G[runs + 1] = 1 /\ \A r \in 1..runs : G[r] = H[r]
        /\ runs + 1 \in 1..runs' /\ \A r \in 1..runs : r \in 1..runs' /\ r # runs + 1
        /\ \A r \in 1..runs' : r \in 1..runs \/ r = runs + 1
    BY <1>2, <2>1, <2>2
  <2>4. G \in [1..runs' -> 1..(N+1)]
    BY <1>2, <2>1, <2>2
  <2>5. Q \in [Scripts -> Nat] /\ Q[s] = runs + 1 /\ \A t \in Scripts : t # s => Q[t] = R[t]
    BY <1>2, <2>2
  <2>6. pc'[s] = 1 /\ \A t \in Scripts : t # s => pc'[t] = pc[t]
    BY <1>2, <2>1
  <2>7. \A t \in Scripts : pc'[t] # 0 => Q[t] \in 1..runs' /\ G[Q[t]] = pc'[t]
    <3>1. Q[s] \in 1..runs' /\ G[Q[s]] = pc'[s]
      BY <2>3, <2>5, <2>6
    <3>2. ASSUME NEW t \in Scripts, t # s, pc'[t] # 0
          PROVE  Q[t] \in 1..runs' /\ G[Q[t]] = pc'[t]
      BY <1>2, <2>3, <2>5, <2>6, <3>2
    <3>3. QED
      BY <3>1, <3>2
  <2>8. ASSUME NEW t \in Scripts, NEW u \in Scripts, pc'[t] # 0, pc'[u] # 0, Q[t] = Q[u]
        PROVE  t = u
    <3>1. CASE t # s /\ u # s
      BY <1>2, <2>5, <2>6, <2>8, <3>1
    <3>2. \A x \in Scripts : x # s /\ pc'[x] # 0 => Q[x] \in 1..runs
      BY <1>2, <2>5, <2>6
    <3>3. Q[s] \notin 1..runs
      BY <1>2, <2>5
    <3>4. QED
      BY <2>8, <3>1, <3>2, <3>3
  <2>9. \A d : (Met(d) => Met(d)') /\ (Keyed(d)' => Keyed(d))
    BY <2>1 DEF Met, Keyed, OldKey
  <2>10. ASSUME NEW n \in 1..N, Passed(G, n)
         PROVE  Met(main[n])' \/ Between(G, main[n])
    <3>1. PICK r \in 1..runs' : G[r] > n
      BY <2>3, <2>10 DEF Passed
    <3>2. r # runs + 1
      <4>1. G[runs + 1] = 1 /\ ~(1 > n)
        BY <1>2, <2>3
      <4>2. QED
        BY <3>1, <4>1
    <3>3. Passed(H, n)
      BY <1>2, <2>3, <3>1, <3>2 DEF Passed
    <3>4. Met(main[n]) \/ Between(H, main[n])
      BY <1>1, <3>3 DEF Hist, Traced
    <3>5. Between(H, main[n]) => Between(G, main[n])
      BY <1>2, <2>3 DEF Between
    <3>6. Met(main[n]) => Met(main[n])'
      BY <2>9
    <3>7. QED
      BY <3>4, <3>5, <3>6
  <2>11. ASSUME NEW n \in 1..N, main[n].method = "attach", Keyed(main[n])'
         PROVE  \E r \in DOMAIN G, k \in 1..N : main[k] = main[n] /\ k <= G[r]
    <3>1. Keyed(main[n])
      BY <2>9, <2>11
    <3>2. PICK r \in 1..runs, k \in 1..N : main[k] = main[n] /\ k <= H[r]
      BY <1>1, <1>2, <2>11, <3>1 DEF Hist, Traced
    <3>3. QED
      BY <2>3, <3>2
  <2>12. Hist(G, Q)'
    BY <2>4, <2>5, <2>7, <2>8, <2>10, <2>11 DEF Hist, Traced
  <2>13. QED
    BY <2>12 DEF HistInv
<1>4. ASSUME NEW s \in Scripts, Proceed(s) \/ Swallow(s) \/ Abort(s) PROVE HistInv'
  <2>1. PICK c, got : c = main[pc[s]] /\ got = read[s]
    OBVIOUS
  <2>2. /\ pc[s] # 0 /\ runs' = runs
        /\ Made(c, got) \/ Lost \/ Denied(c)
        /\ Proceed(s) \/ Swallow(s) => Made(c, got) \/ Denied(c)
    BY <1>4, <2>1 DEF Proceed, Swallow, Abort, Made, Lost, Denied
  <2>3. pc[s] \in 1..N
    BY <2>2, AttachFits
  <2>4. \A t \in Scripts : t # s => pc'[t] = pc[t]
    BY <1>2, <1>4, MainAt DEF Proceed, Swallow, GoOn, Abort, N
  <2>5. PICK G : /\ G = [H EXCEPT ![R[s]] = IF Proceed(s) \/ Swallow(s) THEN pc[s] + 1 ELSE pc[s]]
    OBVIOUS
  <2>6. /\ G \in [1..runs' -> 1..(N+1)] /\ DOMAIN G = 1..runs
        /\ \A r \in 1..runs : r # R[s] => G[r] = H[r]
        /\ G[R[s]] = IF Proceed(s) \/ Swallow(s) THEN pc[s] + 1 ELSE pc[s]
    BY <1>2, <2>2, <2>3, <2>5
  <2>7. pc'[s] # 0 => G[R[s]] = pc'[s]
    <3>1. CASE Proceed(s) \/ Swallow(s)
      BY <1>2, <2>6, <3>1 DEF Proceed, Swallow, GoOn
    <3>2. CASE Abort(s)
      BY <1>2, <3>2 DEF Abort
    <3>3. QED
      BY <1>4, <3>1, <3>2
  <2>8. \A t \in Scripts : pc'[t] # 0 => R[t] \in 1..runs' /\ G[R[t]] = pc'[t]
    BY <1>2, <2>2, <2>4, <2>6, <2>7
  <2>9. \A t, u \in Scripts : pc'[t] # 0 /\ pc'[u] # 0 /\ R[t] = R[u] => t = u
    BY <1>2, <2>2, <2>4
  <2>10. Traced(G)'
    <3>1. PICK q, x : q = R[s] /\ x = IF Proceed(s) \/ Swallow(s) THEN pc[s] + 1 ELSE pc[s]
      OBVIOUS
    <3>2. /\ q \in 1..runs /\ H[q] = pc[s] /\ x \in {pc[s], pc[s] + 1}
          /\ x = pc[s] \/ Made(c, got) \/ Denied(c)
          /\ G = [H EXCEPT ![q] = x]
          /\ Traced(H)
      BY <1>1, <1>2, <2>2, <2>5, <3>1 DEF Hist
    <3>3. /\ Base /\ s \in Scripts /\ pc[s] # 0 /\ c = main[pc[s]] /\ got = read[s]
          /\ Made(c, got) \/ Lost \/ Denied(c)
          /\ H \in [1..runs -> 1..(N+1)]
      BY <1>2, <2>1, <2>2
    <3>4. QED
      BY <3>2, <3>3, HistCall
  <2>11. Hist(G, R)'
    BY <1>2, <2>6, <2>8, <2>9, <2>10 DEF Hist
  <2>12. QED
    BY <2>11 DEF HistInv
<1>5. CASE UNCHANGED vars
  <2>1. conf' = conf /\ pc' = pc /\ runs' = runs /\ refused' = refused
    BY <1>5 DEF vars
  <2>2. \A d : (Met(d) => Met(d)') /\ (Keyed(d)' => Keyed(d))
    BY <2>1 DEF Met, Keyed, OldKey
  <2>3. Hist(H, R)'
    BY <1>1, <2>1, <2>2 DEF Hist, Traced
  <2>4. QED
    BY <2>3 DEF HistInv
<1>6. QED
  BY <1>3, <1>4, <1>5 DEF Next

\* How far the runs came accounts for what is in place.
THEOREM HistHolds == Spec => []HistInv
<1>1. Spec => []Ahead
  BY BaseHolds, AheadInit, AheadStep, PTL DEF Spec
<1>2. QED
  BY <1>1, BaseHolds, HistInit, HistStep, PTL DEF Spec

\* A flow nothing absorbs: some run is, or was broken off, within one of the attaches of its
\* recovery end, and another came further.
LEMMA Charged ==
  ASSUME Base, NEW H \in [1..runs -> 1..(N+1)], Traced(H), NEW f \in Unabsorbed
  PROVE  \E r, m \in 1..runs :
           /\ H[r] < H[m] /\ H[r] \in 1..N
           /\ EndOf(main[H[r]]) = <<f[1], f[2], "rec">>
<1> DEFINE gen == <<f[1], f[2], "gen">>
           rec == <<f[1], f[2], "rec">>
<1>1. /\ f[1] \in Board /\ f[2] \in Direction /\ f \in Board \X Direction
      /\ Live(gen) /\ ~(LiveBut(rec, refused) /\ Carried(f[1], f[2]))
  BY DEF Unabsorbed, Direction
<1>2. gen \in End /\ rec \in End
  BY <1>1 DEF End, Direction
<1>3. /\ DOMAIN H = 1..runs /\ \A r \in 1..runs : H[r] \in 1..(N+1)
      /\ N \in Nat /\ \A n \in 1..N : main[n] \in AnyCall
  BY MainAt
<1>4. \A c \in AnyCall : \E n \in 1..N : main[n] = c
  BY MainCalls DEF ToSet, Paired, N
<1>5. EndCall(gen) \subseteq AnyCall /\ EndCall(rec) \subseteq AnyCall /\ VlanCall \subseteq AnyCall
  BY <1>2 DEF AnyCall, PartCall
<1>6. PICK a \in EndCall(gen) : a.method = "attach" /\ Keyed(a)
  <2>1. PICK p : p \in ToSet(EndPorts(gen))
    <3>1. gen[3] = "gen"
      OBVIOUS
    <3> HIDE DEF gen
    <3>2. EndPorts(gen)[1] \in ToSet(EndPorts(gen))
      BY <3>1 DEF EndPorts, ToSet
    <3>3. QED
      BY <3>2
  <2> DEFINE x == Call("attach", EndSwitch(gen), p, gen)
  <2>2. x \in EndCall(gen) /\ x.method = "attach" /\ x.sw = EndSwitch(gen) /\ x.on = p /\ x.arg = gen
    BY <2>1 DEF EndCall, Call
  <2>3. <<EndSwitch(gen), p, gen, "dmac_dip">> \in conf.attached
    BY <1>1, <2>1 DEF Live, LiveBut
  <2> HIDE DEF x, gen
  <2>4. Keyed(x)
    BY <2>2, <2>3 DEF Keyed
  <2>5. QED
    BY <2>2, <2>4
<1> HIDE DEF gen, rec
<1>7. PICK m \in 1..runs, k \in 1..N : main[k] = a /\ k <= H[m]
  <2>1. PICK n \in 1..N : main[n] = a
    BY <1>4, <1>5, <1>6
  <2>2. \E m \in DOMAIN H, k \in 1..N : main[k] = main[n] /\ k <= H[m]
    BY <1>6, <2>1 DEF Traced
  <2>3. QED
    BY <1>3, <2>1, <2>2
<1>8. ASSUME NEW c, NEW n \in 1..N, main[n] = c, n < k
      PROVE  Met(c) \/ Between(H, c)
  <2>1. H[m] > n
    BY <1>3, <1>7, <1>8
  <2>2. Passed(H, n)
    BY <1>3, <1>7, <2>1 DEF Passed
  <2>3. QED
    BY <1>8, <2>2 DEF Traced
<1>9. Carried(f[1], f[2])
  <2>1. ASSUME NEW c \in VlanCall PROVE Met(c)
    <3>1. main[k].method \in FlowMethod
      BY <1>6, <1>7, CallServes
    <3>2. PICK n \in 1..N : n < k /\ main[n] = c
      BY <1>7, <3>1, MainCalls
    <3>3. c.method # "attach"
      BY CallServes DEF PartCall, FlowMethod
    <3>4. QED
      BY <1>8, <3>2, <3>3 DEF Between
  <2>2. QED
    BY <1>1, <2>1, RingCarries
<1>10. PICK c \in EndCall(rec) : ~Met(c)
  BY <1>1, <1>2, <1>9, LiveEnd
<1>11. ASSUME NEW n \in 1..N, main[n] \in EndCall(rec) PROVE n < k
  <2>1. main \in Ordered(f) /\ N = Len(main)
    BY <1>1, MainCalls DEF N
  <2>2. QED
    BY <1>6, <1>7, <1>11, <2>1 DEF Ordered, gen, rec
<1>12. Between(H, c)
  <2>1. PICK n \in 1..N : main[n] = c
    BY <1>4, <1>5
  <2>2. QED
    BY <1>8, <1>10, <1>11, <2>1
<1>13. PICK r \in 1..runs : /\ H[r] \in 1..N
                            /\ \/ main[H[r]] = c
                               \/ main[H[r]].method = "detach" /\ Opens(main[H[r]], c)
  BY <1>3, <1>12 DEF Between
<1>14. EndOf(c) = rec /\ c.method = "attach" /\ c \in AnyCall
  BY <1>5, <1>12, CallServes DEF Between
<1>15. EndOf(main[H[r]]) = rec /\ H[r] < k
  <2>1. PICK n : n = H[r] /\ n \in 1..N
    BY <1>13
  <2>2. CASE main[n] = c
    BY <1>11, <1>14, <2>1, <2>2
  <2>3. CASE main[n].method = "detach" /\ Opens(main[n], c)
    <3>1. n + 1 \in 1..N /\ main[n+1] = c
      BY <1>14, <2>1, <2>3, DetachOpens
    <3>2. n + 1 < k
      BY <1>11, <3>1
    <3>3. EndOf(main[n]) = c.arg /\ EndOf(c) = c.arg
      BY <1>14, <2>3 DEF Opens, EndOf, EndMethod
    <3>4. QED
      BY <1>3, <1>7, <1>14, <2>1, <3>2, <3>3
  <2>4. QED
    BY <1>13, <2>1, <2>2, <2>3
<1>16. H[r] < H[m]
  BY <1>3, <1>7, <1>13, <1>15
<1>17. QED
  BY <1>7, <1>13, <1>15, <1>16 DEF rec

\* As every run is in the middle of one attach at most, and the one that came furthest is
\* charged with nothing, there are fewer such flows than runs.
THEOREM UnabsorbedBounded == Spec => []UnabsorbedBound
<1>1. Base /\ HistInv => UnabsorbedBound
  <2> SUFFICES ASSUME Base, HistInv PROVE UnabsorbedBound
    OBVIOUS
  <2>1. PICK H, R : Hist(H, R)
    BY DEF HistInv
  <2>2. H \in [1..runs -> 1..(N+1)] /\ Traced(H) /\ runs \in Nat /\ N \in Nat
    BY <2>1, MainAt DEF Hist, Base, RunTypes
  <2> DEFINE Behind == {r \in 1..runs : \E m \in 1..runs : H[r] < H[m]}
             Charge(f, r) == r \in Behind /\ EndOf(main[H[r]]) = <<f[1], f[2], "rec">>
             charge == [f \in Unabsorbed |-> CHOOSE r : Charge(f, r)]
  <2>3. ASSUME NEW f \in Unabsorbed PROVE Charge(f, charge[f])
    <3>1. \E r : Charge(f, r)
      BY <2>2, Charged
    <3>2. charge[f] = CHOOSE r : Charge(f, r)
      OBVIOUS
    <3> HIDE DEF Charge, charge
    <3>3. QED
      BY <3>1, <3>2
  <2>4. charge \in Injection(Unabsorbed, Behind)
    <3>1. charge \in [Unabsorbed -> Behind]
      BY <2>3
    <3>2. ASSUME NEW f \in Unabsorbed, NEW g \in Unabsorbed, charge[f] = charge[g]
          PROVE  f = g
      <4>1. <<f[1], f[2], "rec">> = <<g[1], g[2], "rec">>
        <5>1. Charge(f, charge[f]) /\ Charge(g, charge[g])
          BY <2>3
        <5> HIDE DEF charge
        <5>2. QED
          BY <3>2, <5>1
      <4>2. f = <<f[1], f[2]>> /\ g = <<g[1], g[2]>>
        BY DEF Unabsorbed
      <4>3. QED
        BY <4>1, <4>2
    <3> HIDE DEF charge, Behind
    <3>3. QED
      BY <3>1, <3>2 DEF Injection, IsInjective
  <2>5. IsFiniteSet(1..runs) /\ Cardinality(1..runs) = runs
    BY <2>2, FS_Interval
  <2>6. CASE runs = 0
    <3>1. Behind \in SUBSET (1..runs) /\ 1..runs = {}
      BY <2>6
    <3> HIDE DEF Behind, charge
    <3>2. IsFiniteSet(Behind) /\ Cardinality(Behind) <= 0 /\ Cardinality(Behind) \in Nat
      BY <2>5, <2>6, <3>1, FS_Subset, FS_CardinalityType
    <3>3. Cardinality(Unabsorbed) <= Cardinality(Behind) /\ Cardinality(Unabsorbed) \in Nat
      BY <2>4, <3>2, FS_Injection, FS_CardinalityType
    <3>4. QED
      BY <2>6, <3>2, <3>3 DEF UnabsorbedBound
  <2>7. CASE runs # 0
    <3>1. PICK top \in 1..runs : \A r \in 1..runs : H[r] <= H[top]
      <4> DEFINE S == {(N + 1) - H[r] : r \in 1..runs}
      <4>1. \A r \in 1..runs : H[r] \in 1..(N+1)
        BY <2>2
      <4>2. S \in SUBSET Nat
        BY <2>2, <4>1
      <4>3. 1 \in 1..runs
        BY <2>2, <2>7
      <4>4. S # {}
        BY <4>3
      <4>5. PICK x \in S : \A y \in S : x <= y
        <5> HIDE DEF S
        <5>1. QED
          BY <4>2, <4>4, LeastExists
      <4>6. PICK top \in 1..runs : x = (N + 1) - H[top]
        BY <4>5
      <4>7. ASSUME NEW r \in 1..runs PROVE H[r] <= H[top]
        <5>1. (N + 1) - H[top] <= (N + 1) - H[r]
          BY <4>5, <4>6
        <5>2. QED
          BY <2>2, <4>1, <5>1
      <4>8. QED
        BY <4>7
    <3>2. \A r \in 1..runs : H[r] \in Int
      BY <2>2
    <3>3. Behind \in SUBSET ((1..runs) \ {top})
      BY <3>1, <3>2
    <3> HIDE DEF Behind, charge
    <3>4. IsFiniteSet((1..runs) \ {top}) /\ Cardinality((1..runs) \ {top}) = runs - 1
      BY <2>5, FS_RemoveElement
    <3>5. IsFiniteSet(Behind) /\ Cardinality(Behind) <= runs - 1 /\ Cardinality(Behind) \in Nat
      <4>1. IsFiniteSet(Behind) /\ Cardinality(Behind) <= Cardinality((1..runs) \ {top})
        BY <3>3, <3>4, FS_Subset
      <4>2. QED
        BY <3>4, <4>1, FS_CardinalityType
    <3>6. Cardinality(Unabsorbed) <= Cardinality(Behind) /\ Cardinality(Unabsorbed) \in Nat
      BY <2>4, <3>5, FS_Injection, FS_CardinalityType
    <3>7. QED
      BY <2>2, <2>7, <3>5, <3>6 DEF UnabsorbedBound
  <2>8. QED
    BY <2>6, <2>7
<1>2. QED
  BY <1>1, BaseHolds, HistHolds, PTL

-----------------------------------------------------------------------------
(* A flow in service. *)

\* An end stays live but for a detach of its own classifier.
LEMMA LiveKept ==
  ASSUME NEW c, NEW got, conf' = Effect(c, conf, got), NEW e, Live(e),
         ~(c.method = "detach" /\ c.arg = e)
  PROVE  Live(e)'
<1>1. conf.streams \subseteq conf'.streams /\ conf.instances \subseteq conf'.instances
  BY DEF Effect
<1>2. ASSUME NEW p, <<EndSwitch(e), p, e, "dmac_dip">> \in conf.attached
      PROVE  <<EndSwitch(e), p, e, "dmac_dip">> \in conf'.attached
  <2>1. CASE c.method = "detach"
    <3>1. conf'.attached = conf.attached \ {<<c.sw, c.on, c.arg, k>> : k \in {"default", "dmac_dip"}}
      BY <2>1 DEF Effect
    <3>2. QED
      BY <1>2, <2>1, <3>1
  <2>2. CASE c.method = "attach"
    <3>1. conf'.attached = Attached(conf, c.sw, c.on, c.arg)
      BY <2>2 DEF Effect
    <3>2. QED
      BY <1>2, <3>1 DEF Attached
  <2>3. CASE c.method \notin {"attach", "detach"}
    <3>1. conf'.attached = conf.attached
      BY <2>3 DEF Effect
    <3>2. QED
      BY <1>2, <3>1
  <2>4. QED
    BY <2>1, <2>2, <2>3
<1>3. e \in conf.streams /\ e \in conf.instances
  BY DEF Live, LiveBut
<1>4. \A p \in ToSet(EndPorts(e)) : <<EndSwitch(e), p, e, "dmac_dip">> \in conf.attached
  BY DEF Live, LiveBut
<1>5. QED
  BY <1>1, <1>2, <1>3, <1>4 DEF Live, LiveBut

\* A slot keeps a VLAN that its set_vlan adds, and the tagging: whatever a script read of the
\* slot before, what it writes back has both.
LEMMA VlanKept ==
  ASSUME ConfTypes, NEW c \in AnyCall, NEW got, conf' = Effect(c, conf, got),
         NEW d \in VlanCall, NEW v \in d.arg.add, NEW x \in Slot, x = <<d.sw, d.on>>,
         v \in conf.vlan[x].vlans, conf.vlan[x].tagging = d.arg.tagging
  PROVE  v \in conf'.vlan[x].vlans /\ conf'.vlan[x].tagging = d.arg.tagging
<1> DEFINE at == <<c.sw, c.on>>
<1>1. conf'.vlan = IF c.method = "vlan.set"
                   THEN [conf.vlan EXCEPT ![at] = Merged(CHOOSE old \in got : TRUE, c.arg)]
                   ELSE conf.vlan
  BY DEF Effect
<1>2. CASE c.method = "vlan.set" /\ at = x
  <2>1. CallFits(c)
    BY CallsFit
  <2>2. c.sw = d.sw /\ c.on = d.on /\ c \in VlanCall
    BY <1>2, <2>1 DEF CallFits
  <2>3. c.arg = d.arg
    BY <2>2, OneChange
  <2>4. conf'.vlan[x] = Merged(CHOOSE old \in got : TRUE, c.arg)
    BY <1>1, <1>2 DEF ConfTypes
  <2>5. QED
    BY <2>3, <2>4 DEF Merged
<1>3. CASE ~(c.method = "vlan.set" /\ at = x)
  <2> HIDE DEF at
  <2>1. conf'.vlan[x] = conf.vlan[x]
    BY <1>1, <1>3 DEF ConfTypes
  <2>2. QED
    BY <2>1
<1>4. QED
  BY <1>2, <1>3

\* A call leaves a flow in service, but for the detach of a classifier of its own.
LEMMA ServedKept ==
  ASSUME ConfTypes, NEW c \in AnyCall, NEW got, ReadFits(c, got), conf' = Effect(c, conf, got),
         NEW b \in Board, NEW d \in Direction, Served(b, d),
         ~(c.method = "detach" /\ c.arg \in {<<b, d, "gen">>, <<b, d, "rec">>})
  PROVE  Served(b, d)'
<1>1. Live(<<b, d, "gen">>)' /\ Live(<<b, d, "rec">>)'
  <2>1. Live(<<b, d, "gen">>) /\ Live(<<b, d, "rec">>)
    BY DEF Served, ServedBut, Live
  <2>2. QED
    BY <2>1, LiveKept
<1>2. Carried(b, d)'
  <2> SUFFICES ASSUME NEW x \in RingSlot
               PROVE  FlowVlan(b, d) \in conf'.vlan[x].vlans /\ conf'.vlan[x].tagging = "tagAll"
    BY DEF Carried
  <2>1. FlowVlan(b, d) \in conf.vlan[x].vlans /\ conf.vlan[x].tagging = "tagAll"
    BY DEF Served, ServedBut, Carried
  <2>2. FlowVlan(b, d) \in ALL_VLANS
    BY DEF FlowVlan, ALL_VLANS
  <2>3. PICK y : y = Call("vlan.set", x[1], x[2], RingChange)
    OBVIOUS
  <2>4. y \in VlanCall
    BY <2>3 DEF VlanCall
  <2>5. x = <<y.sw, y.on>> /\ y.arg = RingChange
    BY <2>3 DEF Call, RingSlot
  <2>6. FlowVlan(b, d) \in y.arg.add /\ y.arg.tagging = "tagAll"
    BY <2>2, <2>5 DEF RingChange, VlanChange
  <2>7. x \in Slot
    BY DEF Slot
  <2>8. QED
    BY <2>1, <2>4, <2>5, <2>6, <2>7, VlanKept
<1>3. ASSUME NEW x \in {<<"switch2", Port[b]>>, <<"switch1", PC_PORT_SW1>>}
      PROVE  FlowVlan(b, d) \in conf'.vlan[x].vlans /\ conf'.vlan[x].tagging = "untagAll"
  <2>1. FlowVlan(b, d) \in conf.vlan[x].vlans /\ conf.vlan[x].tagging = "untagAll"
    BY DEF Served, ServedBut
  <2>2. PICK y \in VlanCall : Serves(y, x, b, d)
    BY EdgeCall
  <2>3. x = <<y.sw, y.on>> /\ FlowVlan(b, d) \in y.arg.add /\ y.arg.tagging = "untagAll"
    BY <2>2 DEF Serves
  <2>4. x \in Slot
    BY DEF Slot, BoardSlot
  <2>5. QED
    BY <2>1, <2>2, <2>3, <2>4, VlanKept
<1>4. /\ Delivery(b, d) \in conf'.fdb
      /\ ToSet(SWITCHES) \X {FlowVlan(b, d)} \subseteq conf'.flooding \cap conf'.unlearned
  <2>1. /\ conf.fdb \subseteq conf'.fdb
        /\ conf.flooding \subseteq conf'.flooding
        /\ conf.unlearned \subseteq conf'.unlearned
    BY DEF Effect
  <2>2. /\ Delivery(b, d) \in conf.fdb
        /\ ToSet(SWITCHES) \X {FlowVlan(b, d)} \subseteq conf.flooding \cap conf.unlearned
    BY DEF Served, ServedBut
  <2>3. QED
    BY <2>1, <2>2
<1>5. ASSUME NEW x \in RingSlot PROVE ~conf'.stp[x]
  <2>1. ~conf.stp[x]
    BY DEF Served, ServedBut
  <2>2. conf'.stp = IF c.method = "cist.set" /\ got # {FALSE}
                    THEN [conf.stp EXCEPT ![<<c.sw, c.on>>] = FALSE] ELSE conf.stp
    BY DEF Effect
  <2>3. x \in DOMAIN conf.stp
    BY DEF ConfTypes
  <2>4. QED
    BY <2>1, <2>2, <2>3
<1>6. QED
  BY <1>1, <1>2, <1>3, <1>4, <1>5 DEF Served, ServedBut, Live

\* A classifier is attached with one key at a time, and nothing else is configured than what
\* the calls are about.
OneKey ==
  \A sw, p, e : ~ (/\ <<sw, p, e, "default">> \in conf.attached
                  /\ <<sw, p, e, "dmac_dip">> \in conf.attached)
Whole ==
  conf = [matching |-> conf.matching, vlan |-> conf.vlan, stp |-> conf.stp,
          flooding |-> conf.flooding, unlearned |-> conf.unlearned, streams |-> conf.streams,
          attached |-> conf.attached, instances |-> conf.instances, fdb |-> conf.fdb]

\* A script at an attach would attach with the right key.
KeyAhead == \A s \in Scripts : pc[s] # 0 => KeyFits(main[pc[s]])

\* The shipped classifiers, if any, have the default key.
LEMMA OneKeyInit == Init => OneKey /\ Whole
<1> SUFFICES ASSUME Init PROVE OneKey /\ Whole
  OBVIOUS
<1>1. PICK leftover \in Leftovers : conf = Shipped(leftover)
  BY DEF Init
<1>2. \A x \in conf.attached : x[4] = "default"
  BY <1>1 DEF Shipped
<1>3. OneKey
  <2>1. \A sw, p, e : <<sw, p, e, "dmac_dip">>[4] # "default"
    OBVIOUS
  <2>2. QED
    BY <1>2, <2>1 DEF OneKey
<1>4. Whole
  BY <1>1 DEF Shipped, Whole
<1>5. QED
  BY <1>3, <1>4

\* An attach adds a key only where there is none.
LEMMA OneKeyStep == OneKey /\ Whole /\ [Next]_vars => OneKey' /\ Whole'
<1> SUFFICES ASSUME OneKey, Whole, [Next]_vars PROVE OneKey' /\ Whole'
  OBVIOUS
<1>1. CASE conf' = conf
  BY <1>1 DEF OneKey, Whole
<1>2. ASSUME NEW c, NEW got, conf' = Effect(c, conf, got) PROVE OneKey' /\ Whole'
  <2>1. Whole'
    BY <1>2 DEF Effect, Whole
  <2>2. SUFFICES ASSUME NEW sw, NEW p, NEW e,
                        <<sw, p, e, "default">> \in conf'.attached,
                        <<sw, p, e, "dmac_dip">> \in conf'.attached
                 PROVE  FALSE
    BY <2>1 DEF OneKey
  <2>3. PICK old, new : old = <<sw, p, e, "default">> /\ new = <<sw, p, e, "dmac_dip">>
    OBVIOUS
  <2>4. ~ (old \in conf.attached /\ new \in conf.attached)
    BY <2>3 DEF OneKey
  <2>5. old \in conf'.attached /\ new \in conf'.attached /\ old # new
    BY <2>2, <2>3
  <2>6. ~ (conf'.attached \subseteq conf.attached)
    BY <2>4, <2>5
  <2>7. c.method = "attach"
    <3>1. c.method # "attach" => conf'.attached \subseteq conf.attached
      BY <1>2 DEF Effect
    <3>2. QED
      BY <2>6, <3>1
  <2>8. conf'.attached = Attached(conf, c.sw, c.on, c.arg)
    BY <1>2, <2>7 DEF Effect
  <2>9. PICK key : /\ conf'.attached = conf.attached \cup {<<c.sw, c.on, c.arg, key>>}
                   /\ \A k \in {"default", "dmac_dip"} : <<c.sw, c.on, c.arg, k>> \notin conf.attached
    BY <2>6, <2>8 DEF Attached
  <2>10. CASE old \in conf.attached
    <3>1. new = <<c.sw, c.on, c.arg, key>>
      BY <2>4, <2>5, <2>9, <2>10
    <3>2. old = <<c.sw, c.on, c.arg, "default">>
      BY <2>3, <3>1
    <3>3. QED
      BY <2>9, <2>10, <3>2
  <2>11. CASE new \in conf.attached
    <3>1. old = <<c.sw, c.on, c.arg, key>>
      BY <2>4, <2>5, <2>9, <2>11
    <3>2. new = <<c.sw, c.on, c.arg, "dmac_dip">>
      BY <2>3, <3>1
    <3>3. QED
      BY <2>9, <2>11, <3>2
  <2>12. CASE old \notin conf.attached /\ new \notin conf.attached
    BY <2>5, <2>9, <2>12
  <2>13. QED
    BY <2>10, <2>11, <2>12
<1>3. CASE Next
  <2>1. PICK s \in Scripts : Start(s) \/ Proceed(s) \/ Swallow(s) \/ Abort(s)
    BY <1>3 DEF Next
  <2>2. conf' = conf \/ conf' = Effect(main[pc[s]], conf, read[s])
    BY <2>1 DEF Start, Proceed, Swallow, Abort
  <2>3. QED
    BY <1>1, <1>2, <2>2
<1>4. QED
  BY <1>1, <1>3 DEF vars

\* What a detach takes out of service the attach after it puts back.
LEMMA AttachRestores ==
  ASSUME OneKey, Whole, NEW c, NEW got, c.method = "detach", conf' = Effect(c, conf, got),
         <<c.sw, c.on, c.arg, "dmac_dip">> \in conf.attached,
         NEW d, NEW ans, Opens(c, d), KeyFits(d)'
  PROVE  Effect(d, conf', ans) = conf
<1>1. d.method = "attach" /\ d.sw = c.sw /\ d.on = c.on /\ d.arg = c.arg
  BY DEF Opens
<1>2. /\ conf'.matching = conf.matching /\ conf'.vlan = conf.vlan /\ conf'.stp = conf.stp
      /\ conf'.flooding = conf.flooding /\ conf'.unlearned = conf.unlearned
      /\ conf'.streams = conf.streams /\ conf'.instances = conf.instances /\ conf'.fdb = conf.fdb
  BY DEF Effect
<1>3. conf'.attached = conf.attached \ {<<c.sw, c.on, c.arg, k>> : k \in {"default", "dmac_dip"}}
  BY DEF Effect
<1>4. conf'.attached = conf.attached \ {<<c.sw, c.on, c.arg, "dmac_dip">>}
  BY <1>3 DEF OneKey
<1>5. Attached(conf', c.sw, c.on, c.arg) = conf.attached
  <2>1. conf'.matching[<<c.sw, c.on>>] = "dmac_dip"
    BY <1>1 DEF KeyFits
  <2>2. ~ \E k \in {"default", "dmac_dip"} : <<c.sw, c.on, c.arg, k>> \in conf'.attached
    BY <1>3
  <2>3. Attached(conf', c.sw, c.on, c.arg) = conf'.attached \cup {<<c.sw, c.on, c.arg, "dmac_dip">>}
    BY <2>1, <2>2 DEF Attached
  <2>4. QED
    BY <1>4, <2>3
<1>6. Effect(d, conf', ans) =
        [matching |-> conf'.matching, vlan |-> conf'.vlan, stp |-> conf'.stp,
         flooding |-> conf'.flooding, unlearned |-> conf'.unlearned, streams |-> conf'.streams,
         attached |-> Attached(conf', c.sw, c.on, c.arg),
         instances |-> conf'.instances, fdb |-> conf'.fdb]
  BY <1>1 DEF Effect
<1>7. QED
  BY <1>2, <1>5, <1>6 DEF Whole

\* However runs overlap and wherever they break off, a flow in service loses nothing but its
\* own classifiers, one at a time: every set_vlan writes the same change to a port. A script
\* that is not broken off there puts the classifier back with its next call.
THEOREM ServiceIsKept == Spec => ServiceKept
<1> DEFINE Cut(b, d) ==
      \E s \in Scripts : /\ pc[s] # 0
                         /\ pc'[s] # pc[s]
                         /\ main[pc[s]].method = "detach"
                         /\ main[pc[s]].arg \in {<<b, d, "gen">>, <<b, d, "rec">>}
                         /\ pc'[s] # 0 => Effect(main[pc'[s]], conf', read'[s]) = conf
           Step == conf' # conf => \A b \in Board, d \in {"down", "up"} :
                     Served(b, d) /\ ~Served(b, d)' => Cut(b, d)
<1>1. Base /\ OneKey /\ Whole /\ KeyAhead' /\ [Next]_vars => [Step]_vars
  <2> SUFFICES ASSUME Base, OneKey, Whole, KeyAhead', [Next]_vars,
                      conf' # conf, NEW b \in Board, NEW d \in Direction,
                      Served(b, d), ~Served(b, d)'
               PROVE  Cut(b, d)
    BY DEF Direction
  <2>1. PICK s \in Scripts : Proceed(s) \/ Abort(s)
    BY DEF Next, vars, Start, Swallow
  <2>2. PICK c, got : c = main[pc[s]] /\ got = read[s]
    OBVIOUS
  <2>3. pc[s] # 0 /\ conf' = Effect(c, conf, got)
    BY <2>1, <2>2 DEF Proceed, Abort
  <2>4. pc[s] \in 1..N /\ c \in AnyCall /\ ReadFits(c, got) /\ ConfTypes
    BY <2>2, <2>3, AttachFits, MainAt DEF Base, ReadsFit
  <2>5. c.method = "detach" /\ c.arg \in {<<b, d, "gen">>, <<b, d, "rec">>}
    BY <2>3, <2>4, ServedKept
  <2>6. pc'[s] # pc[s]
    BY <2>1, <2>3, <2>4, MainAt DEF Base, RunTypes, Proceed, GoOn, Abort, N
  <2>7. ASSUME pc'[s] # 0 PROVE Effect(main[pc'[s]], conf', read'[s]) = conf
    <3>1. pc'[s] = pc[s] + 1
      BY <2>1, <2>3, <2>4, <2>7 DEF Base, RunTypes, Proceed, GoOn, Abort
    <3>2. Opens(c, main[pc'[s]])
      BY <2>2, <2>4, <2>5, <3>1, MainAt
    <3>3. <<c.sw, c.on, c.arg, "dmac_dip">> \in conf.attached
      <4>1. c.sw = EndSwitch(c.arg) /\ c.on \in ToSet(EndPorts(c.arg))
        BY <2>4, <2>5, CallsFit DEF CallFits
      <4>2. Live(c.arg)
        BY <2>5 DEF Served, ServedBut, Live
      <4>3. QED
        BY <4>1, <4>2 DEF Live, LiveBut
    <3>4. KeyFits(main[pc[s]])'
      BY <2>7 DEF KeyAhead
    <3>5. PICK e, ans : e = main[pc'[s]] /\ ans = read'[s]
      OBVIOUS
    <3>6. KeyFits(e)'
      BY <3>4, <3>5
    <3>7. Effect(e, conf', ans) = conf
      BY <2>3, <2>5, <3>2, <3>3, <3>5, <3>6, AttachRestores
    <3>8. QED
      BY <3>5, <3>7
  <2>8. QED
    BY <2>2, <2>3, <2>5, <2>6, <2>7
<1>2. Base => KeyAhead
  BY AttachFits DEF KeyAhead
<1>3. Spec => [](OneKey /\ Whole)
  BY OneKeyInit, OneKeyStep, PTL DEF Spec
<1>4. QED
  BY <1>1, <1>2, <1>3, BaseHolds, PTL DEF Spec, ServiceKept

=============================================================================
