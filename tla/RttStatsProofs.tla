---------------------------- MODULE RttStatsProofs ----------------------------
(***************************************************************************)
(* Proofs about RttStats: types (no field of the window goes below zero),  *)
(* no report without a sample, and consistent numbers in every report of a *)
(* window in which nothing overlapped, those its round trips have (count,  *)
(* sum, minimum, maximum and jitter, from the sequence of them), for any   *)
(* number of sessions, any set of round-trip times and any order of the    *)
(* accesses.                                                               *)
(***************************************************************************)
EXTENDS RttStats, SequenceTheorems, WellFoundedInduction, TLAPS

-----------------------------------------------------------------------------
(* What one RTT makes of a struct. *)

(* A struct of
   naturals stays one: pongHandler() only adds, takes minima and maxima, and
   stores a round trip that was found not to be negative. *)
LEMMA AfterIsNat ==
  ASSUME NEW s \in Stats, NEW r \in Nat, NEW f \in Field
  PROVE  After(s, r, f) \in Nat
<1>1. \A g \in Field : s[g] \in Nat
  BY DEF Stats
<1>2. s["count"] \in Nat /\ s["sum_us"] \in Nat /\ s["min_us"] \in Nat
      /\ s["max_us"] \in Nat /\ s["last_us"] \in Nat /\ s["jitter_sum_us"] \in Nat
  BY <1>1 DEF Field
<1>3. \A a, b \in Nat : Lesser(a, b) \in Nat /\ Greater(a, b) \in Nat /\ Distance(a, b) \in Nat
  BY DEF Lesser, Greater, Distance
<1> QED
  BY <1>2, <1>3 DEF Field, After

(* Multiplication by a count is monotonic. *)
LEMMA TimesMonotonic ==
  ASSUME NEW n \in Nat, NEW x \in Int, NEW y \in Int, x <= y
  PROVE  n * x <= n * y
<1>1. n * (y - x) \in Nat
  BY SMT
<1>2. n * (y - x) = n * y - n * x
  BY SMT
<1> QED
  BY <1>1, <1>2

(* A window that was consistent is consistent with one RTT more. *)
LEMMA AfterKeepsConsistent ==
  ASSUME NEW s \in Stats, NEW r \in Nat, r <= Int64Max, Consistent(s)
  PROVE  Consistent([f \in Field |-> After(s, r, f)])
<1> DEFINE u == [f \in Field |-> After(s, r, f)]
<1> DEFINE n == s["count"]
<1> DEFINE low == Lesser(s["min_us"], r)
<1> DEFINE high == Greater(s["max_us"], r)
<1>1. n \in Nat /\ s["sum_us"] \in Nat /\ s["min_us"] \in Nat
      /\ s["max_us"] \in Nat /\ s["last_us"] \in Nat /\ s["jitter_sum_us"] \in Nat
  BY DEF Stats, Field
<1>2. /\ u["count"] = n + 1
      /\ u["sum_us"] = s["sum_us"] + r
      /\ u["min_us"] = low
      /\ u["max_us"] = high
      /\ u["last_us"] = r
      /\ u["jitter_sum_us"] = IF n > 0 THEN s["jitter_sum_us"] + Distance(r, s["last_us"])
                              ELSE s["jitter_sum_us"]
  BY DEF Field, After
<1>3. /\ low \in Nat /\ low <= r /\ low <= s["min_us"]
      /\ high \in Nat /\ r <= high /\ s["max_us"] <= high
  BY <1>1 DEF Lesser, Greater
<1> HIDE DEF u, n, low, high
<1>4. n * low \in Int /\ n * high \in Int /\ (n + 1) * low = n * low + low
      /\ (n + 1) * high = n * high + high
  BY <1>1, <1>3
<1>5. CASE n = 0
  <2>1. s["sum_us"] = 0 /\ s["jitter_sum_us"] = 0 /\ s["min_us"] = Int64Max /\ s["max_us"] = 0
    BY <1>5 DEF Consistent, n
  <2>2. low = r /\ high = r
    BY <2>1, <1>1 DEF low, high, Lesser, Greater
  <2> QED
    BY <1>1, <1>2, <1>5, <2>1, <2>2 DEF Consistent, u
<1>6. CASE n > 0
  <2>1. /\ s["min_us"] <= s["last_us"] /\ s["last_us"] <= s["max_us"]
        /\ n * s["min_us"] <= s["sum_us"]
        /\ s["sum_us"] <= n * s["max_us"]
        /\ s["jitter_sum_us"] <= (n - 1) * (s["max_us"] - s["min_us"])
    BY <1>6 DEF Consistent, n
  <2>2. n * low <= n * s["min_us"] /\ n * s["max_us"] <= n * high
    BY <1>1, <1>3, TimesMonotonic
  <2>3. n * s["min_us"] \in Int /\ n * s["max_us"] \in Int
    BY <1>1
  <2>4. (n + 1) * low <= s["sum_us"] + r /\ s["sum_us"] + r <= (n + 1) * high
    BY <1>1, <1>3, <1>4, <2>1, <2>2, <2>3
  <2>5. Distance(r, s["last_us"]) \in Nat /\ Distance(r, s["last_us"]) <= high - low
    BY <1>1, <1>3, <2>1 DEF Distance
  <2>6. (n - 1) * (s["max_us"] - s["min_us"]) <= (n - 1) * (high - low)
    <3>1. n - 1 \in Nat
      BY <1>1, <1>6
    <3>2. s["max_us"] - s["min_us"] \in Int /\ high - low \in Int
          /\ s["max_us"] - s["min_us"] <= high - low
      BY <1>1, <1>3
    <3> QED
      BY <3>1, <3>2, TimesMonotonic
  <2>7. (n - 1) * (high - low) \in Int /\ (n - 1) * (s["max_us"] - s["min_us"]) \in Int
        /\ (n + 1 - 1) * (high - low) = (n - 1) * (high - low) + (high - low)
    BY <1>1, <1>3
  <2>8. u["jitter_sum_us"] <= (u["count"] - 1) * (u["max_us"] - u["min_us"])
        /\ 0 <= u["jitter_sum_us"]
    BY <1>1, <1>2, <1>3, <1>6, <2>1, <2>5, <2>6, <2>7
  <2> QED
    BY <1>1, <1>2, <1>3, <2>4, <2>8 DEF Consistent, u
<1> QED
  BY <1>1, <1>5, <1>6

(* The initial struct is consistent, and a struct of naturals. *)
LEMMA FreshFacts == FreshStats \in Stats /\ Consistent(FreshStats)
BY RttAssumption DEF FreshStats, Stats, Fresh, Field, Consistent

-----------------------------------------------------------------------------
(* Types. *)

(* The initial window has its types. *)
LEMMA TypeInit == Init => TypeOK
<1> SUFFICES ASSUME Init PROVE TypeOK
  OBVIOUS
<1>1. DOMAIN view = {} /\ view \in [{} -> Nat]
  BY DEF Init
<1>2. <<>> \in Seq(Nat)
  OBVIOUS
<1>3. rtt \in [Tasks -> Nat] /\ loaded \in [Tasks -> Stats] /\ stored \in [Tasks -> SUBSET Field]
  BY FreshFacts DEF Init
<1> QED
  BY FreshFacts, <1>1, <1>2, <1>3 DEF Init, TypeOK, Wanted

(* Every step keeps the types: an RTT that is taken in is not negative, and a
   struct of naturals stays one under any interleaving of stores. *)
LEMMA TypeStep ==
  ASSUME TypeOK, [Next]_vars
  PROVE  TypeOK'
<1> USE DEF TypeOK
<1>1. ASSUME NEW t \in Tasks, NEW r \in Rtts, PongBegins(t, r)
      PROVE  TypeOK'
  <2>1. r \in Nat
    BY <1>1, RttAssumption DEF PongBegins
  <2> QED
    BY <1>1, <2>1 DEF PongBegins, mainVars, Wanted
<1>2. ASSUME NEW t \in Tasks, NEW f \in Field, PongStores(t, f)
      PROVE  TypeOK'
  <2>1. PICK s \in {s_rtt, loaded[t]} : s_rtt' = [s_rtt EXCEPT ![f] = After(s, rtt[t], f)]
    BY <1>2 DEF PongStores
  <2>2. s \in Stats /\ rtt[t] \in Nat
    OBVIOUS
  <2>3. After(s, rtt[t], f) \in Nat
    BY <2>2, AfterIsNat
  <2>4. s_rtt' \in Stats
    BY <2>1, <2>3 DEF Stats
  <2>5. stored' \in [Tasks -> SUBSET Field]
    BY <1>2 DEF PongStores
  <2> QED
    BY <1>2, <2>4, <2>5 DEF PongStores, mainVars, historyVars, Wanted
<1>3. ASSUME NEW t \in Tasks, PongEnds(t)
      PROVE  TypeOK'
  <2>1. \A f \in Field : After(base, rtt[t], f) \in Nat
    BY AfterIsNat
  <2>2. base' \in Stats
    BY <1>3, <2>1 DEF PongEnds, Stats
  <2>3. samples' \in Seq(Nat)
    <3>1. samples \in Seq(Nat) /\ rtt[t] \in Nat
      OBVIOUS
    <3>2. samples' = samples \/ samples' = Append(samples, rtt[t])
      BY <1>3 DEF PongEnds
    <3>3. Append(samples, rtt[t]) \in Seq(Nat)
      BY <3>1, AppendProperties, Zenon
    <3> QED
      BY <3>1, <3>2, <3>3
  <2>4. loaded' \in [Tasks -> Stats]
    BY <1>3, FreshFacts DEF PongEnds
  <2>5. busy' \subseteq Tasks /\ rtt' \in [Tasks -> Nat] /\ stored' \in [Tasks -> SUBSET Field]
    BY <1>3 DEF PongEnds
  <2> QED
    BY <1>3, <2>2, <2>3, <2>4, <2>5 DEF PongEnds, mainVars, Wanted
<1>4. ASSUME NEW o \in {"start", "report", "diag"}, OpBegins(o)
      PROVE  TypeOK'
  BY <1>4 DEF OpBegins, handlerVars, Wanted
<1>5. ASSUME NEW f \in Field, OpReads(f)
      PROVE  TypeOK'
  <2>1. s_rtt[f] \in Nat
    BY DEF Stats
  <2>2. DOMAIN view' = DOMAIN view \cup {f}
    BY <1>5 DEF OpReads
  <2>3. view' \in [DOMAIN view' -> Nat]
    BY <1>5, <2>1, <2>2 DEF OpReads
  <2>4. DOMAIN view' \subseteq Wanted'
    BY <1>5, <2>2 DEF OpReads, Wanted
  <2> QED
    BY <1>5, <2>3, <2>4 DEF OpReads, handlerVars, historyVars
<1>6. ASSUME NEW f \in Field, OpClears(f)
      PROVE  TypeOK'
  <2>1. Reset(f) \in Nat
    <3>1. op = "report" => DOMAIN view = Field
      BY <1>6 DEF OpClears, Formatted, Wanted
    <3> QED
      BY <3>1, RttAssumption DEF Reset, Fresh, Field
  <2>2. s_rtt' \in Stats
    BY <1>6, <2>1 DEF OpClears, Stats
  <2> QED
    BY <1>6, <2>2 DEF OpClears, handlerVars, historyVars, Wanted
<1>7. CASE OpEnds
  <2>1. view' = [f \in {} |-> 0]
    BY <1>7 DEF OpEnds
  <2>2. DOMAIN view' = {} /\ view' \in [{} -> Nat]
    BY <2>1
  <2>3. clean' \in BOOLEAN /\ base' \in Stats
    BY <1>7 DEF OpEnds
  <2>4. samples' \in Seq(Nat)
    <3>1. <<>> \in Seq(Nat)
      OBVIOUS
    <3> QED
      BY <1>7, <3>1 DEF OpEnds
  <2> QED
    BY <1>7, <2>2, <2>3, <2>4 DEF OpEnds, handlerVars
<1>8. CASE UNCHANGED vars
  BY <1>8 DEF vars, handlerVars, mainVars, historyVars, Wanted
<1> QED
  BY <1>1, <1>2, <1>3, <1>4, <1>5, <1>6, <1>7, <1>8 DEF Next

-----------------------------------------------------------------------------
(* The window. *)

(* A reset of every field leaves a consistent struct: an empty one. *)
LEMMA ResetConsistent ==
  ASSUME s_rtt \in Stats, \A f \in Field : s_rtt[f] = Reset(f)
  PROVE  Consistent(s_rtt)
<1>1. s_rtt["count"] = 0 /\ s_rtt["sum_us"] = 0 /\ s_rtt["jitter_sum_us"] = 0
      /\ s_rtt["min_us"] = Int64Max /\ s_rtt["max_us"] = 0
  BY DEF Reset, Fresh, Field
<1> QED
  BY <1>1 DEF Consistent

(* Consistent() looks at the six fields only. *)
LEMMA ConsistentExtensional ==
  ASSUME NEW u, NEW v, \A f \in Field : u[f] = v[f], Consistent(u)
  PROVE  Consistent(v)
BY DEF Consistent, Field

(* The empty window satisfies the invariant. *)
LEMMA InitWindow == Init => WindowInv
<1> SUFFICES ASSUME Init PROVE WindowInv
  OBVIOUS
<1>1. TypeOK
  BY TypeInit
<1>2. HandlerLocals /\ SampleStays /\ QuietReset
  BY DEF Init, HandlerLocals, SampleStays, QuietReset
<1>3. CleanWindow
  BY FreshFacts DEF Init, CleanWindow, Resetting, FreshStats
<1> QED
  BY <1>1, <1>2, <1>3 DEF WindowInv, Init

(* pongHandler() passes its early returns. *)
LEMMA PongBeginsKeeps ==
  ASSUME WindowInv, TypeOK', NEW t \in Tasks, NEW r \in Rtts, PongBegins(t, r)
  PROVE  WindowInv'
<1> USE DEF WindowInv, PongBegins, mainVars
<1>1. HandlerLocals'
  BY RttAssumption DEF HandlerLocals, TypeOK
<1>2. SampleStays' /\ (cleared # {} => Resetting)'
  BY DEF SampleStays, Formatted, Wanted, Resetting
<1>3. QuietReset'
  BY DEF QuietReset
<1>4. CleanWindow'
  <2> SUFFICES ASSUME clean' PROVE CleanWindow'
    BY DEF CleanWindow
  <2>1. clean /\ busy = {} /\ ~Resetting
    BY DEF TypeOK, Resetting
  <2>2. \A f \in Field : s_rtt[f] = base[f]
    BY <2>1 DEF CleanWindow
  <2>3. s_rtt = base
    BY <2>2 DEF TypeOK, Stats
  <2>4. busy' = {t} /\ loaded'[t] = base /\ stored'[t] = {}
    BY <2>1, <2>3 DEF TypeOK
  <2>5. Consistent(base') /\ (op = "report" => \A f \in DOMAIN view : view[f] = base[f])
    BY <2>1 DEF CleanWindow
  <2> QED
    BY <2>1, <2>2, <2>4, <2>5 DEF CleanWindow, Resetting
<1> QED
  BY <1>1, <1>2, <1>3, <1>4

(* pongHandler() stores a field. *)
LEMMA PongStoresKeeps ==
  ASSUME WindowInv, TypeOK', NEW t \in Tasks, NEW f \in Field, PongStores(t, f)
  PROVE  WindowInv'
<1> USE DEF WindowInv, PongStores, mainVars, historyVars
<1>0. PICK s \in {s_rtt, loaded[t]} : s_rtt' = [s_rtt EXCEPT ![f] = After(s, rtt[t], f)]
  OBVIOUS
<1>1. HandlerLocals'
  BY DEF HandlerLocals, TypeOK
<1>2. SampleStays' /\ (cleared # {} => Resetting)'
  <2>1. After(s, rtt[t], "count") > 0
    <3>1. s \in Stats
      BY DEF TypeOK
    <3>2. s["count"] \in Nat
      BY <3>1 DEF Stats, Field
    <3> QED
      BY <3>2 DEF After
  <2>2. s_rtt["count"] > 0 => s_rtt'["count"] > 0
    BY <1>0, <2>1 DEF TypeOK, Stats, Field
  <2> QED
    BY <2>2 DEF SampleStays, Formatted, Wanted, Resetting
<1>3. QuietReset'
  BY DEF QuietReset
<1>4. CleanWindow'
  <2> SUFFICES ASSUME clean PROVE CleanWindow'
    BY DEF CleanWindow
  <2>1. busy = {t} /\ ~Resetting /\ loaded[t] = base
    BY DEF CleanWindow
  <2>2. \A g \in Field : s_rtt[g] = IF g \in stored[t] THEN After(base, rtt[t], g) ELSE base[g]
    BY <2>1 DEF CleanWindow
  <2>3. After(s, rtt[t], f) = After(base, rtt[t], f)
    <3>1. s_rtt[f] = base[f]
      BY <2>2
    <3>2. f = "jitter_sum_us" => s_rtt["count"] = base["count"] /\ s_rtt["last_us"] = base["last_us"]
      BY <2>1, <2>2 DEF HandlerLocals, Field
    <3> QED
      BY <2>1, <3>1, <3>2 DEF After, Field
  <2>4. \A g \in Field : s_rtt'[g] = IF g \in stored'[t] THEN After(base, rtt[t], g) ELSE base[g]
    BY <1>0, <2>2, <2>3 DEF TypeOK, Stats
  <2>5. Consistent(base) /\ (op = "report" => \A g \in DOMAIN view : view[g] = base[g])
    BY DEF CleanWindow
  <2> QED
    BY <2>1, <2>4, <2>5 DEF CleanWindow, Resetting
<1> QED
  BY <1>1, <1>2, <1>3, <1>4

(* pongHandler() returns. *)
LEMMA PongEndsKeeps ==
  ASSUME WindowInv, TypeOK', NEW t \in Tasks, PongEnds(t)
  PROVE  WindowInv'
<1> USE DEF WindowInv, PongEnds, mainVars
<1>1. HandlerLocals'
  BY DEF HandlerLocals, TypeOK
<1>2. SampleStays' /\ (cleared # {} => Resetting)'
  BY DEF SampleStays, Formatted, Wanted, Resetting
<1>3. QuietReset'
  BY DEF QuietReset
<1>4. CleanWindow'
  <2> SUFFICES ASSUME clean PROVE CleanWindow'
    BY DEF CleanWindow
  <2>1. busy = {t} /\ busy' = {} /\ ~Resetting
    BY DEF CleanWindow
  <2>2. base' = [f \in Field |-> After(base, rtt[t], f)]
    OBVIOUS
  <2>3. Consistent(base')
    <3>1. Consistent(base) /\ base \in Stats /\ rtt[t] \in Nat /\ rtt[t] <= Int64Max
      BY <2>1, RttAssumption DEF CleanWindow, HandlerLocals, TypeOK
    <3> QED
      BY <2>2, <3>1, AfterKeepsConsistent
  <2>4. \A f \in Field : s_rtt'[f] = base'[f]
    BY <2>1, <2>2 DEF CleanWindow
  <2>5. op' # "report"
    BY <2>1 DEF Resetting
  <2> QED
    BY <2>1, <2>3, <2>4, <2>5 DEF CleanWindow, Resetting
<1> QED
  BY <1>1, <1>2, <1>3, <1>4

(* The main task begins to use the window. *)
LEMMA OpBeginsKeeps ==
  ASSUME WindowInv, TypeOK', NEW o \in {"start", "report", "diag"}, OpBegins(o)
  PROVE  WindowInv'
<1> USE DEF WindowInv, OpBegins, handlerVars
<1>0. DOMAIN view = {} /\ cleared = {}
  BY DEF TypeOK, Wanted, Resetting
<1>1. HandlerLocals'
  BY DEF HandlerLocals
<1>2. SampleStays' /\ (cleared # {} => Resetting)'
  BY <1>0 DEF SampleStays
<1>3. QuietReset'
  BY <1>0 DEF QuietReset
<1>4. CleanWindow'
  <2> SUFFICES ASSUME clean' PROVE CleanWindow'
    BY DEF CleanWindow
  <2>1. clean /\ (Resetting' => busy = {})
    BY DEF Resetting, TypeOK
  <2> QED
    BY <1>0, <2>1 DEF CleanWindow, Resetting
<1> QED
  BY <1>1, <1>2, <1>3, <1>4

(* The main task loads a field. *)
LEMMA OpReadsKeeps ==
  ASSUME WindowInv, TypeOK', NEW f \in Field, OpReads(f)
  PROVE  WindowInv'
<1> USE DEF WindowInv, OpReads, handlerVars, historyVars
<1>0. /\ DOMAIN view' = DOMAIN view \cup {f}
      /\ view'[f] = s_rtt[f]
      /\ \A g \in DOMAIN view : view'[g] = view[g]
  OBVIOUS
<1>1. HandlerLocals'
  BY DEF HandlerLocals
<1>2. op = "report" => cleared = {}
  BY DEF SampleStays, Formatted
<1>3. SampleStays' /\ (cleared # {} => Resetting)'
  BY <1>0, <1>2 DEF SampleStays, Resetting
<1>4. op = "start" => FALSE
  BY DEF Wanted
<1>5. QuietReset'
  BY <1>2, <1>4 DEF QuietReset, Resetting
<1>6. CleanWindow'
  <2> SUFFICES ASSUME clean PROVE CleanWindow'
    BY DEF CleanWindow
  <2>1. op = "report" => s_rtt[f] = base[f]
    BY <1>2 DEF CleanWindow, Resetting
  <2>2. op = "report" => \A g \in DOMAIN view' : view'[g] = base[g]
    BY <1>0, <2>1 DEF CleanWindow
  <2>3. busy = {} => \A g \in Field : s_rtt[g] = base[g]
    BY <1>2, <1>4 DEF CleanWindow, Resetting
  <2> QED
    BY <1>2, <1>4, <2>2, <2>3 DEF CleanWindow, Resetting
<1> QED
  BY <1>1, <1>3, <1>5, <1>6

(* The main task resets a field. *)
LEMMA OpClearsKeeps ==
  ASSUME WindowInv, TypeOK', NEW f \in Field, OpClears(f)
  PROVE  WindowInv'
<1> USE DEF WindowInv, OpClears, handlerVars, historyVars
<1>0. \A g \in Field : Reset(g)' = Reset(g)
  BY DEF Reset
<1>1. HandlerLocals'
  BY DEF HandlerLocals
<1>2. SampleStays' /\ (cleared # {} => Resetting)'
  BY DEF SampleStays, Formatted, Wanted, Resetting, TypeOK, Stats
<1>3. \A g \in Field : s_rtt'[g] = IF g = f THEN Reset(f) ELSE s_rtt[g]
  BY DEF TypeOK, Stats
<1>4. QuietReset'
  BY <1>0, <1>3 DEF QuietReset, Resetting, TypeOK
<1>5. CleanWindow'
  <2> SUFFICES ASSUME clean PROVE CleanWindow'
    BY DEF CleanWindow
  <2>1. busy = {} /\ Resetting
    BY DEF CleanWindow, Resetting
  <2>2. \A g \in Field : s_rtt'[g] = IF g \in cleared' THEN Reset(g)' ELSE base[g]
    BY <1>0, <1>3, <2>1 DEF CleanWindow
  <2> QED
    BY <2>1, <2>2 DEF CleanWindow, Resetting
<1> QED
  BY <1>1, <1>2, <1>4, <1>5

(* The main task is done with the window. *)
LEMMA OpEndsKeeps ==
  ASSUME WindowInv, TypeOK', OpEnds
  PROVE  WindowInv'
<1> USE DEF WindowInv, OpEnds, handlerVars
<1>1. HandlerLocals'
  BY DEF HandlerLocals
<1>2. SampleStays' /\ QuietReset' /\ (cleared # {} => Resetting)'
  BY DEF SampleStays, QuietReset
<1>3. CASE op = "diag"
  BY <1>1, <1>2, <1>3 DEF CleanWindow, Resetting
<1>4. CASE op # "diag"
  <2> SUFFICES ASSUME clean' PROVE CleanWindow'
    BY <1>1, <1>2 DEF CleanWindow
  <2>1. Resetting /\ ~overlap /\ cleared = Field /\ base' = s_rtt
    BY <1>4 DEF TypeOK, Resetting
  <2>2. busy = {} /\ \A f \in Field : s_rtt[f] = Reset(f)
    BY <2>1 DEF QuietReset, Resetting
  <2>3. Consistent(base')
    BY <2>1, <2>2, ResetConsistent DEF TypeOK
  <2> QED
    BY <2>1, <2>2, <2>3 DEF CleanWindow, Resetting
<1> QED
  BY <1>1, <1>2, <1>3, <1>4

(* Every step keeps the invariant. *)
LEMMA StepWindow == WindowInv /\ [Next]_vars => WindowInv'
<1> SUFFICES ASSUME WindowInv, [Next]_vars PROVE WindowInv'
  OBVIOUS
<1>1. TypeOK'
  BY TypeStep DEF WindowInv
<1>2. CASE Next
  BY <1>1, <1>2, PongBeginsKeeps, PongStoresKeeps, PongEndsKeeps, OpBeginsKeeps,
     OpReadsKeeps, OpClearsKeeps, OpEndsKeeps DEF Next
<1>3. CASE UNCHANGED vars
  BY <1>1, <1>3 DEF vars, handlerVars, mainVars, historyVars, WindowInv, HandlerLocals,
     SampleStays, QuietReset, CleanWindow, Resetting, Reset, Formatted, Wanted
<1> QED
  BY <1>2, <1>3

-----------------------------------------------------------------------------
(* TypeOK holds: whatever pongs, reports and resets overlap, no field of s_rtt
   that pongHandler() computes, and none a report reads, is negative. *)
THEOREM WindowTypes == Spec => []TypeOK
<1>1. TypeOK /\ [Next]_vars => TypeOK'
  BY TypeStep
<1> QED
  BY TypeInit, <1>1, PTL DEF Spec

(* The inductive invariant of the window. *)
THEOREM WindowInvariant == Spec => []WindowInv
BY InitWindow, StepWindow, PTL DEF Spec

(* The 1 Hz report of zenohBridgeLoop() divides by a count above zero, however
   many sessions run pongHandler() at the same time and in whatever order the
   accesses come: it tests count first and is the only one to take it back. *)
THEOREM ReportsHaveSamples == Spec => []ReportHasSamples
<1>1. WindowInv => ReportHasSamples
  BY DEF WindowInv, SampleStays, ReportHasSamples, Reporting, Formatted, Wanted, Field
<1> QED
  BY WindowInvariant, <1>1, PTL

(* Without a lock the numbers of a report are consistent whenever no two accesses
   overlapped since the last reset: min <= mean <= max, jitter <= max - min. *)
THEOREM CleanReportsConsistent == Spec => []CleanReportConsistent
<1>1. WindowInv => CleanReportConsistent
  <2> SUFFICES ASSUME WindowInv, Reporting, clean, ~overlap PROVE Consistent(view)
    BY DEF CleanReportConsistent
  <2>1. \A f \in Field : base[f] = view[f]
    BY DEF WindowInv, CleanWindow, Reporting, Formatted, Wanted
  <2>2. Consistent(base)
    BY DEF WindowInv, CleanWindow
  <2> QED
    BY <2>1, <2>2, ConsistentExtensional
<1> QED
  BY WindowInvariant, <1>1, PTL
-----------------------------------------------------------------------------
(* The numbers of a line.  Sums over a sequence grow by one term when it   *)
(* grows by one element, which the least index at which they would not     *)
(* refutes.                                                                *)

\* part is the sums of the beginnings of w, as far as n.
SumsTo(part, w, n) == part = [k \in 0..n |-> IF k = 0 THEN 0 ELSE part[k - 1] + w[k]]

\* A window's numbers are those of the RTTs it took in, last_us their last.
Numbers(s, w) ==
  LET Values == {w[i] : i \in 1..Len(w)} IN
  /\ s["count"] = Len(w)
  /\ s["sum_us"] = Total(w)
  /\ s["jitter_sum_us"] = Total(Differences(w))
  /\ IsLeast(s["min_us"], Values \cup {Int64Max})
  /\ IsGreatest(s["max_us"], Values \cup {0})
  /\ w # <<>> => s["last_us"] = w[Len(w)]

NumbersInv == clean => Numbers(base, samples)

\* The diagnostic line reads base as well, as long as no handler comes by.
DiagInv == op = "diag" /\ clean /\ ~overlap => \A f \in DOMAIN view : view[f] = base[f]

LineInv == NumbersInv /\ DiagInv

\* A set of naturals that is not empty has a least element.
LEMMA LeastExists ==
  ASSUME NEW S \in SUBSET Nat, S # {}
  PROVE  \E i \in S : \A j \in S : i <= j
<1>1. PICK x \in S : \A y \in S : ~ (<<y, x>> \in OpToRel(<, Nat))
  BY NatLessThanWellFounded, WFMin
<1>2. \A y \in S : ~ (y < x)
  BY <1>1 DEF OpToRel
<1>3. QED
  BY <1>2

\* A sequence has sums of its beginnings.
LEMMA SumsExist ==
  ASSUME NEW w, NEW n \in Nat
  PROVE  \E part : SumsTo(part, w, n)
<1> DEFINE S == {k \in 0..n : ~ \E part : SumsTo(part, w, k)}
<1>1. SUFFICES ASSUME S # {} PROVE FALSE
  <2>1. n \notin S
    BY <1>1
  <2>2. QED
    BY <2>1
<1>2. PICK k \in S : \A j \in S : k <= j
  <2>1. S \in SUBSET Nat
    OBVIOUS
  <2> HIDE DEF S
  <2>2. QED
    BY <1>1, <2>1, LeastExists
<1>3. k \in Nat /\ k <= n /\ ~ \E part : SumsTo(part, w, k)
  BY <1>2
<1>4. CASE k = 0
  <2>1. SumsTo([j \in 0..0 |-> 0], w, 0)
    BY DEF SumsTo
  <2>2. QED
    BY <1>3, <1>4, <2>1
<1>5. CASE k # 0
  <2>1. k - 1 \in 0..n /\ k - 1 \notin S
    BY <1>2, <1>3, <1>5
  <2>2. PICK part : SumsTo(part, w, k - 1)
    BY <2>1
  <2>3. PICK more : more = [j \in 0..k |-> IF j = k THEN part[k - 1] + w[k] ELSE part[j]]
    OBVIOUS
  <2>4. part = [j \in 0..(k - 1) |-> IF j = 0 THEN 0 ELSE part[j - 1] + w[j]]
    BY <2>2 DEF SumsTo
  <2>5. ASSUME NEW j \in 0..k PROVE more[j] = IF j = 0 THEN 0 ELSE more[j - 1] + w[j]
    <3>1. CASE j = k
      <4>1. j - 1 \in 0..k /\ j - 1 # k /\ j # 0
        BY <1>3, <1>5, <3>1
      <4>2. more[j - 1] = part[j - 1]
        BY <2>3, <4>1
      <4>3. more[j] = part[k - 1] + w[k]
        BY <2>3, <3>1
      <4>4. QED
        BY <3>1, <4>1, <4>2, <4>3
    <3>2. CASE j # k /\ j # 0
      <4>1. j \in 0..(k - 1) /\ j - 1 \in 0..k /\ j - 1 # k
        BY <1>3, <3>2
      <4>2. more[j] = part[j] /\ more[j - 1] = part[j - 1]
        BY <2>3, <3>2, <4>1
      <4>3. part[j] = part[j - 1] + w[j]
        BY <2>4, <3>2, <4>1
      <4>4. QED
        BY <3>2, <4>2, <4>3
    <3>3. CASE j # k /\ j = 0
      <4>1. 0 \in 0..(k - 1)
        BY <1>3, <1>5
      <4>2. part[0] = 0
        BY <2>4, <4>1
      <4>3. QED
        BY <2>3, <3>3, <4>2
    <3>4. QED
      BY <3>1, <3>2, <3>3
  <2>6. more = [j \in 0..k |-> IF j = 0 THEN 0 ELSE more[j - 1] + w[j]]
    <3>1. more = [j \in 0..k |-> more[j]]
      BY <2>3
    <3>2. QED
      BY <2>5, <3>1
  <2>7. QED
    BY <1>3, <2>6 DEF SumsTo
<1>6. QED
  BY <1>4, <1>5

\* Total is the last of those sums.
LEMMA TotalIs ==
  ASSUME NEW w, Len(w) \in Nat
  PROVE  \E part : SumsTo(part, w, Len(w)) /\ Total(w) = part[Len(w)]
<1> DEFINE p == CHOOSE part : SumsTo(part, w, Len(w))
<1>1. SumsTo(p, w, Len(w))
  BY SumsExist
<1>2. Total(w) = p[Len(w)]
  BY DEF Total, SumsTo
<1>3. QED
  BY <1>1, <1>2

\* Nothing sums up to zero.
LEMMA TotalEmpty == ASSUME NEW w, Len(w) = 0 PROVE Total(w) = 0
<1>1. PICK part : SumsTo(part, w, Len(w)) /\ Total(w) = part[Len(w)]
  BY TotalIs
<1>2. QED
  BY <1>1 DEF SumsTo

\* One element more is one term more.
LEMMA TotalGrows ==
  ASSUME NEW w, NEW v, NEW n \in Nat, Len(w) = n, Len(v) = n + 1,
         \A i \in 1..n : v[i] = w[i]
  PROVE  Total(v) = Total(w) + v[n + 1]
<1>1. PICK p : SumsTo(p, w, n) /\ Total(w) = p[n]
  BY TotalIs
<1>2. PICK q : SumsTo(q, v, n + 1) /\ Total(v) = q[n + 1]
  BY TotalIs
<1>3. \A k \in 0..n : p[k] = IF k = 0 THEN 0 ELSE p[k - 1] + w[k]
  BY <1>1 DEF SumsTo
<1>4. \A k \in 0..(n + 1) : q[k] = IF k = 0 THEN 0 ELSE q[k - 1] + v[k]
  BY <1>2 DEF SumsTo
<1>5. p[n] = q[n]
  <2> DEFINE S == {k \in 0..n : p[k] # q[k]}
  <2>1. SUFFICES ASSUME S # {} PROVE FALSE
    <3>1. n \notin S
      BY <2>1
    <3>2. QED
      BY <3>1
  <2>2. PICK k \in S : \A j \in S : k <= j
    <3>1. S \in SUBSET Nat
      OBVIOUS
    <3> HIDE DEF S
    <3>2. QED
      BY <2>1, <3>1, LeastExists
  <2>3. k \in 0..n /\ p[k] # q[k] /\ k \in 0..(n + 1)
    BY <2>2
  <2>4. k # 0
    BY <1>3, <1>4, <2>3
  <2>5. k - 1 \in 0..n /\ ~(k <= k - 1)
    BY <2>3, <2>4
  <2>6. p[k - 1] = q[k - 1]
    BY <2>2, <2>5
  <2>7. k \in 1..n
    BY <2>3, <2>4
  <2>8. p[k] = p[k - 1] + w[k] /\ q[k] = q[k - 1] + v[k] /\ v[k] = w[k]
    BY <1>3, <1>4, <2>3, <2>4, <2>7
  <2>9. QED
    BY <2>3, <2>6, <2>8
<1>6. q[n + 1] = q[n] + v[n + 1]
  <2>1. n + 1 \in 0..(n + 1) /\ n + 1 # 0 /\ (n + 1) - 1 = n
    OBVIOUS
  <2>2. QED
    BY <1>4, <2>1
<1>7. QED
  BY <1>1, <1>2, <1>5, <1>6

\* The differences of a window with one RTT more: one more, to the RTT before it.
LEMMA DifferencesGrow ==
  ASSUME NEW w \in Seq(Nat), NEW r \in Nat
  PROVE  Total(Differences(Append(w, r)))
           = Total(Differences(w)) + (IF w = <<>> THEN 0 ELSE Distance(r, w[Len(w)]))
<1> DEFINE v == Append(w, r)
<1>1. /\ Len(w) \in Nat /\ Len(v) = Len(w) + 1 /\ v[Len(w) + 1] = r
      /\ \A i \in 1..Len(w) : v[i] = w[i]
  OBVIOUS
<1> HIDE DEF v
<1>2. PICK n \in Nat : n = Len(w)
  BY <1>1
<1>3. Differences(w) = [i \in 1..n |-> IF i = 1 THEN 0 ELSE Distance(w[i], w[i - 1])]
  BY <1>2 DEF Differences
<1>4. Differences(v) = [i \in 1..(n + 1) |-> IF i = 1 THEN 0 ELSE Distance(v[i], v[i - 1])]
  BY <1>1, <1>2 DEF Differences
<1>5. Len(Differences(w)) = n /\ Len(Differences(v)) = n + 1
  BY <1>2, <1>3, <1>4
<1>6. \A i \in 1..n : Differences(v)[i] = Differences(w)[i]
  <2>1. SUFFICES ASSUME NEW i \in 1..n PROVE Differences(v)[i] = Differences(w)[i]
    OBVIOUS
  <2>2. i \in 1..(n + 1) /\ (i # 1 => i - 1 \in 1..n)
    BY <1>2
  <2>3. v[i] = w[i] /\ (i # 1 => v[i - 1] = w[i - 1])
    BY <1>1, <1>2, <2>2
  <2>4. QED
    BY <1>3, <1>4, <2>2, <2>3
<1>7. Differences(v)[n + 1] = IF w = <<>> THEN 0 ELSE Distance(r, w[Len(w)])
  <2>1. n + 1 \in 1..(n + 1) /\ (n + 1) - 1 = n /\ (n + 1 = 1 <=> n = 0)
    BY <1>2
  <2>2. Differences(v)[n + 1] = IF n = 0 THEN 0 ELSE Distance(v[n + 1], v[n])
    BY <1>4, <2>1
  <2>3. w = <<>> <=> n = 0
    BY <1>2
  <2>4. n # 0 => v[n] = w[n]
    BY <1>1, <1>2
  <2>5. QED
    BY <1>1, <1>2, <2>2, <2>3, <2>4
<1>8. Total(Differences(v)) = Total(Differences(w)) + Differences(v)[n + 1]
  BY <1>2, <1>5, <1>6, TotalGrows
<1>9. QED
  BY <1>7, <1>8 DEF v

\* The numbers of an empty window.
LEMMA NumbersEmpty ==
  ASSUME NEW s, NEW w, w = <<>>, s["count"] = 0, s["sum_us"] = 0, s["jitter_sum_us"] = 0,
         s["min_us"] = Int64Max, s["max_us"] = 0
  PROVE  Numbers(s, w)
<1>1. Len(w) = 0 /\ 1..Len(w) = {}
  OBVIOUS
<1>2. Differences(w) = [i \in 1..0 |-> IF i = 1 THEN 0 ELSE Distance(w[i], w[i - 1])]
  BY <1>1 DEF Differences
<1>3. Len(Differences(w)) = 0
  BY <1>2
<1>4. Total(w) = 0 /\ Total(Differences(w)) = 0
  BY <1>1, <1>3, TotalEmpty
<1>5. {w[i] : i \in 1..Len(w)} = {}
  BY <1>1
<1>6. QED
  BY <1>1, <1>4, <1>5, RttAssumption DEF IsLeast, IsGreatest, RttAssumption, Numbers

\* A handler that takes in an RTT in one step keeps the numbers right.
LEMMA NumbersGrow ==
  ASSUME WindowInv, NumbersInv, clean, NEW r \in Nat,
         base' = [f \in Field |-> After(base, r, f)], samples' = Append(samples, r)
  PROVE  NumbersInv'
<1> DEFINE V == {samples[i] : i \in 1..Len(samples)}
<1>1. /\ samples \in Seq(Nat) /\ base \in Stats
  BY DEF WindowInv, TypeOK
<1>2. /\ base["count"] = Len(samples)
      /\ base["sum_us"] = Total(samples)
      /\ base["jitter_sum_us"] = Total(Differences(samples))
      /\ IsLeast(base["min_us"], V \cup {Int64Max})
      /\ IsGreatest(base["max_us"], V \cup {0})
      /\ (samples # <<>> => base["last_us"] = samples[Len(samples)])
  BY DEF NumbersInv, Numbers
<1>3. /\ base["count"] \in Nat /\ base["sum_us"] \in Nat /\ base["min_us"] \in Nat
      /\ base["max_us"] \in Nat /\ base["last_us"] \in Nat /\ base["jitter_sum_us"] \in Nat
  BY <1>1 DEF Stats, Field
<1>4. /\ base'["jitter_sum_us"] = IF base["count"] > 0
                                  THEN base["jitter_sum_us"] + Distance(r, base["last_us"])
                                  ELSE base["jitter_sum_us"]
      /\ base'["count"] = base["count"] + 1
      /\ base'["sum_us"] = base["sum_us"] + r
      /\ base'["min_us"] = Lesser(base["min_us"], r)
      /\ base'["max_us"] = Greater(base["max_us"], r)
      /\ base'["last_us"] = r
  BY DEF After, Field
<1>5. /\ Len(samples) \in Nat /\ Len(samples') = Len(samples) + 1
      /\ samples'[Len(samples) + 1] = r
      /\ \A i \in 1..Len(samples) : samples'[i] = samples[i]
  BY <1>1
<1>6. {samples'[i] : i \in 1..Len(samples')} = V \cup {r} /\ V \subseteq Nat
  <2>1. 1..Len(samples') = 1..Len(samples) \cup {Len(samples) + 1}
    BY <1>5
  <2>2. V \subseteq Nat
    BY <1>1
  <2>3. QED
    BY <1>5, <2>1, <2>2
<1>7. Total(samples') = Total(samples) + r
  <2> DEFINE n == Len(samples)
  <2>1. n \in Nat /\ Len(samples') = n + 1 /\ \A i \in 1..n : samples'[i] = samples[i]
    BY <1>5
  <2>2. Total(samples') = Total(samples) + samples'[n + 1]
    <3> HIDE DEF n
    <3>1. n = Len(samples)
      BY DEF n
    <3>2. QED
      BY <2>1, <3>1, TotalGrows
  <2>3. QED
    BY <1>5, <2>2
<1>8. Total(Differences(samples'))
        = Total(Differences(samples))
            + (IF samples = <<>> THEN 0 ELSE Distance(r, samples[Len(samples)]))
  BY <1>1, DifferencesGrow
<1>9. samples = <<>> <=> base["count"] = 0
  BY <1>1, <1>2
<1>10. base'["jitter_sum_us"] = Total(Differences(samples'))
  <2>1. CASE samples = <<>>
    BY <1>2, <1>3, <1>4, <1>8, <1>9, <2>1
  <2>2. CASE samples # <<>>
    BY <1>2, <1>3, <1>4, <1>8, <1>9, <2>2
  <2>3. QED
    BY <2>1, <2>2
<1> HIDE DEF V
<1>11. IsLeast(base'["min_us"], (V \cup {r}) \cup {Int64Max})
  <2>1. /\ base["min_us"] \in V \cup {Int64Max}
        /\ \A y \in V \cup {Int64Max} : base["min_us"] <= y /\ y \in Nat
    BY <1>2, <1>6, RttAssumption DEF IsLeast, RttAssumption
  <2>2. CASE base["min_us"] <= r
    <3>1. base'["min_us"] = base["min_us"]
      BY <1>4, <2>2 DEF Lesser
    <3>2. QED
      BY <2>1, <2>2, <3>1 DEF IsLeast
  <2>3. CASE ~(base["min_us"] <= r)
    <3>1. base'["min_us"] = r /\ r <= base["min_us"]
      BY <1>3, <1>4, <2>3 DEF Lesser
    <3>2. \A y \in V \cup {Int64Max} : r <= y
      BY <1>3, <2>1, <3>1
    <3>3. QED
      BY <3>1, <3>2 DEF IsLeast
  <2>4. QED
    BY <2>2, <2>3
<1>12. IsGreatest(base'["max_us"], (V \cup {r}) \cup {0})
  <2>1. /\ base["max_us"] \in V \cup {0}
        /\ \A y \in V \cup {0} : y <= base["max_us"] /\ y \in Nat
    BY <1>2, <1>6 DEF IsGreatest
  <2>2. CASE r <= base["max_us"]
    <3>1. base'["max_us"] = base["max_us"]
      BY <1>3, <1>4, <2>2 DEF Greater
    <3>2. QED
      BY <2>1, <2>2, <3>1 DEF IsGreatest
  <2>3. CASE ~(r <= base["max_us"])
    <3>1. base'["max_us"] = r /\ base["max_us"] <= r
      BY <1>3, <1>4, <2>3 DEF Greater
    <3>2. \A y \in V \cup {0} : y <= r
      BY <1>3, <2>1, <3>1
    <3>3. QED
      BY <3>1, <3>2 DEF IsGreatest
  <2>4. QED
    BY <2>2, <2>3
<1>13. samples'[Len(samples')] = r
  BY <1>5
<1>14. QED
  BY <1>2, <1>4, <1>5, <1>6, <1>7, <1>10, <1>11, <1>12, <1>13 DEF NumbersInv, Numbers

\* Every step keeps the numbers and what the diagnostic line has read.
LEMMA StepLine == ASSUME WindowInv, LineInv, [Next]_vars PROVE LineInv'
<1>0. NumbersInv /\ DiagInv /\ TypeOK /\ CleanWindow /\ QuietReset
  BY DEF LineInv, WindowInv
<1>1. ASSUME UNCHANGED <<base, samples>>, clean' => clean PROVE NumbersInv'
  BY <1>0, <1>1 DEF NumbersInv
<1>2. ASSUME NEW t \in Tasks, NEW r \in Rtts, PongBegins(t, r) PROVE LineInv'
  <2>1. NumbersInv'
    BY <1>0, <1>1, <1>2 DEF PongBegins, TypeOK
  <2>2. DiagInv'
    BY <1>2 DEF PongBegins, mainVars, DiagInv
  <2>3. QED
    BY <2>1, <2>2 DEF LineInv
<1>3. ASSUME NEW t \in Tasks, NEW f \in Field, PongStores(t, f) PROVE LineInv'
  <2>1. UNCHANGED <<clean, base, samples, op, overlap, view>>
    BY <1>3 DEF PongStores, mainVars, historyVars
  <2>2. QED
    BY <1>0, <1>1, <2>1 DEF LineInv, DiagInv
<1>4. ASSUME NEW t \in Tasks, PongEnds(t) PROVE LineInv'
  <2>1. /\ t \in busy /\ UNCHANGED <<op, view, overlap, clean>>
        /\ IF clean THEN /\ base' = [f \in Field |-> After(base, rtt[t], f)]
                         /\ samples' = Append(samples, rtt[t])
           ELSE UNCHANGED <<base, samples>>
    BY <1>4 DEF PongEnds, mainVars
  <2>2. NumbersInv'
    <3>1. rtt[t] \in Nat
      BY <1>0 DEF TypeOK
    <3>2. CASE clean
      BY <1>0, <2>1, <3>1, <3>2, NumbersGrow
    <3>3. CASE ~clean
      BY <2>1, <3>3 DEF NumbersInv
    <3>4. QED
      BY <3>2, <3>3
  <2>3. DiagInv'
    BY <1>0, <2>1 DEF DiagInv, QuietReset
  <2>4. QED
    BY <2>2, <2>3 DEF LineInv
<1>5. ASSUME NEW o \in {"start", "report", "diag"}, OpBegins(o) PROVE LineInv'
  <2>1. /\ op = "idle" /\ UNCHANGED <<view, base, samples>> /\ (clean' => clean)
    BY <1>0, <1>5 DEF OpBegins, TypeOK
  <2>2. DOMAIN view = {}
    BY <1>0, <2>1 DEF TypeOK, Wanted
  <2>3. QED
    BY <1>1, <2>1, <2>2 DEF LineInv, DiagInv
<1>6. ASSUME NEW f \in Field, OpReads(f) PROVE LineInv'
  <2>1. /\ UNCHANGED <<op, overlap, clean, base, samples, s_rtt>>
        /\ DOMAIN view' = DOMAIN view \cup {f} /\ view'[f] = s_rtt[f]
        /\ \A g \in DOMAIN view : g # f => view'[g] = view[g]
    BY <1>6 DEF OpReads, historyVars
  <2>2. ASSUME op = "diag", clean, ~overlap PROVE s_rtt[f] = base[f]
    BY <1>0, <2>2 DEF QuietReset, CleanWindow, Resetting
  <2>3. DiagInv'
    BY <1>0, <2>1, <2>2 DEF DiagInv
  <2>4. QED
    BY <1>0, <1>1, <2>1, <2>3 DEF LineInv
<1>7. ASSUME NEW f \in Field, OpClears(f) PROVE LineInv'
  <2>1. UNCHANGED <<clean, base, samples, op, overlap, view>>
    BY <1>7 DEF OpClears, historyVars
  <2>2. QED
    BY <1>0, <1>1, <2>1 DEF LineInv, DiagInv
<1>8. CASE OpEnds
  <2>1. DiagInv'
    BY <1>8 DEF OpEnds, DiagInv
  <2>2. CASE op = "diag"
    BY <1>1, <1>8, <2>1, <2>2 DEF OpEnds, LineInv
  <2>3. CASE op # "diag"
    <3>1. base' = s_rtt /\ samples' = <<>> /\ clean' = ~overlap /\ cleared = Field /\ Resetting
      BY <1>0, <1>8, <2>3 DEF OpEnds, Resetting, TypeOK
    <3>2. ASSUME clean' PROVE NumbersInv'
      <4>1. \A f \in Field : s_rtt[f] = Reset(f)
        BY <1>0, <3>1, <3>2 DEF QuietReset, Resetting
      <4>2. /\ base'["count"] = 0 /\ base'["sum_us"] = 0 /\ base'["jitter_sum_us"] = 0
            /\ base'["min_us"] = Int64Max /\ base'["max_us"] = 0
        BY <3>1, <4>1 DEF Reset, Fresh, Field
      <4>3. QED
        BY <3>1, <4>2, NumbersEmpty DEF NumbersInv
    <3>3. NumbersInv'
      BY <3>2 DEF NumbersInv
    <3>4. QED
      BY <2>1, <3>3 DEF LineInv
  <2>4. QED
    BY <2>2, <2>3
<1>9. CASE UNCHANGED vars
  <2>1. UNCHANGED <<clean, base, samples, op, overlap, view>>
    BY <1>9 DEF vars, mainVars, historyVars
  <2>2. QED
    BY <1>0, <1>1, <2>1 DEF LineInv, DiagInv
<1>10. QED
  BY <1>2, <1>3, <1>4, <1>5, <1>6, <1>7, <1>8, <1>9 DEF Next

\* At first the window is empty.
LEMMA InitLine == ASSUME Init PROVE LineInv
<1>1. base = FreshStats /\ samples = <<>> /\ op = "idle"
  BY DEF Init
<1>2. /\ base["count"] = 0 /\ base["sum_us"] = 0 /\ base["jitter_sum_us"] = 0
      /\ base["min_us"] = Int64Max /\ base["max_us"] = 0
  BY <1>1 DEF FreshStats, Fresh, Field
<1>3. NumbersInv
  BY <1>1, <1>2, NumbersEmpty DEF NumbersInv
<1>4. QED
  BY <1>1, <1>3 DEF LineInv, DiagInv

\* Among naturals there is one least, and one greatest.
LEMMA OnlyLeast ==
  ASSUME NEW S \in SUBSET Nat, NEW a, NEW b, IsLeast(a, S), IsLeast(b, S) PROVE a = b
<1>1. a \in Nat /\ b \in Nat /\ a <= b /\ b <= a
  BY DEF IsLeast
<1>2. QED
  BY <1>1

\* The same of the greatest.
LEMMA OnlyGreatest ==
  ASSUME NEW S \in SUBSET Nat, NEW a, NEW b, IsGreatest(a, S), IsGreatest(b, S) PROVE a = b
<1>1. a \in Nat /\ b \in Nat /\ a <= b /\ b <= a
  BY DEF IsGreatest
<1>2. QED
  BY <1>1

\* While the window is clean, base has the numbers of the RTTs taken in since the last reset.
THEOREM LineInvariant == Spec => []LineInv
<1>1. Init => LineInv
  BY InitLine
<1>2. WindowInv /\ LineInv /\ [Next]_vars => LineInv'
  BY StepLine
<1>3. QED
  BY <1>1, <1>2, WindowInvariant, PTL DEF Spec

\* What is loaded of a window with the right numbers are those numbers.
LEMMA LineExact == ASSUME WindowInv, LineInv PROVE CleanLineExact
<1>1. SUFFICES ASSUME Formatted, clean, ~overlap, NEW f \in DOMAIN view \ {"last_us"}
               PROVE  view[f] = StatsOf(samples, f)
  BY DEF CleanLineExact
<1> DEFINE V == {samples[i] : i \in 1..Len(samples)}
<1>2. f \in Field \ {"last_us"} /\ op \in {"report", "diag"}
  <2>1. DOMAIN view \subseteq Wanted /\ op \in {"idle", "start", "report", "diag"}
    BY DEF WindowInv, TypeOK
  <2>2. f \in Wanted /\ f # "last_us"
    BY <1>1, <2>1
  <2>3. op \in {"report", "diag"}
    BY <2>1, <2>2 DEF Wanted
  <2>4. Wanted \subseteq Field
    BY <2>3 DEF Wanted, Field
  <2>5. QED
    BY <2>2, <2>3, <2>4
<1>3. view[f] = base[f]
  BY <1>1, <1>2 DEF WindowInv, CleanWindow, LineInv, DiagInv
<1>4. /\ base["count"] = Len(samples)
      /\ base["sum_us"] = Total(samples)
      /\ base["jitter_sum_us"] = Total(Differences(samples))
      /\ IsLeast(base["min_us"], V \cup {Int64Max})
      /\ IsGreatest(base["max_us"], V \cup {0})
  BY <1>1 DEF LineInv, NumbersInv, Numbers
<1>5. V \cup {Int64Max} \subseteq Nat /\ V \cup {0} \subseteq Nat
  BY RttAssumption DEF WindowInv, TypeOK, RttAssumption
<1> HIDE DEF V
<1>6. base["min_us"] = CHOOSE x \in V \cup {Int64Max} : IsLeast(x, V \cup {Int64Max})
  <2>1. \A x : IsLeast(x, V \cup {Int64Max}) => x = base["min_us"]
    BY <1>4, <1>5, OnlyLeast
  <2>2. base["min_us"] \in V \cup {Int64Max}
    BY <1>4 DEF IsLeast
  <2>3. QED
    BY <1>4, <2>1, <2>2
<1>7. base["max_us"] = CHOOSE x \in V \cup {0} : IsGreatest(x, V \cup {0})
  <2>1. \A x : IsGreatest(x, V \cup {0}) => x = base["max_us"]
    BY <1>4, <1>5, OnlyGreatest
  <2>2. base["max_us"] \in V \cup {0}
    BY <1>4 DEF IsGreatest
  <2>3. QED
    BY <1>4, <2>1, <2>2
<1>8. CASE f = "min_us"
  BY <1>3, <1>6, <1>8 DEF StatsOf, V
<1>9. CASE f = "max_us"
  BY <1>3, <1>7, <1>9 DEF StatsOf, V
<1>10. CASE f = "count"
  BY <1>3, <1>4, <1>10 DEF StatsOf
<1>11. CASE f = "sum_us"
  BY <1>3, <1>4, <1>11 DEF StatsOf
<1>12. CASE f = "jitter_sum_us"
  BY <1>3, <1>4, <1>12 DEF StatsOf
<1>13. QED
  BY <1>2, <1>8, <1>9, <1>10, <1>11, <1>12 DEF Field

\* A line of zenohBridgeLoop() that no pongHandler() overlapped, in a window where nothing
\* overlapped, says exactly what the round trips since the last reset say: their number, sum,
\* least, greatest, and the sum of the differences of consecutive ones.
THEOREM CleanLinesExact == Spec => []CleanLineExact
BY LineExact, WindowInvariant, LineInvariant, PTL

-----------------------------------------------------------------------------
(* The window as RttWindow promises it.  Each lemma says which step of     *)
(* RttWindow a step is, if any.                                            *)

\* Both modules take the numbers of a line from the same definitions.
LEMMA SameStats ==
  ASSUME NEW w, NEW f PROVE Window!StatsOf(w, f) = StatsOf(w, f)
BY DEF Window!StatsOf, StatsOf, Window!Total, Total, Window!Differences, Differences,
       Window!Distance, Distance, Window!IsLeast, IsLeast, Window!IsGreatest, IsGreatest

\* What does not touch the window or what was read of it is no step of RttWindow.
LEMMA Untouched ==
  ASSUME UNCHANGED <<op, view, clean, overlap, samples>>
  PROVE  UNCHANGED Window!vars
BY DEF Window!vars, Held, Shown, Formatted, Wanted

\* No line stands before anything is loaded, in a torn window, or past a handler.
LEMMA NothingShown ==
  ASSUME DOMAIN view = {} \/ ~clean \/ overlap \/ ~Formatted
  PROVE  Shown = Window!NoLine
BY DEF Shown, Window!NoLine

\* A line that stands shows what its use of s_rtt prints.
LEMMA ShownFields ==
  ASSUME TypeOK
  PROVE  /\ op = "diag" /\ Formatted /\ clean /\ ~overlap => DOMAIN Shown = Window!DiagShows
         /\ op # "diag" => DOMAIN Shown # Window!DiagShows
<1>1. CASE op = "diag"
  <2>1. ASSUME Formatted, clean, ~overlap PROVE DOMAIN Shown = Window!DiagShows
    <3>1. DOMAIN view = Window!DiagShows
      BY <1>1, <2>1 DEF Formatted, Wanted, Window!DiagShows
    <3>2. DOMAIN Shown = DOMAIN view \ {"last_us"}
      BY <2>1 DEF Shown
    <3>3. QED
      BY <3>1, <3>2 DEF Window!DiagShows
  <2>2. QED
    BY <1>1, <2>1
<1>2. CASE op # "diag"
  <2>1. DOMAIN view = {} \/ op = "report"
    BY <1>2 DEF TypeOK, Wanted
  <2>2. Formatted /\ op = "report" => "max_us" \in DOMAIN view \ {"last_us"}
    BY DEF Formatted, Wanted, Field
  <2>3. DOMAIN Shown = {} \/ "max_us" \in DOMAIN Shown
    BY <2>1, <2>2 DEF Shown
  <2>4. "max_us" \notin Window!DiagShows /\ "count" \in Window!DiagShows
    BY DEF Window!DiagShows
  <2>5. QED
    BY <1>2, <2>3, <2>4
<1>3. QED
  BY <1>1, <1>2

\* A pong that begins tears the window when it overlaps, and otherwise ends a diagnostic
\* line at most.
LEMMA PongBeginsIs ==
  ASSUME WindowInv, NEW t \in Tasks, NEW r \in Rtts, PongBegins(t, r)
  PROVE  Window!Tear \/ Window!DiagEnds \/ UNCHANGED Window!vars
<1>1. /\ overlap' = (overlap \/ op # "idle")
      /\ clean' = (clean /\ busy = {} /\ op \notin {"start", "report"})
      /\ UNCHANGED <<op, view, samples>>
      /\ TypeOK
  BY DEF PongBegins, mainVars, WindowInv
<1>2. CASE ~clean'
  <2>1. Shown' = Window!NoLine /\ Held' = <<>> /\ (~clean)' = TRUE
    BY <1>2 DEF Shown, Window!NoLine, Held
  <2>2. QED
    BY <2>1 DEF Window!Tear
<1>3. CASE clean'
  <2>1. clean /\ op \in {"idle", "diag"} /\ Held' = Held /\ UNCHANGED clean
    BY <1>1, <1>3 DEF TypeOK, Held
  <2>2. CASE op = "idle"
    <3>1. DOMAIN view = {} /\ DOMAIN view' = {}
      BY <1>1, <2>2 DEF TypeOK, Wanted
    <3>2. Shown = Window!NoLine /\ Shown' = Window!NoLine
      BY <3>1 DEF Shown, Window!NoLine
    <3>3. QED
      BY <2>1, <3>2 DEF Window!vars
  <2>3. CASE op = "diag"
    <3>1. Shown' = Window!NoLine
      BY <1>1, <2>3 DEF Shown, Window!NoLine
    <3>2. CASE Formatted /\ ~overlap
      <4>1. DOMAIN Shown = Window!DiagShows
        BY <1>1, <2>1, <2>3, <3>2, ShownFields
      <4>2. QED
        BY <2>1, <3>1, <4>1 DEF Window!DiagEnds
    <3>3. CASE ~Formatted \/ overlap
      <4>1. Shown = Window!NoLine
        BY <3>3, NothingShown
      <4>2. QED
        BY <2>1, <3>1, <4>1 DEF Window!vars
    <3>4. QED
      BY <1>1, <3>2, <3>3 DEF TypeOK
  <2>4. QED
    BY <2>1, <2>2, <2>3
<1>4. QED
  BY <1>2, <1>3

\* A pong counts where its handler returns.
LEMMA PongEndsIs ==
  ASSUME WindowInv, NEW t \in Tasks, PongEnds(t)
  PROVE  (\E r \in Rtts : Window!Pong(r)) \/ UNCHANGED Window!vars
<1>1. /\ t \in busy /\ UNCHANGED <<op, view, overlap, clean>>
      /\ IF clean THEN samples' = Append(samples, rtt[t]) ELSE UNCHANGED samples
      /\ TypeOK /\ QuietReset
  BY DEF PongEnds, mainVars, WindowInv
<1>2. Shown' = Shown
  BY <1>1 DEF Shown, Formatted, Wanted
<1>3. CASE clean
  <2>1. rtt[t] \in Rtts /\ rtt[t] >= 0
    BY <1>1 DEF WindowInv, HandlerLocals, TypeOK
  <2>2. Held' = Append(Held, rtt[t])
    BY <1>1, <1>3 DEF Held
  <2>3. Shown = Window!NoLine
    <3>1. op = "idle" => DOMAIN view = {}
      BY <1>1 DEF TypeOK, Wanted
    <3>2. op # "idle" => overlap
      BY <1>1 DEF QuietReset
    <3>3. QED
      BY <3>1, <3>2, NothingShown
  <2>4. Window!Pong(rtt[t])
    BY <1>1, <1>2, <1>3, <2>1, <2>2, <2>3 DEF Window!Pong
  <2>5. QED
    BY <2>1, <2>4
<1>4. CASE ~clean
  BY <1>1, <1>2, <1>4 DEF Window!vars, Held
<1>5. QED
  BY <1>3, <1>4

\* To begin with the window is no step, unless a handler is under way that a reset will
\* overlap.
LEMMA OpBeginsIs ==
  ASSUME WindowInv, NEW o \in {"start", "report", "diag"}, OpBegins(o)
  PROVE  Window!Tear \/ UNCHANGED Window!vars
<1>1. DOMAIN view = {} /\ UNCHANGED <<view, samples>> /\ clean \in BOOLEAN /\ (clean' => clean)
  BY DEF OpBegins, WindowInv, TypeOK, Wanted
<1>2. Shown = Window!NoLine /\ Shown' = Window!NoLine
  BY <1>1 DEF Shown, Window!NoLine
<1>3. CASE clean'
  BY <1>1, <1>2, <1>3 DEF Window!vars, Held
<1>4. CASE ~clean'
  BY <1>2, <1>4 DEF Window!Tear, Held
<1>5. QED
  BY <1>3, <1>4

\* The last load makes the line.
LEMMA OpReadsIs ==
  ASSUME WindowInv, TypeOK', CleanLineExact', ReportHasSamples', NEW f \in Field, OpReads(f)
  PROVE  Window!Report \/ Window!Diag \/ UNCHANGED Window!vars
<1>1. /\ f \in Wanted \ DOMAIN view
      /\ UNCHANGED <<op, clean, overlap, samples>>
      /\ samples \in Seq(Nat) /\ op \in {"idle", "start", "report", "diag"}
  BY DEF OpReads, historyVars, WindowInv, TypeOK
<1>2. Shown = Window!NoLine
  BY <1>1, NothingShown DEF Formatted
<1>3. CASE ~(Formatted' /\ clean /\ ~overlap)
  <2>1. Shown' = Window!NoLine
    BY <1>1, <1>3 DEF Shown, Window!NoLine
  <2>2. QED
    BY <1>1, <1>2, <2>1 DEF Window!vars, Held
<1>4. CASE Formatted' /\ clean /\ ~overlap
  <2> DEFINE D == DOMAIN view' \ {"last_us"}
  <2>1. Shown' = [g \in D |-> view'[g]]
    BY <1>1, <1>4 DEF Shown
  <2>2. \A g \in D : view'[g] = Window!StatsOf(Held, g)
    <3>1. \A g \in D : view'[g] = StatsOf(samples, g)
      BY <1>1, <1>4 DEF CleanLineExact
    <3>2. Held = samples
      BY <1>4 DEF Held
    <3>3. QED
      BY <3>1, <3>2, SameStats
  <2>3. DOMAIN view' = Wanted'
    BY <1>4 DEF Formatted
  <2>4. op' = op /\ op \in {"report", "diag"}
    BY <1>1 DEF Wanted
  <2> HIDE DEF D
  <2>5. Shown' = [g \in D |-> Window!StatsOf(Held, g)]
    BY <2>1, <2>2
  <2>6. UNCHANGED <<Held, ~clean>>
    BY <1>1 DEF Held
  <2>7. CASE op = "report"
    <3>1. D = Window!ReportShows
      BY <2>3, <2>4, <2>7 DEF D, Wanted, Field, Window!ReportShows
    <3>2. Held # <<>>
      <4>1. view'["count"] > 0
        BY <1>4, <2>4, <2>7 DEF ReportHasSamples, Reporting
      <4>2. view'["count"] = Len(samples)
        <5>1. "count" \in D
          BY <3>1 DEF Window!ReportShows
        <5>2. view'["count"] = StatsOf(samples, "count")
          BY <1>1, <1>4, <5>1 DEF CleanLineExact, D
        <5>3. QED
          BY <5>2 DEF StatsOf
      <4>3. QED
        BY <1>4, <4>1, <4>2 DEF Held
    <3>3. Window!Show(Window!ReportShows)
      BY <1>2, <1>4, <2>5, <2>6, <3>1 DEF Window!Show
    <3>4. QED
      BY <3>2, <3>3 DEF Window!Report
  <2>8. CASE op = "diag"
    <3>1. D = Window!DiagShows
      BY <2>3, <2>4, <2>8 DEF D, Wanted, Window!DiagShows
    <3>2. Window!Show(Window!DiagShows)
      BY <1>2, <1>4, <2>5, <2>6, <3>1 DEF Window!Show
    <3>3. QED
      BY <3>2 DEF Window!Diag
  <2>9. QED
    BY <2>4, <2>7, <2>8
<1>5. QED
  BY <1>3, <1>4

\* The diagnostic line leaves the window; a reset that nothing overlapped empties it, and
\* any other leaves it torn.
LEMMA OpEndsIs ==
  ASSUME WindowInv, OpEnds
  PROVE  Window!DiagEnds \/ Window!Reset \/ Window!Tear \/ UNCHANGED Window!vars
<1>1. TypeOK
  BY DEF WindowInv
<1>2. Shown' = Window!NoLine
  <2>1. DOMAIN view' = {}
    BY DEF OpEnds
  <2>2. QED
    BY <2>1 DEF Shown, Window!NoLine
<1>3. CASE op = "diag"
  <2>1. UNCHANGED <<clean, samples>> /\ Held' = Held /\ Formatted
    BY <1>3 DEF OpEnds, Held
  <2>2. CASE clean /\ ~overlap
    <3>1. DOMAIN Shown = Window!DiagShows
      BY <1>1, <1>3, <2>1, <2>2, ShownFields
    <3>2. QED
      BY <1>2, <2>1, <3>1 DEF Window!DiagEnds
  <2>3. CASE ~clean \/ overlap
    <3>1. Shown = Window!NoLine
      BY <2>3, NothingShown
    <3>2. QED
      BY <1>2, <2>1, <3>1 DEF Window!vars
  <2>4. QED
    BY <1>1, <2>2, <2>3 DEF TypeOK
<1>4. CASE op # "diag"
  <2>1. samples' = <<>> /\ Held' = <<>>
    BY <1>4 DEF OpEnds, Held
  <2>2. CASE clean'
    <3>1. DOMAIN Shown # Window!DiagShows
      BY <1>1, <1>4, ShownFields
    <3>2. QED
      BY <1>2, <2>1, <2>2, <3>1 DEF Window!Reset
  <2>3. CASE ~clean'
    BY <1>2, <2>1, <2>3 DEF Window!Tear
  <2>4. QED
    BY <2>2, <2>3
<1>5. QED
  BY <1>3, <1>4

\* Every step is one of RttWindow or none.
LEMMA WindowStep ==
  ASSUME WindowInv, TypeOK', CleanLineExact', ReportHasSamples', [Next]_vars
  PROVE  [Window!Next]_Window!vars
<1>1. ASSUME NEW t \in Tasks, NEW r \in Rtts, PongBegins(t, r) PROVE [Window!Next]_Window!vars
  BY <1>1, PongBeginsIs DEF Window!Next
<1>2. ASSUME NEW t \in Tasks, NEW f \in Field, PongStores(t, f) PROVE [Window!Next]_Window!vars
  BY <1>2, Untouched DEF PongStores, mainVars, historyVars
<1>3. ASSUME NEW t \in Tasks, PongEnds(t) PROVE [Window!Next]_Window!vars
  BY <1>3, PongEndsIs DEF Window!Next
<1>4. ASSUME NEW o \in {"start", "report", "diag"}, OpBegins(o) PROVE [Window!Next]_Window!vars
  BY <1>4, OpBeginsIs DEF Window!Next
<1>5. ASSUME NEW f \in Field, OpReads(f) PROVE [Window!Next]_Window!vars
  BY <1>5, OpReadsIs DEF Window!Next
<1>6. ASSUME NEW f \in Field, OpClears(f) PROVE [Window!Next]_Window!vars
  BY <1>6, Untouched DEF OpClears, historyVars
<1>7. CASE OpEnds
  BY <1>7, OpEndsIs DEF Window!Next
<1>8. CASE UNCHANGED vars
  BY <1>8, Untouched DEF vars, mainVars, historyVars
<1>9. QED
  BY <1>1, <1>2, <1>3, <1>4, <1>5, <1>6, <1>7, <1>8 DEF Next

\* pongHandler() and zenohBridgeLoop(), access by access, implement the window RttWindow
\* promises while nothing overlaps: a pong counts once and in one step, a line is exact, a
\* report takes its window with it and the diagnostic line leaves it; and a torn window is
\* whole again from the first reset nothing overlaps.
THEOREM StatsImplementWindow == Spec => ImplementsWindow
<1>1. Init => Window!Init
  <2>1. SUFFICES ASSUME Init PROVE Window!Init
    OBVIOUS
  <2>2. view = [f \in {} |-> 0] /\ (~clean) = FALSE /\ samples = <<>>
    BY <2>1 DEF Init
  <2>3. Shown = Window!NoLine
    <3>1. DOMAIN view = {}
      BY <2>2
    <3>2. QED
      BY <3>1, NothingShown
  <2>4. QED
    BY <2>2, <2>3 DEF Window!Init, Held
<1>2. Spec => [](WindowInv /\ TypeOK /\ CleanLineExact /\ ReportHasSamples)
  BY WindowInvariant, WindowTypes, CleanLinesExact, ReportsHaveSamples, PTL
<1>3. QED
  BY <1>1, <1>2, WindowStep, PTL DEF Spec, ImplementsWindow, Window!Spec

=============================================================================
