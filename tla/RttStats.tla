------------------------------ MODULE RttStats -------------------------------
(***************************************************************************)
(* The RTT window s_rtt: written by pongHandler(), which runs in the task  *)
(* of a zenoh-pico session, and read and reset by the main task, without   *)
(* a lock.  On the two cores of the ESP32-S3 both run at once, and the     *)
(* compiler may order the plain accesses to the six fields as it likes.    *)
(*                                                                         *)
(* The grain is one field: pongHandler() computes the new value of a field *)
(* either from what it loaded when it began or from memory as it is at the *)
(* store; the stores of the handler, the loads of a report and the stores  *)
(* of a reset come one field at a time.  A load that falls between the two *)
(* points, and a torn 64-bit access, are left out.                         *)
(***************************************************************************)
EXTENDS RttNumbers

CONSTANTS
  Tasks,      \* tasks that may run pongHandler(): one per session alive
  Rtts,       \* what esp_timer_get_time() - t_send_us may come to
  InOrder,    \* TRUE: accesses come in source order; FALSE: the build may reorder them
  MaxPongs    \* bound on the pongs that arrive

ASSUME RttAssumption ==
  /\ InOrder \in BOOLEAN
  /\ Rtts \subseteq Int
  /\ Int64Max \in Nat
  /\ \A r \in Rtts : r <= Int64Max
  /\ MaxPongs \in Nat

-----------------------------------------------------------------------------
(* The struct: its initial value, and what one RTT makes of it. *)

Lesser(a, b)  == IF a <= b THEN a ELSE b
Greater(a, b) == IF a <= b THEN b ELSE a

\* RttStats()
Fresh(f) == IF f = "min_us" THEN Int64Max ELSE 0

\* MUTANT: the difference is added for the first RTT of a window too, against
\* the last one of the window before.
AfterFirstCounted(s, rtt, f) ==
  CASE f = "jitter_sum_us" -> s["jitter_sum_us"] + Distance(rtt, s["last_us"])
    [] f = "count"   -> s["count"] + 1
    [] f = "sum_us"  -> s["sum_us"] + rtt
    [] f = "min_us"  -> Lesser(s["min_us"], rtt)
    [] f = "max_us"  -> Greater(s["max_us"], rtt)
    [] f = "last_us" -> rtt

\* MUTANT: min_us is kept the way max_us is.
AfterMinAsMax(s, rtt, f) ==
  CASE f = "jitter_sum_us" -> IF s["count"] > 0
                              THEN s["jitter_sum_us"] + Distance(rtt, s["last_us"])
                              ELSE s["jitter_sum_us"]
    [] f = "count"   -> s["count"] + 1
    [] f = "sum_us"  -> s["sum_us"] + rtt
    [] f = "min_us"  -> Greater(s["min_us"], rtt)
    [] f = "max_us"  -> Greater(s["max_us"], rtt)
    [] f = "last_us" -> rtt

\* The tail of pongHandler(): field f of struct s once rtt is taken in.
After(s, rtt, f) ==
  CASE f = "jitter_sum_us" -> IF s["count"] > 0
                              THEN s["jitter_sum_us"] + Distance(rtt, s["last_us"])
                              ELSE s["jitter_sum_us"]
    [] f = "count"   -> s["count"] + 1
    [] f = "sum_us"  -> s["sum_us"] + rtt
    [] f = "min_us"  -> Lesser(s["min_us"], rtt)
    [] f = "max_us"  -> Greater(s["max_us"], rtt)
    [] f = "last_us" -> rtt

-----------------------------------------------------------------------------
(* The order of the accesses in the source. *)

HandlerOrder == <<"jitter_sum_us", "count", "sum_us", "min_us", "max_us", "last_us">>
ReadOrder    == <<"sum_us", "count", "jitter_sum_us", "min_us", "max_us", "last_us">>
ResetOrder   == <<"count", "sum_us", "min_us", "max_us", "last_us", "jitter_sum_us">>

\* Field f may be accessed next, the fields of done being behind it.
Turn(order, done, f) ==
  InOrder => \A i \in 1..Len(order) :
               order[i] = f => \A j \in 1..(i - 1) : order[j] \in done

VARIABLES
  s_rtt,     \* the struct in memory
  busy,      \* tasks inside pongHandler(), past its early returns
  rtt,       \* rtt[t]: the RTT task t is taking in
  loaded,    \* loaded[t]: the struct as t found it when it began
  stored,    \* stored[t]: the fields t has written
  op,        \* the main task: "idle", or the use of s_rtt it is in
  view,      \* the fields it has read, a function on a part of Field
  cleared,   \* the fields it has reset
  pongs,     \* history: pongs that arrived
  overlap,   \* history: a handler ran during the current op
  clean,     \* history: since the last reset no two accesses overlapped
  base,      \* history: the struct if each handler and each reset were one step
  samples    \* history: the RTTs taken in since the last reset, in order

handlerVars == <<busy, rtt, loaded, stored>>
mainVars    == <<op, view, cleared>>
historyVars == <<overlap, clean, base, samples>>
vars == <<s_rtt, handlerVars, mainVars, pongs, historyVars>>

FreshStats == [f \in Field |-> Fresh(f)]

Init ==
  /\ s_rtt = FreshStats
  /\ busy = {}
  /\ rtt = [t \in Tasks |-> 0]
  /\ loaded = [t \in Tasks |-> FreshStats]
  /\ stored = [t \in Tasks |-> {}]
  /\ op = "idle"
  /\ view = [f \in {} |-> 0]
  /\ cleared = {}
  /\ pongs = 0
  /\ overlap = FALSE
  /\ clean = TRUE
  /\ base = FreshStats
  /\ samples = <<>>

-----------------------------------------------------------------------------
(* pongHandler() in task t. *)

\* MUTANT: a negative round trip is not discarded.
PongAcceptsAll(t, r) ==
  /\ t \notin busy
  /\ pongs < MaxPongs
  /\ pongs' = pongs + 1
  /\ busy' = busy \cup {t}
  /\ rtt' = [rtt EXCEPT ![t] = r]
  /\ loaded' = [loaded EXCEPT ![t] = s_rtt]
  /\ stored' = [stored EXCEPT ![t] = {}]
  /\ overlap' = (overlap \/ op # "idle")
  /\ clean' = (clean /\ busy = {} /\ op \notin {"start", "report"})
  /\ UNCHANGED <<s_rtt, mainVars, base, samples>>

\* A pong whose payload scans and whose RTT is r; a negative one is discarded
\* and leaves everything as it is.
PongBegins(t, r) ==
  /\ t \notin busy
  /\ pongs < MaxPongs
  /\ r >= 0
  /\ pongs' = pongs + 1
  /\ busy' = busy \cup {t}
  /\ rtt' = [rtt EXCEPT ![t] = r]
  /\ loaded' = [loaded EXCEPT ![t] = s_rtt]
  /\ stored' = [stored EXCEPT ![t] = {}]
  /\ overlap' = (overlap \/ op # "idle")
  /\ clean' = (clean /\ busy = {} /\ op \notin {"start", "report"})
  /\ UNCHANGED <<s_rtt, mainVars, base, samples>>

\* The jitter sum needs count and last_us as they were: they are stored later.
PongStores(t, f) ==
  /\ t \in busy
  /\ f \in Field \ stored[t]
  /\ Turn(HandlerOrder, stored[t], f)
  /\ f \in {"count", "last_us"} => "jitter_sum_us" \in stored[t]
  /\ \E s \in {s_rtt, loaded[t]} : s_rtt' = [s_rtt EXCEPT ![f] = After(s, rtt[t], f)]
  /\ stored' = [stored EXCEPT ![t] = @ \cup {f}]
  /\ UNCHANGED <<busy, rtt, loaded, mainVars, pongs, historyVars>>

\* The handler's locals are gone; the history is kept up while it means something.
PongEnds(t) ==
  /\ t \in busy
  /\ stored[t] = Field
  /\ busy' = busy \ {t}
  /\ rtt' = [rtt EXCEPT ![t] = 0]
  /\ loaded' = [loaded EXCEPT ![t] = FreshStats]
  /\ stored' = [stored EXCEPT ![t] = {}]
  /\ IF clean
     THEN /\ base' = [f \in Field |-> After(base, rtt[t], f)]
          /\ samples' = Append(samples, rtt[t])
     ELSE UNCHANGED <<base, samples>>
  /\ UNCHANGED <<s_rtt, mainVars, pongs, overlap, clean>>

-----------------------------------------------------------------------------
(* The main task. *)

\* What each use reads before it formats its line; a reset puts last_us back.
Wanted ==
  CASE op = "report" -> Field
    [] op = "diag"   -> {"count", "sum_us", "jitter_sum_us"}
    [] OTHER         -> {}

\* MUTANT: the 1 Hz report does not ask for a sample.
OpBeginsUnasked(o) ==
  /\ op = "idle"
  /\ op' = o
  /\ overlap' = (busy # {})
  /\ clean' = (clean /\ (busy = {} \/ o = "diag"))
  /\ UNCHANGED <<s_rtt, handlerVars, view, cleared, pongs, base, samples>>

\* startZenoh() ends with s_rtt = RttStats(); the 1 Hz report asks for a sample
\* first; the 2 Hz diag line does not.
OpBegins(o) ==
  /\ op = "idle"
  /\ o = "report" => s_rtt["count"] > 0
  /\ op' = o
  /\ overlap' = (busy # {})
  /\ clean' = (clean /\ (busy = {} \/ o = "diag"))
  /\ UNCHANGED <<s_rtt, handlerVars, view, cleared, pongs, base, samples>>

OpReads(f) ==
  /\ f \in Wanted \ DOMAIN view
  /\ Turn(ReadOrder, DOMAIN view \cup (Field \ Wanted), f)
  /\ view' = [g \in DOMAIN view \cup {f} |-> IF g = f THEN s_rtt[f] ELSE view[g]]
  /\ UNCHANGED <<s_rtt, handlerVars, op, cleared, pongs, historyVars>>

\* The line is complete and goes out.
Formatted == DOMAIN view = Wanted

\* s = RttStats(); s.last_us = last
Reset(f) == IF op = "report" /\ f = "last_us" THEN view["last_us"] ELSE Fresh(f)

\* MUTANT: the reset forgets the jitter sum.
OpClearsNoJitter(f) ==
  /\ op \in {"start", "report"}
  /\ Formatted
  /\ f \in Field \ cleared
  /\ Turn(ResetOrder, cleared, f)
  /\ s_rtt' = IF f = "jitter_sum_us" THEN s_rtt ELSE [s_rtt EXCEPT ![f] = Reset(f)]
  /\ cleared' = cleared \cup {f}
  /\ UNCHANGED <<handlerVars, op, view, pongs, historyVars>>

OpClears(f) ==
  /\ op \in {"start", "report"}
  /\ Formatted
  /\ f \in Field \ cleared
  /\ Turn(ResetOrder, cleared, f)
  /\ s_rtt' = [s_rtt EXCEPT ![f] = Reset(f)]
  /\ cleared' = cleared \cup {f}
  /\ UNCHANGED <<handlerVars, op, view, pongs, historyVars>>

\* MUTANT: a report may end without its reset, and the next one shows its round
\* trips again, "accumulating since boot".
OpEndsUnreset ==
  /\ op # "idle"
  /\ Formatted
  /\ (op # "start" /\ cleared = {}) \/ cleared = Field
  /\ op' = "idle"
  /\ view' = [f \in {} |-> 0]
  /\ cleared' = {}
  /\ overlap' = FALSE
  /\ IF cleared = {}
     THEN UNCHANGED <<clean, base, samples>>
     ELSE clean' = ~overlap /\ base' = s_rtt /\ samples' = <<>>
  /\ UNCHANGED <<s_rtt, handlerVars, pongs>>

\* A reset no handler overlapped makes the window clean again, whatever state
\* earlier races had left it in.
OpEnds ==
  /\ op # "idle"
  /\ Formatted
  /\ op = "diag" \/ cleared = Field
  /\ op' = "idle"
  /\ view' = [f \in {} |-> 0]
  /\ cleared' = {}
  /\ overlap' = FALSE
  /\ IF op = "diag"
     THEN UNCHANGED <<clean, base, samples>>
     ELSE clean' = ~overlap /\ base' = s_rtt /\ samples' = <<>>
  /\ UNCHANGED <<s_rtt, handlerVars, pongs>>

Next ==
  \/ \E t \in Tasks, r \in Rtts : PongBegins(t, r)
  \/ \E t \in Tasks, f \in Field : PongStores(t, f)
  \/ \E t \in Tasks : PongEnds(t)
  \/ \E o \in {"start", "report", "diag"} : OpBegins(o)
  \/ \E f \in Field : OpReads(f)
  \/ \E f \in Field : OpClears(f)
  \/ OpEnds

Spec == Init /\ [][Next]_vars

-----------------------------------------------------------------------------
Stats == [Field -> Nat]

\* The types; no field ever goes below zero, whatever interleaving.
TypeOK ==
  /\ s_rtt \in Stats
  /\ busy \subseteq Tasks
  /\ rtt \in [Tasks -> Nat]
  /\ loaded \in [Tasks -> Stats]
  /\ stored \in [Tasks -> SUBSET Field]
  /\ op \in {"idle", "start", "report", "diag"}
  /\ view \in [DOMAIN view -> Nat]
  /\ DOMAIN view \subseteq Wanted
  /\ cleared \subseteq Field
  /\ pongs \in Nat
  /\ overlap \in BOOLEAN
  /\ clean \in BOOLEAN
  /\ base \in Stats
  /\ samples \in Seq(Nat)

\* What a window's numbers promise: with no sample it is empty, and otherwise the
\* mean lies between min and max, the last RTT too, and the mean jitter (over
\* count - 1 differences) is at most the spread.
Consistent(s) ==
  /\ s["count"] >= 0
  /\ s["count"] = 0 => /\ s["sum_us"] = 0 /\ s["jitter_sum_us"] = 0
                       /\ s["min_us"] = Int64Max /\ s["max_us"] = 0
  /\ s["count"] > 0 =>
       /\ 0 <= s["min_us"]
       /\ s["min_us"] <= s["last_us"] /\ s["last_us"] <= s["max_us"]
       /\ s["count"] * s["min_us"] <= s["sum_us"]
       /\ s["sum_us"] <= s["count"] * s["max_us"]
       /\ 0 <= s["jitter_sum_us"]
       /\ s["jitter_sum_us"] <= (s["count"] - 1) * (s["max_us"] - s["min_us"])

Reporting == op = "report" /\ Formatted

\* A report never divides by zero, whatever overlaps it: the test of count comes
\* before the loads, and nothing but the reporting task takes count back to 0.
ReportHasSamples == Reporting => view["count"] > 0

\* A report that no handler overlapped, in a window where nothing overlapped,
\* publishes consistent numbers: min <= mean <= max, jitter <= max - min.
CleanReportConsistent == Reporting /\ clean /\ ~overlap => Consistent(view)

-----------------------------------------------------------------------------
(* What the module promises of its window, once more from the sequence of its *)
(* RTTs, and as a whole.                                                       *)

\* A line (report or diag) that nothing overlapped says what the RTTs taken in
\* since the last reset say, each counted once.
CleanLineExact ==
  Formatted /\ clean /\ ~overlap =>
    \A f \in DOMAIN view \ {"last_us"} : view[f] = StatsOf(samples, f)

\* The struct behaves as RttWindow while it is clean: a pong counts where its handler
\* returns, a line stands once all it shows is loaded and no handler came by, a reset
\* counts where its last store is done.
Held  == IF clean THEN samples ELSE <<>>
Shown == IF Formatted /\ clean /\ ~overlap
         THEN [f \in DOMAIN view \ {"last_us"} |-> view[f]]
         ELSE [f \in {} |-> 0]

Window == INSTANCE RttWindow WITH window <- Held, torn <- ~clean, line <- Shown

\* Field by field, with locals and reorderings, pongHandler() and zenohBridgeLoop() do
\* what single steps on a sequence of RTTs would, until accesses overlap and again from
\* the next whole reset: while nothing overlaps every pong counts once, a report takes its
\* window with it, and the diagnostic line does not touch it.  A pong that arrives between
\* a report and its reset overlaps, and of such a window nothing is said.
ImplementsWindow == Window!Spec

-----------------------------------------------------------------------------
(* The inductive invariant behind these. *)

Resetting == op \in {"start", "report"}

\* A handler past its early returns holds an RTT it accepted, and takes the
\* difference to last_us before it overwrites what the difference needs.
HandlerLocals ==
  \A t \in busy :
    /\ rtt[t] \in Rtts
    /\ "jitter_sum_us" \notin stored[t] => stored[t] \cap {"count", "last_us"} = {}

\* Nothing is reset before the line is complete, and until the reset reaches count
\* the sample the report was begun for is there, whatever handlers add to it.
SampleStays ==
  op = "report" =>
    /\ cleared # {} => Formatted
    /\ "count" \notin cleared => s_rtt["count"] > 0
    /\ "count" \in DOMAIN view => view["count"] > 0

\* Without a handler around, a reset finds the fields it cleared as it left them.
QuietReset ==
  op # "idle" /\ ~overlap =>
    /\ busy = {}
    /\ Resetting => \A f \in cleared : s_rtt[f] = Reset(f)

\* While the window is clean memory is base, but for what the one handler, or the
\* reset, in progress has stored so far; and base is consistent.
CleanWindow ==
  clean =>
    /\ Consistent(base)
    /\ \A t, u \in busy : t = u
    /\ Resetting => busy = {}
    /\ \A t \in busy : /\ loaded[t] = base
                       /\ \A f \in Field : s_rtt[f] = IF f \in stored[t]
                                                      THEN After(base, rtt[t], f)
                                                      ELSE base[f]
    /\ busy = {} => \A f \in Field : s_rtt[f] = IF Resetting /\ f \in cleared
                                                THEN Reset(f)
                                                ELSE base[f]
    /\ op = "report" => \A f \in DOMAIN view : view[f] = base[f]

WindowInv ==
  /\ TypeOK
  /\ cleared # {} => Resetting
  /\ HandlerLocals
  /\ SampleStays
  /\ QuietReset
  /\ CleanWindow

\* Every report is consistent: "discard rather than corrupt stats".
ReportConsistent == Reporting => Consistent(view)

=============================================================================
