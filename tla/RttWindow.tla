------------------------------- MODULE RttWindow ------------------------------
(***************************************************************************)
(* What zenohBridgeLoop() is meant to promise of the round trips it shows: *)
(* each pong counts once, in one step; a line says exactly what the pongs  *)
(* since the last reset say; nothing comes between a report and the reset  *)
(* that follows it; and the diagnostic line leaves the window as it is.    *)
(* When accesses overlap, the window is torn and nothing is promised until *)
(* the next whole reset.  There are no tasks here, no fields stored one by *)
(* one, and nothing is loaded before it is used.                           *)
(***************************************************************************)
EXTENDS RttNumbers

CONSTANT Rtts  \* what esp_timer_get_time() - t_send_us may come to

VARIABLES
  window,  \* the RTTs since the last reset, in order; none when torn
  torn,    \* accesses have overlapped since the last whole reset
  line     \* the line that is complete, a function on the fields it shows

vars == <<window, torn, line>>

NoLine == [f \in {} |-> 0]

\* What the 1 Hz report and the 2 Hz diagnostic line show.
ReportShows == {"count", "sum_us", "min_us", "max_us", "jitter_sum_us"}
DiagShows   == {"count", "sum_us", "jitter_sum_us"}

Init ==
  /\ window = <<>>
  /\ torn = FALSE
  /\ line = NoLine

Pong(r) ==
  /\ ~torn
  /\ r >= 0
  /\ line = NoLine
  /\ window' = Append(window, r)
  /\ UNCHANGED <<torn, line>>

\* A line on the fields shown.
Show(shown) ==
  /\ ~torn
  /\ line = NoLine
  /\ line' = [f \in shown |-> StatsOf(window, f)]
  /\ UNCHANGED <<window, torn>>

\* A report needs a sample: its mean divides by their number.
Report == window # <<>> /\ Show(ReportShows)

Diag == Show(DiagShows)

DiagEnds ==
  /\ DOMAIN line = DiagShows
  /\ line' = NoLine
  /\ UNCHANGED <<window, torn>>

\* startZenoh() is complete, or a report is: a report only goes with its window.
Reset ==
  /\ DOMAIN line # DiagShows
  /\ window' = <<>>
  /\ torn' = FALSE
  /\ line' = NoLine

Tear ==
  /\ window' = <<>>
  /\ torn' = TRUE
  /\ line' = NoLine

Next ==
  \/ \E r \in Rtts : Pong(r)
  \/ Report
  \/ Diag
  \/ DiagEnds
  \/ Reset
  \/ Tear

Spec == Init /\ [][Next]_vars

=============================================================================
