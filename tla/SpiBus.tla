-------------------------------- MODULE SpiBus --------------------------------
(***************************************************************************)
(* What the driver of the W5500 is promised by w5500_spi.h, whatever goes  *)
(* on below: a call is answered in one piece, with the data of the place   *)
(* it asked for; or it fails, and a failed read of the receive buffer is   *)
(* counted; or it times out, and only while another call is under way.     *)
(* There are no attempts here, no offsets to fold, no mutex and no bounce  *)
(* buffer.                                                                 *)
(***************************************************************************)
EXTENDS Integers

CONSTANTS
  Tasks,     \* driver tasks
  Request,   \* the calls they make
  NoRequest, \* what a task has asked for before its first call
  Size       \* of the receive buffer, whose offsets the chip masks

VARIABLES
  pending,   \* tasks with a call under way
  asked,     \* the last call of each task
  answer,    \* what it returned
  filled,    \* the place a successful read brought, -1 otherwise
  lost       \* failed reads of the receive buffer

vars == <<pending, asked, answer, filled, lost>>

\* The place a call is about.
Place(r) == IF r.rx THEN r.cmd % Size ELSE r.cmd

Init ==
  /\ pending = {}
  /\ asked = [t \in Tasks |-> NoRequest]
  /\ answer = [t \in Tasks |-> "none"]
  /\ filled = [t \in Tasks |-> -1]
  /\ lost = 0

Call(t, r) ==
  /\ t \notin pending
  /\ pending' = pending \cup {t}
  /\ asked' = [asked EXCEPT ![t] = r]
  /\ answer' = [answer EXCEPT ![t] = "none"]
  /\ filled' = [filled EXCEPT ![t] = -1]
  /\ UNCHANGED lost

\* A call ends with an answer.
End(t, a) ==
  /\ t \in pending
  /\ pending' = pending \ {t}
  /\ answer' = [answer EXCEPT ![t] = a]
  /\ UNCHANGED asked

Succeed(t) ==
  /\ End(t, "ok")
  /\ filled' = [filled EXCEPT ![t] = Place(asked[t])]
  /\ UNCHANGED lost

Fail(t) ==
  /\ End(t, "fail")
  /\ lost' = IF asked[t].rx THEN lost + 1 ELSE lost
  /\ UNCHANGED filled

TimeOut(t) ==
  /\ End(t, "timeout")
  /\ pending # {t}
  /\ UNCHANGED <<filled, lost>>

Next ==
  \E t \in Tasks :
    \/ \E r \in Request : Call(t, r)
    \/ Succeed(t) \/ Fail(t) \/ TimeOut(t)

Spec == Init /\ [][Next]_vars

=============================================================================
