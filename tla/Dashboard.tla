------------------------------ MODULE Dashboard ------------------------------
(***************************************************************************)
(* The zenoh side of pc/webapp/server.py: the thread that opens a session, *)
(* subscribes, and renews the session every ZENOH_SESSION_MAX_AGE_S; the   *)
(* callbacks, one thread for each subscriber, that file samples under a    *)
(* lock; and what GET /api/state makes of the files: which boards are      *)
(* alive, and the CSI links between them.                                  *)
(*                                                                         *)
(* A callback takes the time before it takes the lock, so samples of two   *)
(* subscribers may be filed in another order than they came.  Time is kept *)
(* as ages; a MAC is named by its board.                                   *)
(***************************************************************************)
EXTENDS Integers, Sequences

CONSTANTS
  Boards,       \* NODES
  Subscribers,  \* the key expressions subscribed to, in order
  Carries,      \* Carries[s]: the samples s brings, as <<board, report>>
  NoReport,     \* what a sample other than a CSI report carries
  MAX_RECENT,   \* samples kept of each board
  Window,       \* ZENOH_ALIVE_WINDOW_S
  Delay,        \* bound on the time between timestamp and lock
  MaxLosses     \* bound on the stops of the router and the sessions gone deaf without one

Subscriber == {Subscribers[i] : i \in DOMAIN Subscribers}

\* A report is a set of <<MAC, measurement>>.
Report == UNION {{x[2] : x \in Carries[s]} : s \in Subscriber}

ASSUME DashboardAssumption ==
  /\ Subscribers \in Seq(Subscriber) \ {<<>>}
  /\ \A s \in Subscriber : \A x \in Carries[s] : x \in Boards \X Report
  /\ MAX_RECENT \in Nat \ {0}
  /\ Window \in Nat /\ Delay \in Nat
  /\ MaxLosses \in Nat

VARIABLES
  router,     \* zenohd runs
  thread,     \* where _zenoh_thread stands
  declared,   \* how many subscribers the session has
  deaf,       \* the session brings nothing any more, and nothing says so
  callback,   \* callback[s]: the sample the thread of s is filing
  recent,     \* _zenoh_recent: the reports of the last samples of each board
  seen,       \* age of _zenoh_last_seen of each board, up to Window
  heard,      \* history: age of the newest sample filed of each board
  newest,     \* history: the newest report filed of each board
  behind,     \* history: samples filed since, up to MAX_RECENT
  losses      \* history: stops of the router and sessions gone deaf without one

session == <<router, thread, declared, deaf, losses>>
files   == <<recent, seen, heard, newest, behind>>
vars    == <<session, callback, files>>

Idle == [board |-> NoReport, report |-> NoReport, age |-> 0]

Init ==
  /\ router \in BOOLEAN
  /\ thread = "opening"
  /\ declared = 0
  /\ deaf = FALSE
  /\ callback = [s \in Subscriber |-> Idle]
  /\ recent = [b \in Boards |-> <<>>]
  /\ seen = [b \in Boards |-> Window]
  /\ heard = [b \in Boards |-> Window]
  /\ newest = [b \in Boards |-> NoReport]
  /\ behind = [b \in Boards |-> MAX_RECENT]
  /\ losses = 0

-----------------------------------------------------------------------------
(* The session. *)

\* zenoh.open()
Open ==
  /\ thread = "opening"
  /\ router
  /\ thread' = "declaring"
  /\ declared' = 0
  /\ deaf' = FALSE
  /\ UNCHANGED <<router, losses, callback, files>>

\* The next declare_subscriber(); after the last one the thread sleeps.
Declare ==
  /\ thread = "declaring"
  /\ declared' = declared + 1
  /\ thread' = IF declared + 1 = Len(Subscribers) THEN "asleep" ELSE "declaring"
  /\ UNCHANGED <<router, deaf, losses, callback, files>>

\* Opening or subscribing raises: what there is of the session is closed.
Raise ==
  /\ thread \in {"opening", "declaring"}
  /\ thread' = "backoff"
  /\ declared' = 0
  /\ UNCHANGED <<router, deaf, losses, callback, files>>

\* MUTANT: a session is kept until an exception ends it.
RenewNever ==
  /\ thread = "backoff"
  /\ thread' = "opening"
  /\ declared' = 0
  /\ UNCHANGED <<router, deaf, losses, callback, files>>

\* The session has reached its age and is closed, or the pause after an exception is over.
Renew ==
  /\ thread \in {"asleep", "backoff"}
  /\ thread' = "opening"
  /\ declared' = 0
  /\ UNCHANGED <<router, deaf, losses, callback, files>>

RouterStops ==
  /\ router
  /\ losses < MaxLosses
  /\ losses' = losses + 1
  /\ router' = FALSE
  /\ deaf' = TRUE
  /\ UNCHANGED <<thread, declared, callback, files>>

RouterStarts ==
  /\ ~router
  /\ router' = TRUE
  /\ UNCHANGED <<thread, declared, deaf, losses, callback, files>>

\* "silently orphaned": without a router restart, as after a reset of a board.
Orphan ==
  /\ losses < MaxLosses
  /\ losses' = losses + 1
  /\ deaf' = TRUE
  /\ UNCHANGED <<router, thread, declared, callback, files>>

-----------------------------------------------------------------------------
(* Samples. *)

\* A sample reaches the thread of its subscriber, which takes the time.
Receive(s, x) ==
  /\ router /\ ~deaf
  /\ s \in {Subscribers[i] : i \in 1..declared}
  /\ callback[s] = Idle
  /\ callback' = [callback EXCEPT ![s] = [board |-> x[1], report |-> x[2], age |-> 0]]
  /\ UNCHANGED <<session, files>>

\* MUTANT: a deque without maxlen.
AppendedForever(q, r) == Append(q, r)

\* deque(maxlen=MAX_RECENT).append()
Appended(q, r) == IF Len(q) < MAX_RECENT THEN Append(q, r) ELSE Append(Tail(q), r)

\* MUTANT: the time of the first sample is kept.
FileFirstSeen(s) ==
  LET c == callback[s] IN
  /\ c # Idle
  /\ recent' = [recent EXCEPT ![c.board] = Appended(@, c.report)]
  /\ seen' = [seen EXCEPT ![c.board] = IF recent[c.board] = <<>> THEN c.age ELSE @]
  /\ heard' = [heard EXCEPT ![c.board] = IF c.age < @ THEN c.age ELSE @]
  /\ newest' = [newest EXCEPT ![c.board] = IF c.report = NoReport THEN @ ELSE c.report]
  /\ behind' = [behind EXCEPT ![c.board] =
                  IF c.report # NoReport THEN 0 ELSE IF @ < MAX_RECENT THEN @ + 1 ELSE @]
  /\ callback' = [callback EXCEPT ![s] = Idle]
  /\ UNCHANGED session

\* _zenoh_on_sample() has the lock.
File(s) ==
  LET c == callback[s] IN
  /\ c # Idle
  /\ recent' = [recent EXCEPT ![c.board] = Appended(@, c.report)]
  /\ seen' = [seen EXCEPT ![c.board] = c.age]
  /\ heard' = [heard EXCEPT ![c.board] = IF c.age < @ THEN c.age ELSE @]
  /\ newest' = [newest EXCEPT ![c.board] = IF c.report = NoReport THEN @ ELSE c.report]
  /\ behind' = [behind EXCEPT ![c.board] =
                  IF c.report # NoReport THEN 0 ELSE IF @ < MAX_RECENT THEN @ + 1 ELSE @]
  /\ callback' = [callback EXCEPT ![s] = Idle]
  /\ UNCHANGED session

Older(age) == IF age < Window THEN age + 1 ELSE Window

\* A second passes; no callback waits for the lock longer than Delay.
Tick ==
  /\ \A s \in Subscriber : callback[s] # Idle => callback[s].age < Delay
  /\ callback' = [s \in Subscriber |->
                    IF callback[s] = Idle THEN Idle ELSE [callback[s] EXCEPT !.age = @ + 1]]
  /\ seen' = [b \in Boards |-> Older(seen[b])]
  /\ heard' = [b \in Boards |-> Older(heard[b])]
  /\ UNCHANGED <<session, recent, newest, behind>>

Next ==
  \/ Open \/ Declare \/ Raise \/ Renew \/ RouterStops \/ RouterStarts \/ Orphan
  \/ \E s \in Subscriber : (\E x \in Carries[s] : Receive(s, x)) \/ File(s)
  \/ Tick

Spec == Init /\ [][Next]_vars

\* The thread and the callbacks run on, opening and subscribing do not fail for ever,
\* and every board keeps publishing.
FairSpec ==
  /\ Spec
  /\ WF_vars(Renew) /\ WF_vars(Tick)
  /\ SF_vars(Open) /\ \A i \in DOMAIN Subscribers : SF_vars(declared = i - 1 /\ Declare)
  /\ \A s \in Subscriber : WF_vars(File(s))
  /\ \A b \in Boards :
       SF_vars(\E s \in Subscriber : \E x \in Carries[s] : x[1] = b /\ Receive(s, x))

-----------------------------------------------------------------------------
(* GET /api/state: read under the lock, in one piece. *)

zenohAlive(b) == seen[b] < Window

\* Where the CSI reports kept of a board are.
ReportsOf(b) == {i \in DOMAIN recent[b] : recent[b][i] # NoReport}

\* mac_to_node: the boards whose own MAC is known.
Named == {b \in Boards : ReportsOf(b) # {}}

\* MUTANT: the first report of a board is kept.
DirsFirst(b) == recent[b][CHOOSE i \in ReportsOf(b) : \A j \in ReportsOf(b) : i <= j]

\* dirs: a later report of a board replaces an earlier one.
Dirs(b) == recent[b][CHOOSE i \in ReportsOf(b) : \A j \in ReportsOf(b) : j <= i]

\* _csi_links(): paths between two boards, the networks of others left out.
csi_links ==
  UNION {{<<rx, p[1], p[2]>> : p \in {q \in Dirs(rx) : q[1] \in Named \ {rx}}} : rx \in Named}

-----------------------------------------------------------------------------
\* The types.
TypeOK ==
  /\ router \in BOOLEAN
  /\ thread \in {"opening", "declaring", "asleep", "backoff"}
  /\ declared \in 0..Len(Subscribers)
  /\ deaf \in BOOLEAN
  /\ callback \in [Subscriber -> [board : Boards, report : Report, age : 0..Delay] \cup {Idle}]
  /\ recent \in [Boards -> Seq(Report)]
  /\ \A b \in Boards : Len(recent[b]) <= MAX_RECENT
  /\ seen \in [Boards -> 0..Window \cup 0..Delay]
  /\ heard \in [Boards -> 0..Window]
  /\ newest \in [Boards -> Report \cup {NoReport}]
  /\ behind \in [Boards -> 0..MAX_RECENT]
  /\ losses \in Nat

\* Although a late callback may put back the time a board was last seen, a board shown as
\* silent has been so for the window less that delay, and one shown as alive was heard in it.
AliveIsHonest ==
  \A b \in Boards :
    /\ ~zenohAlive(b) => heard[b] >= Window - Delay
    /\ zenohAlive(b) => heard[b] < Window

\* The links shown are those of the newest reports, of the boards that have filed one
\* among their last MAX_RECENT samples.
LinksCurrent ==
  LET Reporting == {b \in Boards : behind[b] < MAX_RECENT} IN
  csi_links =
    UNION {{<<rx, p[1], p[2]>> : p \in {q \in newest[rx] : q[1] \in Reporting \ {rx}}} :
             rx \in Reporting}

\* "worst case is a few seconds of gap": whatever happened to sessions and router, once
\* the router stays up every board that publishes is shown as alive again and again.
HeardAgain == <>[]router => \A b \in Boards : []<>zenohAlive(b)

=============================================================================
