---------------------------- MODULE BridgeSession ----------------------------
(***************************************************************************)
(* One ESP32 board: the Arduino main task (setup() then loop()), the       *)
(* Ethernet event task that flips gEthLinkUp, and the zenoh-pico sessions  *)
(* that startZenoh() opens, each with background tasks of its own.  The    *)
(* zenohd router on the PC is the environment: it may stop and come back   *)
(* empty, datagrams may be lost, and the path between the board's port and *)
(* the PC may be cut (ring links shut, the PC's port, a storm), which the  *)
(* board's own link flag does not show.                                    *)
(*                                                                         *)
(* Sessions are numbered in the order z_open() succeeds.  A session is     *)
(* never closed: z_open() overwrites s_session without dropping what it    *)
(* held, and a startZenoh() that fails half-way returns without undoing    *)
(* anything, so every session opened since boot stays alive.               *)
(***************************************************************************)
EXTENDS Naturals, Sequences, FiniteSets

CONSTANTS
  NodeId,         \* the NODE_ID build flag: 1 chassis, 2 body, others neither
  MaxOpens,       \* how many sessions the heap has room for
  MaxDrops,       \* bound on link losses
  MaxAborts,      \* bound on failed declarations
  MaxRestarts,    \* bound on router stops
  MaxOutages,     \* bound on outages of the path
  MaxLines,       \* bound on lines typed on the serial console
  Commands        \* LAN commands for this board (cmd/esp32-N/led), one value each

ASSUME BoundsAssumption ==
  /\ NodeId \in Nat
  /\ MaxOpens \in Nat
  /\ MaxDrops \in Nat
  /\ MaxAborts \in Nat
  /\ MaxRestarts \in Nat
  /\ MaxOutages \in Nat
  /\ MaxLines \in Nat

-----------------------------------------------------------------------------
\* What startZenoh() declares on a fresh session, in the order of the code.
Declarations ==
  <<"s_sub", "s_pub", "s_pong_sub", "s_led_sub", "s_ping_pub", "s_stats_pub", "s_diag_pub">>
  \o (CASE NodeId = 1 -> <<"s_chassis_wheel_pub", "s_chassis_vehicle_pub">>
        [] NodeId = 2 -> <<"s_body_pub">>
        [] OTHER      -> <<>>)
  \o <<"s_cabin_csi_pub", "s_cabin_presence_pub">>

Handle == {Declarations[i] : i \in 1..Len(Declarations)}

\* The publishers csiLinkLoop() and the rest of zenohBridgeLoop() put on.
CabinHandles == {"s_cabin_csi_pub", "s_cabin_presence_pub"}
LoopHandles  == Handle \ (CabinHandles \cup {"s_sub", "s_pong_sub", "s_led_sub"})

SessionId == 1..MaxOpens

\* Where the LED subscriber stands in the order of declaration.
LedPosition == 4

VARIABLES
  pc,         \* where the main task stands
  driver,     \* ethStart() brought the driver up; without it no link event ever comes
  linkUp,     \* gEthLinkUp
  csiUp,      \* gCsiUp: csiLinkSetup() found its access point
  zenohUp,    \* s_zenoh_up
  opened,     \* sessions opened so far; the newest one is the content of s_session
  declared,   \* declared[s]: how many of Declarations session s holds
  handle,     \* handle[h]: the session the static handle h belongs to, 0 for none
  peers,      \* sessions with the router still in their table of peers
  routerUp,   \* zenohd runs
  attached,   \* sessions the router serves
  pathUp,     \* frames pass between the board's port and the router
  lines,      \* serial lines typed and not handled yet
  inflight,   \* <<c, s>>: command c on its way from the router to session s
  handled,    \* handled[c]: how many times ledHandler ran for command c
  puts,       \* history: the sessions something was published on (0: a null handle)
  drops, aborts, restarts, outages, typed, sent   \* history: what the bounds count

boardVars   == <<pc, driver, csiUp, zenohUp, opened, declared, handle>>
routerVars  == <<routerUp, attached, restarts>>
pathVars    == <<pathUp, outages>>
commandVars == <<inflight, handled, sent>>
serialVars  == <<lines, typed>>
vars == <<boardVars, linkUp, peers, routerVars, pathVars, commandVars, serialVars, puts, drops, aborts>>

-----------------------------------------------------------------------------
Init ==
  /\ pc = "setup"
  /\ driver = FALSE
  /\ linkUp = FALSE
  /\ csiUp = FALSE
  /\ zenohUp = FALSE
  /\ opened = 0
  /\ declared = [s \in SessionId |-> 0]
  /\ handle = [h \in Handle |-> 0]
  /\ peers = {}
  /\ routerUp = TRUE
  /\ attached = {}
  /\ pathUp = TRUE
  /\ lines = 0
  /\ inflight = {}
  /\ handled = [c \in Commands |-> 0]
  /\ puts = {}
  /\ drops = 0 /\ aborts = 0 /\ restarts = 0 /\ outages = 0 /\ typed = 0 /\ sent = {}

-----------------------------------------------------------------------------
(* The main task. *)

\* zenohBridgeSetup() up to the wait: a failed ethStart() is printed and
\* otherwise ignored.
Setup ==
  /\ pc = "setup"
  /\ driver' \in BOOLEAN
  /\ pc' = "wait_link"
  /\ UNCHANGED <<linkUp, csiUp, zenohUp, opened, declared, handle, peers,
                 routerVars, pathVars, commandVars, serialVars, puts, drops, aborts>>

\* while (!ethLinkUp()) delay(500), then the web server and the CSI link,
\* which gives up on its access point after 15 s.
WaitLink ==
  /\ pc = "wait_link"
  /\ linkUp
  /\ csiUp' \in BOOLEAN
  /\ pc' = "inputs"
  /\ UNCHANGED <<driver, linkUp, zenohUp, opened, declared, handle, peers,
                 routerVars, pathVars, commandVars, serialVars, puts, drops, aborts>>

\* ledControlSerialPoll() drains the console; webServerLoop() serves one client.
PollInputs ==
  /\ pc = "inputs"
  /\ lines' = 0
  /\ pc' = "cabin"
  /\ UNCHANGED <<driver, linkUp, csiUp, zenohUp, opened, declared, handle, peers,
                 routerVars, pathVars, commandVars, typed, puts, drops, aborts>>

\* MUTANT: publishCabin() without its test of s_zenoh_up.
CabinUnguarded ==
  /\ pc = "cabin"
  /\ puts' \in {puts, IF csiUp THEN puts \cup {handle[h] : h \in CabinHandles} ELSE puts}
  /\ pc' = "check_link"
  /\ UNCHANGED <<driver, linkUp, csiUp, zenohUp, opened, declared, handle, peers,
                 routerVars, pathVars, commandVars, serialVars, drops, aborts>>

\* csiLinkLoop(): twice a second publishCabin(), which looks at s_zenoh_up only:
\* it runs ahead of the link check.
Cabin ==
  /\ pc = "cabin"
  /\ puts' \in {puts, IF csiUp /\ zenohUp
                      THEN puts \cup {handle[h] : h \in CabinHandles}
                      ELSE puts}
  /\ pc' = "check_link"
  /\ UNCHANGED <<driver, linkUp, csiUp, zenohUp, opened, declared, handle, peers,
                 routerVars, pathVars, commandVars, serialVars, drops, aborts>>

\* MUTANT: a loop that leaves s_zenoh_up set when the link is down.
CheckLinkKeepsFlag ==
  /\ pc = "check_link"
  /\ zenohUp' = zenohUp
  /\ pc' = IF ~linkUp THEN "inputs" ELSE IF zenohUp THEN "publish" ELSE "open"
  /\ UNCHANGED <<driver, linkUp, csiUp, opened, declared, handle, peers,
                 routerVars, pathVars, commandVars, serialVars, puts, drops, aborts>>

\* MUTANT: a loop that starts a session whatever the flag says.
CheckLinkIgnoresFlag ==
  /\ pc = "check_link"
  /\ zenohUp' = FALSE
  /\ pc' = IF linkUp THEN "open" ELSE "inputs"
  /\ UNCHANGED <<driver, linkUp, csiUp, opened, declared, handle, peers,
                 routerVars, pathVars, commandVars, serialVars, puts, drops, aborts>>

\* MUTANT: a session is started once, at boot, and never again.
CheckLinkNeverReopens ==
  /\ pc = "check_link"
  /\ zenohUp' = (zenohUp /\ linkUp)
  /\ pc' = IF ~linkUp THEN "inputs" ELSE IF zenohUp THEN "publish"
           ELSE IF opened = 0 THEN "open" ELSE "inputs"
  /\ UNCHANGED <<driver, linkUp, csiUp, opened, declared, handle, peers,
                 routerVars, pathVars, commandVars, serialVars, puts, drops, aborts>>

\* MUTANT: the link check first, the console after its early return.
CheckLinkAheadOfInputs ==
  /\ pc = "check_link"
  /\ zenohUp' = (zenohUp /\ linkUp)
  /\ pc' = IF ~linkUp THEN "check_link" ELSE IF zenohUp THEN "publish" ELSE "open"
  /\ UNCHANGED <<driver, linkUp, csiUp, opened, declared, handle, peers,
                 routerVars, pathVars, commandVars, serialVars, puts, drops, aborts>>

\* if (!ethLinkUp()) { s_zenoh_up = false; return; }  if (!s_zenoh_up) startZenoh()
CheckLink ==
  /\ pc = "check_link"
  /\ zenohUp' = (zenohUp /\ linkUp)
  /\ pc' = IF ~linkUp THEN "inputs" ELSE IF zenohUp THEN "publish" ELSE "open"
  /\ UNCHANGED <<driver, linkUp, csiUp, opened, declared, handle, peers,
                 routerVars, pathVars, commandVars, serialVars, puts, drops, aborts>>

\* z_open() with the router answering: a new session, peer of the router.
OpenOK ==
  /\ pc = "open"
  /\ linkUp /\ pathUp /\ routerUp
  /\ opened < MaxOpens
  /\ opened' = opened + 1
  /\ peers' = peers \cup {opened'}
  /\ attached' = attached \cup {opened'}
  /\ pc' = "declare"
  /\ UNCHANGED <<driver, linkUp, csiUp, zenohUp, declared, handle, routerUp, restarts,
                 pathVars, commandVars, serialVars, puts, drops, aborts>>

\* MUTANT: a z_open() that fails keeps the session it was building.
OpenFailKeepsSession ==
  /\ pc = "open"
  /\ opened' = opened + 1
  /\ pc' = "inputs"
  /\ UNCHANGED <<driver, linkUp, csiUp, zenohUp, declared, handle, peers,
                 routerVars, pathVars, commandVars, serialVars, puts, drops, aborts>>

\* z_open() fails (no answer, no memory); it drops what it had built.
OpenFail ==
  /\ pc = "open"
  /\ pc' = "inputs"
  /\ UNCHANGED <<driver, linkUp, csiUp, zenohUp, opened, declared, handle, peers,
                 routerVars, pathVars, commandVars, serialVars, puts, drops, aborts>>

\* The next z_declare_* succeeds; after the last one startZenoh() returns true.
DeclareOK ==
  LET next == declared[opened] + 1 IN
  /\ pc = "declare"
  /\ declared' = [declared EXCEPT ![opened] = next]
  /\ handle' = [handle EXCEPT ![Declarations[next]] = opened]
  /\ zenohUp' = (next = Len(Declarations))
  /\ pc' = IF next = Len(Declarations) THEN "publish" ELSE "declare"
  /\ UNCHANGED <<driver, linkUp, csiUp, opened, peers,
                 routerVars, pathVars, commandVars, serialVars, puts, drops, aborts>>

\* MUTANT: a failed declaration is printed and startZenoh() still reports success.
DeclareFailIgnored ==
  /\ pc = "declare"
  /\ aborts < MaxAborts
  /\ aborts' = aborts + 1
  /\ zenohUp' = TRUE
  /\ pc' = "publish"
  /\ UNCHANGED <<driver, linkUp, csiUp, opened, declared, handle, peers,
                 routerVars, pathVars, commandVars, serialVars, puts, drops>>

\* A z_declare_* fails: its handle is left null, startZenoh() returns false, and
\* the session and the handles declared so far stay as they are.
DeclareFail ==
  /\ pc = "declare"
  /\ aborts < MaxAborts
  /\ aborts' = aborts + 1
  /\ handle' = [handle EXCEPT ![Declarations[declared[opened] + 1]] = 0]
  /\ pc' = "inputs"
  /\ UNCHANGED <<driver, linkUp, csiUp, zenohUp, opened, declared, peers,
                 routerVars, pathVars, commandVars, serialVars, puts, drops>>

\* Ping, stats, diag, the domain of this NODE_ID and hello, when they are due.
Publish ==
  /\ pc = "publish"
  /\ \E due \in {{}, LoopHandles} : puts' = puts \cup {handle[h] : h \in due}
  /\ pc' = "inputs"
  /\ UNCHANGED <<driver, linkUp, csiUp, zenohUp, opened, declared, handle, peers,
                 routerVars, pathVars, commandVars, serialVars, drops, aborts>>

Main == Setup \/ WaitLink \/ PollInputs \/ Cabin \/ CheckLink \/ OpenOK \/ OpenFail
          \/ DeclareOK \/ DeclareFail \/ Publish

-----------------------------------------------------------------------------
(* The Ethernet event task. *)

LinkRises ==
  /\ driver
  /\ ~linkUp
  /\ linkUp' = TRUE
  /\ UNCHANGED <<boardVars, peers, routerVars, pathVars, commandVars, serialVars, puts, drops, aborts>>

LinkFalls ==
  /\ linkUp
  /\ drops < MaxDrops
  /\ linkUp' = FALSE
  /\ drops' = drops + 1
  /\ UNCHANGED <<boardVars, peers, routerVars, pathVars, commandVars, serialVars, puts, aborts>>

-----------------------------------------------------------------------------
(* The sessions' own tasks, the path and the router. *)

\* The link has been down for a whole 10 s lease.  One pass of loop() is far
\* shorter, so by then the main task has seen the link down and let go of the
\* session (pc is not on its way through startZenoh() either).
DownForALease ==
  /\ ~linkUp
  /\ ~zenohUp
  /\ pc \notin {"open", "declare"}

\* Nothing has passed between the board and the router for a whole lease.  An outage of
\* the path is as long as it likes, and no flag of the board shows it.
Silent == DownForALease \/ ~pathUp

\* _zp_unicast_lease_task_fn in peer mode: a peer that was silent for a lease is
\* taken out of the table, whatever gEthLinkUp says, and nothing puts it back.
LeaseExpires(s) ==
  /\ s \in peers
  /\ s \notin attached \/ Silent
  /\ peers' = peers \ {s}
  /\ UNCHANGED <<boardVars, linkUp, routerVars, pathVars, commandVars, serialVars,
                 puts, drops, aborts>>

\* The router's lease of the session runs out in the same way.
RouterExpires(s) ==
  /\ s \in attached
  /\ s \notin peers \/ Silent
  /\ attached' = attached \ {s}
  /\ UNCHANGED <<boardVars, linkUp, peers, routerUp, restarts, pathVars, commandVars,
                 serialVars, puts, drops, aborts>>

PathBreaks ==
  /\ pathUp
  /\ outages < MaxOutages
  /\ outages' = outages + 1
  /\ pathUp' = FALSE
  /\ UNCHANGED <<boardVars, linkUp, peers, routerVars, commandVars, serialVars,
                 puts, drops, aborts>>

PathHeals ==
  /\ ~pathUp
  /\ pathUp' = TRUE
  /\ UNCHANGED <<boardVars, linkUp, peers, routerVars, outages, commandVars, serialVars,
                 puts, drops, aborts>>

RouterStops ==
  /\ routerUp
  /\ restarts < MaxRestarts
  /\ restarts' = restarts + 1
  /\ routerUp' = FALSE
  /\ attached' = {}
  /\ UNCHANGED <<boardVars, linkUp, peers, pathVars, commandVars, serialVars,
                 puts, drops, aborts>>

RouterStarts ==
  /\ ~routerUp
  /\ routerUp' = TRUE
  /\ UNCHANGED <<boardVars, linkUp, peers, attached, restarts, pathVars, commandVars,
                 serialVars, puts, drops, aborts>>

-----------------------------------------------------------------------------
(* LED commands over the LAN, and lines on the serial console. *)

\* A client publishes command c once: the router sends it to every session
\* that declared the LED subscriber.
SendCommand(c) ==
  /\ routerUp
  /\ c \notin sent
  /\ sent' = sent \cup {c}
  /\ inflight' = inflight \cup
       {<<c, s>> : s \in {r \in attached : declared[r] >= LedPosition}}
  /\ UNCHANGED <<boardVars, linkUp, peers, routerVars, pathVars, handled, serialVars,
                 puts, drops, aborts>>

LoseCommand(m) ==
  /\ m \in inflight
  /\ inflight' = inflight \ {m}
  /\ UNCHANGED <<boardVars, linkUp, peers, routerVars, pathVars, handled, sent, serialVars,
                 puts, drops, aborts>>

\* ledHandler, in the task of session s.
HandleCommand(c, s) ==
  /\ <<c, s>> \in inflight
  /\ linkUp /\ pathUp
  /\ s \in peers
  /\ inflight' = inflight \ {<<c, s>>}
  /\ handled' = [handled EXCEPT ![c] = @ + 1]
  /\ UNCHANGED <<boardVars, linkUp, peers, routerVars, pathVars, sent, serialVars,
                 puts, drops, aborts>>

TypeLine ==
  /\ typed < MaxLines
  /\ typed' = typed + 1
  /\ lines' = lines + 1
  /\ UNCHANGED <<boardVars, linkUp, peers, routerVars, pathVars, commandVars,
                 puts, drops, aborts>>

-----------------------------------------------------------------------------
Environment ==
  \/ LinkRises \/ LinkFalls
  \/ \E s \in SessionId : LeaseExpires(s) \/ RouterExpires(s)
  \/ PathBreaks \/ PathHeals
  \/ RouterStops \/ RouterStarts
  \/ \E c \in Commands : SendCommand(c)
  \/ \E m \in inflight : LoseCommand(m)
  \/ \E c \in Commands, s \in SessionId : HandleCommand(c, s)
  \/ TypeLine

Next == Main \/ Environment

Spec == Init /\ [][Next]_vars

\* loop() is called for ever and nothing in it blocks for good; z_open() does
\* not fail every time it can reach the router.
Fairness == WF_vars(Main) /\ SF_vars(OpenOK)

FairSpec == Spec /\ Fairness

-----------------------------------------------------------------------------
\* Types; there are never more sessions than the heap has room for.
TypeOK ==
  /\ pc \in {"setup", "wait_link", "inputs", "cabin", "check_link", "open", "declare", "publish"}
  /\ driver \in BOOLEAN
  /\ linkUp \in BOOLEAN
  /\ csiUp \in BOOLEAN
  /\ zenohUp \in BOOLEAN
  /\ opened \in 0..MaxOpens
  /\ declared \in [SessionId -> 0..Len(Declarations)]
  /\ handle \in [Handle -> 0..MaxOpens]
  /\ peers \subseteq SessionId
  /\ routerUp \in BOOLEAN
  /\ attached \subseteq SessionId
  /\ pathUp \in BOOLEAN
  /\ lines \in Nat /\ typed \in Nat
  /\ inflight \subseteq Commands \X SessionId
  /\ handled \in [Commands -> Nat]
  /\ sent \subseteq Commands
  /\ puts \subseteq 0..MaxOpens
  /\ drops \in Nat /\ aborts \in Nat /\ restarts \in Nat /\ outages \in Nat

Complete(s) == declared[s] = Len(Declarations)

\* While s_zenoh_up is set, every static handle belongs to the newest session,
\* and that session declared all of them: handles left behind by a startZenoh()
\* that failed half-way are never mixed with older ones in use.
OneSessionInUse ==
  zenohUp => /\ opened > 0
             /\ Complete(opened)
             /\ \A h \in Handle : handle[h] = opened

\* Whatever order failures and link losses come in, a publication only ever
\* went out on a session whose startZenoh() ran to the end.
PutsOnCompleteSessions == \A s \in puts : s # 0 /\ Complete(s)

\* The leak is paid for: a session is opened only for the first time, after a
\* link loss, or after an attempt that failed half-way.  A board that keeps its
\* link keeps its session.
SessionLeakBound == opened <= 1 + drops + aborts

\* The inductive invariant behind the three: what startZenoh() has done so far,
\* and how many sessions the board may have opened at this point of the loop.
LinkCredit == IF linkUp THEN 1 ELSE 0

Declaring ==
  pc = "declare" =>
    /\ opened > 0
    /\ declared[opened] < Len(Declarations)
    /\ \A i \in 1..declared[opened] : handle[Declarations[i]] = opened

FlagMatchesLoop ==
  /\ pc \in {"setup", "wait_link", "open", "declare"} => ~zenohUp
  /\ pc = "publish" => zenohUp

FutureSessionsBlank == \A s \in SessionId : s > opened => declared[s] = 0

LeakAccount ==
  /\ pc = "open" => opened + 1 <= aborts + drops + LinkCredit
  /\ pc = "declare" => opened <= aborts + drops + LinkCredit
  /\ zenohUp => opened <= aborts + drops + LinkCredit
  /\ ~zenohUp /\ pc \notin {"open", "declare"} => opened <= aborts + drops

SessionInv ==
  /\ TypeOK
  /\ Declaring
  /\ FlagMatchesLoop
  /\ FutureSessionsBlank
  /\ OneSessionInUse
  /\ PutsOnCompleteSessions
  /\ LeakAccount

\* A LAN command runs at most once for every session opened, so the number of
\* times a toggle is executed is bounded by what went wrong before it was sent:
\* a board that never lost its link executes it once.
HandledBound == \A c \in Commands : handled[c] <= 1 + drops + aborts

\* ledControlHandleCommand() takes "same three words either way": a command over
\* the LAN runs once, as a typed line does, so that a toggle toggles.
HandledOnce == \A c \in Commands : handled[c] <= 1

\* Once setup() is over a line typed on the console is handled, with or without
\* link, router or session.
SerialServedAfterBoot ==
  (lines > 0 /\ pc \notin {"setup", "wait_link"}) ~> (lines = 0)

\* The board and the router exchange data on the session in use.
InService == zenohUp /\ opened \in peers \cap attached

\* While the board holds no session in use and has none half declared (before the first one,
\* after a link loss it noticed, after a startZenoh() that failed), whatever happened before
\* is made good: if the path and the router are there from then on and the link comes to
\* stay, the board ends up in service for good.  It assumes that path and router stay: what
\* happens to a session in use when they do not is HealsByItself.
BackInService ==
  [](~zenohUp /\ pc # "declare" =>
       ([](pathUp /\ routerUp) /\ <>[]linkUp => <>[]InService))

\* "zenoh-pico as a Zenoh client": with link, path and router there for good in the end, the
\* board ends up in service, also after the router was restarted or the path was cut.
HealsByItself == <>[](linkUp /\ pathUp /\ routerUp) => <>[]InService

\* A link that stays down is noticed: the flag does not outlive the link for good.
LinkLossNoticed == [](~linkUp => <>(linkUp \/ ~zenohUp))
=============================================================================
