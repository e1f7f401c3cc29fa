------------------------- MODULE BridgeSessionProofs -------------------------
(***************************************************************************)
(* Proofs about BridgeSession, for every NodeId, every number of sessions, *)
(* link losses, failed declarations, outages of the path and router        *)
(* restarts.                                                               *)
(***************************************************************************)
EXTENDS BridgeSession, FiniteSets, SequenceTheorems, FiniteSetTheorems, TLAPS

\* What the proofs use of the list of declarations: it is a non-empty list, and
\* the cabin publishers and the loop's publishers are on it.
LEMMA DeclarationsFacts ==
  /\ Len(Declarations) \in Nat \ {0}
  /\ \A i \in 1..Len(Declarations) : Declarations[i] \in Handle
  /\ CabinHandles \subseteq Handle
  /\ LoopHandles \subseteq Handle
<1> DEFINE head == <<"s_sub", "s_pub", "s_pong_sub", "s_led_sub", "s_ping_pub",
                     "s_stats_pub", "s_diag_pub">>
           own == CASE NodeId = 1 -> <<"s_chassis_wheel_pub", "s_chassis_vehicle_pub">>
                    [] NodeId = 2 -> <<"s_body_pub">>
                    [] OTHER      -> <<>>
           tail == <<"s_cabin_csi_pub", "s_cabin_presence_pub">>
           names == {"s_sub", "s_pub", "s_pong_sub", "s_led_sub", "s_ping_pub", "s_stats_pub",
                     "s_diag_pub", "s_chassis_wheel_pub", "s_chassis_vehicle_pub",
                     "s_body_pub", "s_cabin_csi_pub", "s_cabin_presence_pub"}
<1>1. own \in Seq(names) /\ head \in Seq(names) /\ tail \in Seq(names)
  <2>1. head \in Seq(names)  OBVIOUS
  <2>2. tail \in Seq(names)  OBVIOUS
  <2>3. <<"s_chassis_wheel_pub", "s_chassis_vehicle_pub">> \in Seq(names)  OBVIOUS
  <2>4. <<"s_body_pub">> \in Seq(names)  OBVIOUS
  <2>5. <<>> \in Seq(names)  OBVIOUS
  <2>6. own \in Seq(names)
    <3>1. CASE NodeId = 1  BY <3>1, <2>3
    <3>2. CASE NodeId = 2  BY <3>2, <2>4
    <3>3. CASE NodeId # 1 /\ NodeId # 2  BY <3>3, <2>5
    <3> QED  BY <3>1, <3>2, <3>3
  <2> QED  BY <2>1, <2>2, <2>6
<1>2. Declarations = (head \o own) \o tail  BY DEF Declarations
<1>3. Len(tail) = 2 /\ tail[1] = "s_cabin_csi_pub" /\ tail[2] = "s_cabin_presence_pub"
  OBVIOUS
<1> HIDE DEF head, own, tail, names
<1> DEFINE front == head \o own
<1>4. front \in Seq(names) /\ Len(front) \in Nat  BY <1>1
<1>5. Declarations = front \o tail  BY <1>2
<1> HIDE DEF front
<1>6. /\ Len(Declarations) = Len(front) + Len(tail)
      /\ \A i \in 1..Len(front) + Len(tail) :
           Declarations[i] = IF i <= Len(front) THEN front[i] ELSE tail[i - Len(front)]
  BY <1>1, <1>4, <1>5, ConcatProperties, Zenon
<1>7. /\ Len(Declarations) = Len(front) + 2
      /\ Declarations[Len(front) + 1] = "s_cabin_csi_pub"
      /\ Declarations[Len(front) + 2] = "s_cabin_presence_pub"
  BY <1>3, <1>4, <1>6
<1> QED  BY <1>4, <1>7 DEF Handle, CabinHandles, LoopHandles

-----------------------------------------------------------------------------
\* At first nothing is declared, no session is open and none is charged.
LEMMA InitEstablishes == Init => SessionInv
<1> SUFFICES ASSUME Init  PROVE SessionInv
  OBVIOUS
<1>1. TypeOK
  <2>1. /\ zenohUp \in BOOLEAN /\ driver \in BOOLEAN /\ linkUp \in BOOLEAN /\ csiUp \in BOOLEAN
        /\ routerUp \in BOOLEAN /\ pathUp \in BOOLEAN
    BY DEF Init
  <2>2. /\ declared \in [SessionId -> 0..Len(Declarations)]
        /\ handle \in [Handle -> 0..MaxOpens]
        /\ handled \in [Commands -> Nat]
        /\ opened \in 0..MaxOpens
    BY DeclarationsFacts, BoundsAssumption DEF Init
  <2>3. /\ peers \subseteq SessionId /\ attached \subseteq SessionId
        /\ inflight \subseteq Commands \X SessionId /\ sent \subseteq Commands
        /\ puts \subseteq 0..MaxOpens
    BY DEF Init
  <2>4. /\ pc = "setup" /\ lines \in Nat /\ typed \in Nat /\ drops \in Nat /\ aborts \in Nat
        /\ restarts \in Nat /\ outages \in Nat
    BY DEF Init
  <2> QED
    BY <2>1, <2>2, <2>3, <2>4 DEF TypeOK
<1>2. Declaring /\ FlagMatchesLoop /\ OneSessionInUse
  BY DEF Init, Declaring, FlagMatchesLoop, OneSessionInUse
<1>3. FutureSessionsBlank /\ PutsOnCompleteSessions
  BY DEF Init, FutureSessionsBlank, PutsOnCompleteSessions
<1>4. LeakAccount
  BY DEF Init, LeakAccount
<1> QED
  BY <1>1, <1>2, <1>3, <1>4 DEF SessionInv

\* What others than the board do.
Leases  == \E s \in SessionId : LeaseExpires(s) \/ RouterExpires(s)
Router  == RouterStops \/ RouterStarts
Path    == PathBreaks \/ PathHeals
Console == \/ \E c \in Commands : SendCommand(c)
           \/ \E m \in inflight : LoseCommand(m)
           \/ \E c \in Commands, s \in SessionId : HandleCommand(c, s)
           \/ TypeLine

\* The account of the sessions is of the board's own variables and the link.
LEMMA AccountUntouched ==
  ASSUME SessionInv, UNCHANGED <<boardVars, linkUp, puts, drops, aborts>>, TypeOK'
  PROVE  SessionInv'
<1>1. /\ UNCHANGED <<pc, driver, csiUp, zenohUp, opened, declared, handle, linkUp>>
      /\ UNCHANGED <<puts, drops, aborts>>
  BY DEF boardVars
<1>2. Declaring' /\ FlagMatchesLoop' /\ FutureSessionsBlank'
  BY <1>1 DEF SessionInv, Declaring, FlagMatchesLoop, FutureSessionsBlank
<1>3. OneSessionInUse' /\ PutsOnCompleteSessions'
  BY <1>1 DEF SessionInv, OneSessionInUse, PutsOnCompleteSessions, Complete
<1>4. LeakAccount'
  BY <1>1 DEF SessionInv, LeakAccount, LinkCredit
<1> QED
  BY <1>2, <1>3, <1>4 DEF SessionInv

\* A lease that runs out on either side takes one attachment off.
LEMMA LeasesStep == ASSUME SessionInv, Leases PROVE SessionInv'
<1>1. TypeOK
  BY DEF SessionInv
<1>2. /\ UNCHANGED <<boardVars, linkUp, puts, drops, aborts>>
      /\ UNCHANGED <<routerUp, restarts, pathVars, commandVars, serialVars>>
      /\ peers' \subseteq peers /\ attached' \subseteq attached
  BY DEF Leases, LeaseExpires, RouterExpires, routerVars
<1>3. TypeOK'
  BY <1>1, <1>2 DEF TypeOK, boardVars, pathVars, commandVars, serialVars
<1> QED
  BY <1>2, <1>3, AccountUntouched

\* A router that stops forgets who was attached.
LEMMA RouterStep == ASSUME SessionInv, Router PROVE SessionInv'
<1>1. TypeOK
  BY DEF SessionInv
<1>2. /\ UNCHANGED <<boardVars, linkUp, puts, drops, aborts>>
      /\ UNCHANGED <<peers, pathVars, commandVars, serialVars>>
      /\ routerUp' \in BOOLEAN /\ attached' \subseteq attached
      /\ restarts' = restarts \/ restarts' = restarts + 1
  BY DEF Router, RouterStops, RouterStarts
<1>3. restarts' \in Nat
  BY <1>1, <1>2 DEF TypeOK
<1>4. TypeOK'
  BY <1>1, <1>2, <1>3 DEF TypeOK, boardVars, pathVars, commandVars, serialVars
<1> QED
  BY <1>2, <1>4, AccountUntouched

\* The path breaks and heals without the board or the router changing.
LEMMA PathStep == ASSUME SessionInv, Path PROVE SessionInv'
<1>1. TypeOK
  BY DEF SessionInv
<1>2. /\ UNCHANGED <<boardVars, linkUp, puts, drops, aborts>>
      /\ UNCHANGED <<peers, routerVars, commandVars, serialVars>>
      /\ pathUp' \in BOOLEAN
      /\ outages' = outages \/ outages' = outages + 1
  BY DEF Path, PathBreaks, PathHeals
<1>3. outages' \in Nat
  BY <1>1, <1>2 DEF TypeOK
<1>4. TypeOK'
  BY <1>1, <1>2, <1>3 DEF TypeOK, boardVars, routerVars, commandVars, serialVars
<1> QED
  BY <1>2, <1>4, AccountUntouched

\* Commands and lines on their way, and a step of nobody.
LEMMA ConsoleStep == ASSUME SessionInv, Console \/ UNCHANGED vars PROVE SessionInv'
<1>1. TypeOK
  BY DEF SessionInv
<1>2. /\ UNCHANGED <<boardVars, linkUp, puts, drops, aborts>>
      /\ UNCHANGED <<peers, routerVars, pathVars>>
  BY DEF Console, SendCommand, LoseCommand, HandleCommand, TypeLine, vars
<1>3. /\ lines' \in Nat /\ typed' \in Nat /\ inflight' \subseteq Commands \X SessionId
      /\ handled' \in [Commands -> Nat] /\ sent' \subseteq Commands
  <2>1. ASSUME NEW c \in Commands, SendCommand(c)
        PROVE  /\ UNCHANGED <<handled, serialVars>> /\ sent' \subseteq Commands
               /\ inflight' \subseteq Commands \X SessionId
    BY <1>1, <2>1 DEF SendCommand, TypeOK
  <2>2. ASSUME NEW m \in inflight, LoseCommand(m)
        PROVE  UNCHANGED <<handled, sent, serialVars>> /\ inflight' \subseteq inflight
    BY <2>2 DEF LoseCommand
  <2>3. ASSUME NEW c \in Commands, NEW s \in SessionId, HandleCommand(c, s)
        PROVE  /\ UNCHANGED <<sent, serialVars>> /\ inflight' \subseteq inflight
               /\ handled' \in [Commands -> Nat]
    BY <1>1, <2>3 DEF HandleCommand, TypeOK
  <2>4. ASSUME TypeLine
        PROVE  UNCHANGED <<commandVars>> /\ lines' \in Nat /\ typed' \in Nat
    BY <1>1, <2>4 DEF TypeLine, TypeOK
  <2>5. ASSUME UNCHANGED vars PROVE UNCHANGED <<commandVars, serialVars>>
    BY <2>5 DEF vars
  <2>6. /\ lines \in Nat /\ typed \in Nat /\ inflight \subseteq Commands \X SessionId
        /\ handled \in [Commands -> Nat] /\ sent \subseteq Commands
    BY <1>1 DEF TypeOK
  <2>7. CASE \E c \in Commands : SendCommand(c)
    BY <2>1, <2>6, <2>7 DEF serialVars
  <2>8. CASE \E m \in inflight : LoseCommand(m)
    BY <2>2, <2>6, <2>8 DEF serialVars
  <2>9. CASE \E c \in Commands, s \in SessionId : HandleCommand(c, s)
    BY <2>3, <2>6, <2>9 DEF serialVars
  <2>10. CASE TypeLine \/ UNCHANGED vars
    BY <2>4, <2>5, <2>6, <2>10 DEF commandVars, serialVars
  <2> QED
    BY <2>7, <2>8, <2>9, <2>10 DEF Console
<1>4. TypeOK'
  BY <1>1, <1>2, <1>3 DEF TypeOK, boardVars, routerVars, pathVars
<1> QED
  BY <1>2, <1>4, AccountUntouched

\* Every step keeps the invariant, one step of the proof per action.
LEMMA StepPreserves == SessionInv /\ [Next]_vars => SessionInv'
<1> SUFFICES ASSUME SessionInv, [Next]_vars  PROVE SessionInv'
  OBVIOUS
<1> USE BoundsAssumption, DeclarationsFacts
<1> USE DEF SessionInv, TypeOK, Declaring, FlagMatchesLoop, FutureSessionsBlank,
            OneSessionInUse, PutsOnCompleteSessions, LeakAccount, LinkCredit, Complete,
            SessionId, boardVars, routerVars, pathVars, commandVars, serialVars
<1>1. CASE Setup
  BY <1>1 DEF Setup
<1>2. CASE WaitLink
  BY <1>2 DEF WaitLink
<1>3. CASE PollInputs
  BY <1>3 DEF PollInputs
<1>4. CASE Cabin
  BY <1>4 DEF Cabin
<1>5. CASE CheckLink
  <2> USE <1>5 DEF CheckLink
  <2>1. TypeOK'
    OBVIOUS
  <2>2. /\ FlagMatchesLoop' /\ OneSessionInUse'
    OBVIOUS
  <2>3. LeakAccount'
    OBVIOUS
  <2> QED
    BY <2>1, <2>2, <2>3
<1>6. CASE OpenOK
  BY <1>6 DEF OpenOK
<1>7. CASE OpenFail
  BY <1>7 DEF OpenFail
<1>8. CASE DeclareOK
  <2> DEFINE next == declared[opened] + 1
  <2> USE <1>8 DEF DeclareOK
  <2>1. opened \in SessionId /\ next \in 1..Len(Declarations) /\ Declarations[next] \in Handle
    OBVIOUS
  <2>2. TypeOK'
    BY <2>1
  <2>3. /\ declared'[opened] = next
        /\ \A s \in SessionId : s # opened => declared'[s] = declared[s]
        /\ handle'[Declarations[next]] = opened
        /\ \A h \in Handle : h # Declarations[next] => handle'[h] = handle[h]
        /\ opened' = opened
    BY <2>1
  <2>4. \A i \in 1..next : handle'[Declarations[i]] = opened
    BY <2>1, <2>3
  <2>5. Declaring'
    BY <2>1, <2>3, <2>4
  <2>9. FlagMatchesLoop'
    BY <2>1
  <2>10. FutureSessionsBlank'
    BY <2>1, <2>3
  <2>6. OneSessionInUse'
    <3>1. opened > 0 /\ (zenohUp' => next = Len(Declarations))
      OBVIOUS
    <3>2. \A h \in Handle : \E i \in 1..Len(Declarations) : h = Declarations[i]
      BY DEF Handle
    <3>3. ASSUME next = Len(Declarations), NEW h \in Handle  PROVE handle'[h] = opened
      <4>1. PICK i \in 1..Len(Declarations) : h = Declarations[i]
        BY <3>2
      <4> QED
        BY <2>4, <3>3, <4>1
    <3>4. QED
      BY <2>3, <3>1, <3>3
  <2>7. PutsOnCompleteSessions'
    BY <2>1, <2>3
  <2>8. LeakAccount'
    OBVIOUS
  <2> QED
    BY <2>2, <2>5, <2>6, <2>7, <2>8, <2>9, <2>10
<1>9. CASE DeclareFail
  <2> USE <1>9 DEF DeclareFail
  <2>1. ~zenohUp' /\ pc' = "inputs" /\ aborts' = aborts + 1 /\ aborts' \in Nat
    OBVIOUS
  <2>2. handle' \in [Handle -> 0..MaxOpens]
    OBVIOUS
  <2>3. TypeOK'
    BY <2>1, <2>2
  <2>4. Declaring' /\ FlagMatchesLoop' /\ FutureSessionsBlank' /\ OneSessionInUse'
          /\ PutsOnCompleteSessions'
    BY <2>1
  <2>5. LeakAccount'
    BY <2>1
  <2> QED
    BY <2>3, <2>4, <2>5
<1>10. CASE Publish
  <2> USE <1>10 DEF Publish
  <2>1. opened > 0 /\ Complete(opened) /\ \A h \in Handle : handle[h] = opened
    OBVIOUS
  <2>2. puts' \subseteq puts \cup {opened}
    BY <2>1
  <2>3. PutsOnCompleteSessions'
    <3>1. \A s \in puts \cup {opened} : s # 0 /\ declared[s] = Len(Declarations)
      BY <2>1
    <3>2. declared' = declared
      OBVIOUS
    <3> QED
      BY <2>2, <3>1, <3>2
  <2>5. puts' \subseteq 0..MaxOpens
    BY <2>1, <2>2
  <2>6. TypeOK'
    BY <2>5
  <2>4. Declaring' /\ FlagMatchesLoop' /\ FutureSessionsBlank' /\ OneSessionInUse' /\ LeakAccount'
    OBVIOUS
  <2> QED
    BY <2>3, <2>4, <2>6
<1>11. CASE LinkRises
  BY <1>11 DEF LinkRises
<1>12. CASE LinkFalls
  <2> USE <1>12 DEF LinkFalls
  <2>1. TypeOK'
    <3>1. linkUp' \in BOOLEAN
      OBVIOUS
    <3>2. drops' \in Nat
      OBVIOUS
    <3> QED
      BY <3>1, <3>2
  <2>2. Declaring' /\ FlagMatchesLoop' /\ FutureSessionsBlank' /\ OneSessionInUse'
           /\ PutsOnCompleteSessions'
    OBVIOUS
  <2>3. LeakAccount'
    OBVIOUS
  <2> QED
    BY <2>1, <2>2, <2>3
<1>13. CASE Leases \/ Router \/ Path \/ Console \/ UNCHANGED vars
  <2> HIDE DEF SessionInv
  <2> QED
    BY <1>13, LeasesStep, RouterStep, PathStep, ConsoleStep
<1> QED
  BY <1>1, <1>2, <1>3, <1>4, <1>5, <1>6, <1>7, <1>8, <1>9, <1>10, <1>11, <1>12, <1>13
  DEF Next, Main, Environment, Leases, Router, Path, Console

-----------------------------------------------------------------------------
\* The types hold in every reachable state.  TypeOK is not inductive by itself:
\* that declared[opened] stays in range needs to know that startZenoh() stops
\* after the last declaration.
THEOREM TypeCorrect == Spec => []TypeOK
<1>1. SessionInv => TypeOK  BY DEF SessionInv
<1> QED  BY <1>1, InitEstablishes, StepPreserves, PTL DEF Spec

\* With s_zenoh_up set, every handle of the firmware belongs to the newest
\* session and that session is fully declared.
THEOREM HandlesOfOneSession == Spec => []OneSessionInUse
<1>1. SessionInv => OneSessionInUse  BY DEF SessionInv
<1> QED  BY <1>1, InitEstablishes, StepPreserves, PTL DEF Spec

\* No publication ever leaves on a session whose startZenoh() failed half-way.
THEOREM PublishesOnCompleteSessions == Spec => []PutsOnCompleteSessions
<1>1. SessionInv => PutsOnCompleteSessions  BY DEF SessionInv
<1> QED  BY <1>1, InitEstablishes, StepPreserves, PTL DEF Spec

\* Sessions are never closed, but one is opened only for boot, for a link loss
\* or for a half-way failure.
THEOREM LeakIsBounded == Spec => []SessionLeakBound
<1>1. SessionInv => SessionLeakBound
  <2> SUFFICES ASSUME SessionInv  PROVE SessionLeakBound
    OBVIOUS
  <2>1. /\ opened \in Nat /\ drops \in Nat /\ aborts \in Nat /\ linkUp \in BOOLEAN
        /\ zenohUp \in BOOLEAN
    BY BoundsAssumption DEF SessionInv, TypeOK
  <2>2. opened <= aborts + drops + LinkCredit
    BY <2>1 DEF SessionInv, LeakAccount, LinkCredit
  <2> QED
    BY <2>1, <2>2 DEF SessionLeakBound, LinkCredit
<1> QED  BY <1>1, InitEstablishes, StepPreserves, PTL DEF Spec

\* The inductive invariant itself, which the runs check too.
THEOREM SessionInvariant == Spec => []SessionInv
BY InitEstablishes, StepPreserves, PTL DEF Spec

-----------------------------------------------------------------------------
(* How often a LAN command is executed. *)

\* The sessions command c is on its way to.
OnItsWay(c) == {s \in SessionId : <<c, s>> \in inflight}

\* Each copy of a command is one session's, and is handled once or lost.
CopiesInv ==
  \A c \in Commands :
    /\ c \notin sent => OnItsWay(c) = {} /\ handled[c] = 0
    /\ handled[c] + Cardinality(OnItsWay(c)) <= opened

\* There are finitely many copies.
LEMMA CopiesFinite ==
  ASSUME SessionInv, NEW c
  PROVE  IsFiniteSet(OnItsWay(c)) /\ Cardinality(OnItsWay(c)) \in Nat
<1>1. IsFiniteSet(SessionId)
  BY BoundsAssumption, FS_Interval DEF BoundsAssumption, SessionId
<1>2. OnItsWay(c) \in SUBSET SessionId
  BY DEF OnItsWay
<1>3. QED
  BY <1>1, <1>2, FS_Subset, FS_CardinalityType

\* The router makes one copy for each session that has declared the LED subscriber, and
\* only sessions that were opened have.
LEMMA SendStep ==
  ASSUME SessionInv, CopiesInv, NEW c \in Commands, SendCommand(c) PROVE CopiesInv'
<1>1. UNCHANGED <<handled, opened, declared>> /\ c \notin sent /\ sent' = sent \cup {c}
  BY DEF SendCommand, boardVars
<1>2. OnItsWay(c)' \in SUBSET (1..opened)
  <2>1. OnItsWay(c) = {}
    BY <1>1 DEF CopiesInv
  <2>2. OnItsWay(c)' \subseteq {r \in SessionId : declared[r] >= LedPosition}
    BY <2>1 DEF SendCommand, OnItsWay, SessionInv, TypeOK
  <2>3. \A r \in SessionId : declared[r] >= LedPosition => r <= opened
    BY BoundsAssumption
       DEF BoundsAssumption, SessionInv, TypeOK, FutureSessionsBlank, SessionId, LedPosition
  <2>4. opened \in Nat
    BY BoundsAssumption DEF BoundsAssumption, SessionInv, TypeOK
  <2>5. QED
    BY <2>2, <2>3, <2>4, BoundsAssumption DEF BoundsAssumption, SessionId
<1>3. handled'[c] + Cardinality(OnItsWay(c)') <= opened'
  <2>1. opened \in Nat
    BY BoundsAssumption DEF BoundsAssumption, SessionInv, TypeOK
  <2>2. IsFiniteSet(1..opened) /\ Cardinality(1..opened) = opened
    BY <2>1, FS_Interval
  <2>3. Cardinality(OnItsWay(c)') <= opened /\ Cardinality(OnItsWay(c)') \in Nat
    BY <1>2, <2>2, FS_Subset, FS_CardinalityType
  <2>4. handled'[c] = 0
    BY <1>1 DEF CopiesInv
  <2>5. QED
    BY <1>1, <2>3, <2>4
<1>4. \A d \in Commands : d # c => OnItsWay(d)' = OnItsWay(d)
  BY DEF SendCommand, OnItsWay
<1>5. QED
  BY <1>1, <1>3, <1>4 DEF CopiesInv

\* A copy that is lost or handled is gone.
LEMMA CopyGone ==
  ASSUME SessionInv, NEW c \in Commands, NEW s \in SessionId, <<c, s>> \in inflight,
         inflight' = inflight \ {<<c, s>>}
  PROVE  /\ Cardinality(OnItsWay(c)') = Cardinality(OnItsWay(c)) - 1
         /\ \A d \in Commands : d # c => OnItsWay(d)' = OnItsWay(d)
<1>1. OnItsWay(c)' = OnItsWay(c) \ {s} /\ s \in OnItsWay(c)
  BY DEF OnItsWay
<1>2. Cardinality(OnItsWay(c)') = Cardinality(OnItsWay(c)) - 1
  BY <1>1, CopiesFinite, FS_RemoveElement
<1>3. QED
  BY <1>2 DEF OnItsWay

\* A copy lost leaves room for one.
LEMMA LoseStep ==
  ASSUME SessionInv, CopiesInv, NEW m \in inflight, LoseCommand(m) PROVE CopiesInv'
<1>1. PICK c \in Commands, s \in SessionId : m = <<c, s>>
  BY DEF SessionInv, TypeOK
<1>2. UNCHANGED <<handled, opened, sent>> /\ inflight' = inflight \ {<<c, s>>}
  BY <1>1 DEF LoseCommand, boardVars
<1>3. /\ Cardinality(OnItsWay(c)') = Cardinality(OnItsWay(c)) - 1
      /\ \A d \in Commands : d # c => OnItsWay(d)' = OnItsWay(d)
  BY <1>1, <1>2, CopyGone
<1>4. /\ c \in sent /\ handled[c] \in Nat /\ opened \in Nat
      /\ Cardinality(OnItsWay(c)) \in Nat
  <2>1. s \in OnItsWay(c)
    BY <1>1 DEF OnItsWay
  <2>2. QED
    BY <2>1, CopiesFinite, BoundsAssumption DEF BoundsAssumption, CopiesInv, SessionInv, TypeOK
<1>5. handled[c] + Cardinality(OnItsWay(c)') <= opened
  BY <1>3, <1>4 DEF CopiesInv
<1>6. QED
  BY <1>2, <1>3, <1>4, <1>5 DEF CopiesInv

\* A copy handled moves from one side of the account to the other.
LEMMA HandleStep ==
  ASSUME SessionInv, CopiesInv, NEW c \in Commands, NEW s \in SessionId, HandleCommand(c, s)
  PROVE  CopiesInv'
<1>1. /\ UNCHANGED <<opened, sent>> /\ inflight' = inflight \ {<<c, s>>} /\ <<c, s>> \in inflight
      /\ handled' = [handled EXCEPT ![c] = handled[c] + 1]
  BY DEF HandleCommand, boardVars
<1>2. /\ Cardinality(OnItsWay(c)') = Cardinality(OnItsWay(c)) - 1
      /\ \A d \in Commands : d # c => OnItsWay(d)' = OnItsWay(d)
  BY <1>1, CopyGone
<1>3. /\ c \in sent /\ handled[c] \in Nat /\ opened \in Nat
      /\ Cardinality(OnItsWay(c)) \in Nat
  <2>1. s \in OnItsWay(c)
    BY <1>1 DEF OnItsWay
  <2>2. QED
    BY <2>1, CopiesFinite, BoundsAssumption DEF BoundsAssumption, CopiesInv, SessionInv, TypeOK
<1>4. /\ handled'[c] = handled[c] + 1
      /\ \A d \in Commands : d # c => handled'[d] = handled[d]
  BY <1>1 DEF SessionInv, TypeOK
<1>5. handled'[c] + Cardinality(OnItsWay(c)') <= opened
  BY <1>2, <1>3, <1>4 DEF CopiesInv
<1>6. QED
  BY <1>1, <1>2, <1>3, <1>4, <1>5 DEF CopiesInv

\* Nothing else makes a copy or executes one, and no session is ever un-opened.
LEMMA CopiesStep == SessionInv /\ CopiesInv /\ [Next]_vars => CopiesInv'
<1> SUFFICES ASSUME SessionInv, CopiesInv, [Next]_vars PROVE CopiesInv'
  OBVIOUS
<1>1. opened \in Nat /\ \A c \in Commands : handled[c] \in Nat
  BY BoundsAssumption DEF BoundsAssumption, SessionInv, TypeOK
<1>2. ASSUME UNCHANGED commandVars, opened' \in {opened, opened + 1} PROVE CopiesInv'
  <2>1. \A c \in Commands : OnItsWay(c)' = OnItsWay(c) /\ Cardinality(OnItsWay(c)) \in Nat
    BY <1>2, CopiesFinite DEF commandVars, OnItsWay
  <2>2. UNCHANGED <<handled, sent>>
    BY <1>2 DEF commandVars
  <2>3. \A c \in Commands : handled[c] + Cardinality(OnItsWay(c)) <= opened'
    BY <1>1, <1>2, <2>1 DEF CopiesInv
  <2>4. QED
    BY <2>1, <2>2, <2>3 DEF CopiesInv
<1>3. CASE Main
  BY <1>2, <1>3
     DEF Main, Setup, WaitLink, PollInputs, Cabin, CheckLink, OpenOK, OpenFail, DeclareOK,
         DeclareFail, Publish
<1>4. CASE \/ LinkRises \/ LinkFalls \/ RouterStops \/ RouterStarts \/ TypeLine
           \/ PathBreaks \/ PathHeals
           \/ \E s \in SessionId : LeaseExpires(s) \/ RouterExpires(s)
           \/ UNCHANGED vars
  BY <1>2, <1>4
     DEF LinkRises, LinkFalls, RouterStops, RouterStarts, PathBreaks, PathHeals, TypeLine,
         LeaseExpires, RouterExpires, vars, boardVars
<1>5. QED
  BY <1>3, <1>4, SendStep, LoseStep, HandleStep DEF Next, Environment

\* A LAN command is executed once for each session at most, so a board that has lost no
\* link and failed no declaration executes it once: the old sessions' subscribers are all
\* that repeats one.
THEOREM RepetitionIsBounded == Spec => []HandledBound
<1>1. Init => CopiesInv
  <2> SUFFICES ASSUME Init, NEW c \in Commands
               PROVE  OnItsWay(c) = {} /\ handled[c] = 0 /\ opened = 0
    BY FS_EmptySet DEF CopiesInv
  <2>1. QED
    BY DEF Init, OnItsWay
<1>2. SessionInv /\ CopiesInv /\ SessionLeakBound => HandledBound
  <2> SUFFICES ASSUME SessionInv, CopiesInv, SessionLeakBound, NEW c \in Commands
               PROVE  handled[c] <= 1 + drops + aborts
    BY DEF HandledBound
  <2>1. /\ handled[c] \in Nat /\ opened \in Nat /\ drops \in Nat /\ aborts \in Nat
        /\ Cardinality(OnItsWay(c)) \in Nat
    BY CopiesFinite, BoundsAssumption DEF BoundsAssumption, SessionInv, TypeOK
  <2>2. QED
    BY <2>1 DEF CopiesInv, SessionLeakBound
<1>3. QED
  BY <1>1, <1>2, CopiesStep, SessionInvariant, LeakIsBounded, PTL DEF Spec
=============================================================================
