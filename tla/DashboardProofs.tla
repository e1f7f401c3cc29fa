---------------------------- MODULE DashboardProofs ----------------------------
(***************************************************************************)
(* Proofs about Dashboard, for any boards, subscriptions, reports, window  *)
(* and delay of a callback: the types (TypesHold), among them that no more *)
(* than MAX_RECENT samples of a board are ever kept; that what the page    *)
(* says of a board is off by the delay of a callback at most               *)
(* (AliveHonestHolds); and that the links it shows are those of the newest *)
(* reports kept (LinksCurrentHolds).                                       *)
(***************************************************************************)
EXTENDS Dashboard, TLAPS

\* The session and its thread.
SessionTypes ==
  /\ router \in BOOLEAN
  /\ thread \in {"opening", "declaring", "asleep", "backoff"}
  /\ declared \in 0..Len(Subscribers)
  /\ thread = "declaring" => declared < Len(Subscribers)
  /\ deaf \in BOOLEAN
  /\ losses \in Nat

\* What a callback may be filing.
Sample == [board : Boards, report : Report, age : 0..Delay]

CallbackTypes == callback \in [Subscriber -> Sample \cup {Idle}]

\* The files.
FileTypes ==
  /\ recent \in [Boards -> Seq(Report)]
  /\ \A b \in Boards : Len(recent[b]) <= MAX_RECENT
  /\ seen \in [Boards -> 0..Window \cup 0..Delay]
  /\ heard \in [Boards -> 0..Window]
  /\ newest \in [Boards -> Report \cup {NoReport}]
  /\ behind \in [Boards -> 0..MAX_RECENT]

\* The time of the last callback is never that of a newer sample than the newest, and
\* older than that by the delay of a callback at most.
SeenNearHeard == \A b \in Boards : heard[b] <= seen[b] /\ seen[b] <= heard[b] + Delay

DashboardInv == SessionTypes /\ CallbackTypes /\ FileTypes /\ SeenNearHeard

-----------------------------------------------------------------------------
\* Something is subscribed to.
LEMMA SomeSubscribers == Len(Subscribers) \in Nat /\ Len(Subscribers) > 0
BY DashboardAssumption DEF DashboardAssumption

\* The window and the delay are times.
LEMMA Times == Window \in Nat /\ Delay \in Nat
BY DashboardAssumption DEF DashboardAssumption

\* The initial states: no session, no samples.
LEMMA InitEstablishes == Init => DashboardInv
<1> SUFFICES ASSUME Init PROVE DashboardInv
  OBVIOUS
<1>1. SessionTypes
  <2>1. router \in BOOLEAN /\ thread = "opening" /\ declared = 0 /\ deaf = FALSE /\ losses = 0
    BY DEF Init
  <2>2. 0 \in 0..Len(Subscribers)
    BY SomeSubscribers
  <2>3. QED
    BY <2>1, <2>2 DEF SessionTypes
<1>2. CallbackTypes
  BY DEF Init, CallbackTypes
<1>3. SeenNearHeard
  <2>1. \A b \in Boards : seen[b] = Window /\ heard[b] = Window
    BY DEF Init
  <2>2. Window <= Window /\ Window <= Window + Delay
    BY Times
  <2>3. QED
    BY <2>1, <2>2 DEF SeenNearHeard
<1> USE DashboardAssumption DEF Init, DashboardAssumption
<1>4. FileTypes
  <2>1. recent \in [Boards -> Seq(Report)] /\ \A b \in Boards : Len(recent[b]) <= MAX_RECENT
    OBVIOUS
  <2>2. /\ seen \in [Boards -> 0..Window \cup 0..Delay] /\ heard \in [Boards -> 0..Window]
        /\ behind \in [Boards -> 0..MAX_RECENT]
    OBVIOUS
  <2>3. newest \in [Boards -> Report \cup {NoReport}]
    OBVIOUS
  <2>4. QED
    BY <2>1, <2>2, <2>3 DEF FileTypes
<1>5. QED
  BY <1>1, <1>2, <1>3, <1>4 DEF DashboardInv

\* What a deque of bounded length holds is of the same kind, and no more than before.
LEMMA AppendedBounded ==
  ASSUME NEW q \in Seq(Report), Len(q) <= MAX_RECENT, NEW r \in Report
  PROVE  Appended(q, r) \in Seq(Report) /\ Len(Appended(q, r)) <= MAX_RECENT
<1> USE DashboardAssumption DEF DashboardAssumption
<1>1. CASE Len(q) < MAX_RECENT
  BY <1>1 DEF Appended
<1>2. CASE ~(Len(q) < MAX_RECENT)
  <2>1. q # <<>> /\ Len(q) = MAX_RECENT
    BY <1>2
  <2>2. Tail(q) \in Seq(Report) /\ Len(Tail(q)) = MAX_RECENT - 1
    BY <2>1
  <2>3. QED
    BY <1>2, <2>2 DEF Appended
<1>3. QED
  BY <1>1, <1>2

-----------------------------------------------------------------------------
\* A callback files its sample: the deque stays within its length, and the time of the
\* sample is near that of the newest.
LEMMA FileStep == ASSUME DashboardInv, NEW s \in Subscriber, File(s) PROVE DashboardInv'
<1> DEFINE c == callback[s]
<1> USE DashboardAssumption DEF DashboardAssumption
<1>0. SessionTypes /\ CallbackTypes /\ FileTypes /\ SeenNearHeard
  BY DEF DashboardInv
<1>1. c \in Sample
  BY <1>0 DEF File, CallbackTypes
<1>2. c.board \in Boards /\ c.report \in Report /\ c.age \in 0..Delay
  BY <1>1 DEF Sample
<1>3. SessionTypes'
  BY <1>0 DEF File, session, SessionTypes
<1>4. CallbackTypes'
  BY <1>0 DEF File, CallbackTypes
<1>5. FileTypes'
  <2>1. recent' \in [Boards -> Seq(Report)] /\ \A b \in Boards : Len(recent'[b]) <= MAX_RECENT
    <3>1. recent' = [recent EXCEPT ![c.board] = Appended(recent[c.board], c.report)]
      BY DEF File
    <3>2. /\ Appended(recent[c.board], c.report) \in Seq(Report)
          /\ Len(Appended(recent[c.board], c.report)) <= MAX_RECENT
      BY <1>0, <1>2, AppendedBounded DEF FileTypes
    <3>3. QED
      BY <1>0, <1>2, <3>1, <3>2 DEF FileTypes
  <2>2. seen' \in [Boards -> 0..Window \cup 0..Delay]
    BY <1>0, <1>2 DEF File, FileTypes
  <2>3. heard' \in [Boards -> 0..Window]
    BY <1>0, <1>2 DEF File, FileTypes
  <2>4. newest' \in [Boards -> Report \cup {NoReport}]
    BY <1>0, <1>2 DEF File, FileTypes
  <2>5. behind' \in [Boards -> 0..MAX_RECENT]
    <3>1. PICK n : /\ n = IF c.report # NoReport THEN 0
                          ELSE IF behind[c.board] < MAX_RECENT THEN behind[c.board] + 1
                          ELSE behind[c.board]
                   /\ behind' = [behind EXCEPT ![c.board] = n]
      BY DEF File
    <3>2. behind \in [Boards -> 0..MAX_RECENT] /\ behind[c.board] \in 0..MAX_RECENT
      BY <1>0, <1>2 DEF FileTypes
    <3>3. n \in 0..MAX_RECENT
      BY <3>1, <3>2
    <3>4. QED
      BY <3>1, <3>2, <3>3
  <2>6. QED
    BY <2>1, <2>2, <2>3, <2>4, <2>5 DEF FileTypes
<1>6. SeenNearHeard'
  <2> SUFFICES ASSUME NEW b \in Boards
               PROVE  heard'[b] <= seen'[b] /\ seen'[b] <= heard'[b] + Delay
    BY DEF SeenNearHeard
  <2>1. heard[b] \in Nat /\ seen[b] \in Nat /\ heard[b] <= seen[b] /\ seen[b] <= heard[b] + Delay
    BY <1>0 DEF SeenNearHeard, FileTypes
  <2>2. CASE b # c.board
    <3>1. seen'[b] = seen[b] /\ heard'[b] = heard[b]
      BY <1>0, <1>2, <2>2 DEF File, FileTypes
    <3>2. QED
      BY <2>1, <3>1
  <2>3. CASE b = c.board
    <3>1. seen'[b] = c.age /\ heard'[b] = IF c.age < heard[b] THEN c.age ELSE heard[b]
      BY <1>0, <1>2, <2>3 DEF File, FileTypes
    <3>2. QED
      BY <1>2, <2>1, <3>1
  <2>4. QED
    BY <2>2, <2>3
<1>7. QED
  BY <1>3, <1>4, <1>5, <1>6 DEF DashboardInv

\* A second passes for everyone.
LEMMA TickStep == ASSUME DashboardInv, Tick PROVE DashboardInv'
<1> USE DashboardAssumption DEF DashboardAssumption
<1>0. SessionTypes /\ CallbackTypes /\ FileTypes /\ SeenNearHeard
  BY DEF DashboardInv
<1>1. SessionTypes'
  BY <1>0 DEF Tick, session, SessionTypes
<1>2. CallbackTypes'
  <2> SUFFICES ASSUME NEW s \in Subscriber PROVE callback'[s] \in Sample \cup {Idle}
    BY DEF Tick, CallbackTypes
  <2>1. CASE callback[s] = Idle
    BY <2>1 DEF Tick
  <2>2. CASE callback[s] # Idle
    <3>1. callback[s] \in Sample /\ callback[s].age < Delay
      BY <1>0, <2>2 DEF Tick, CallbackTypes
    <3>2. callback'[s] = [callback[s] EXCEPT !.age = callback[s].age + 1]
      BY <2>2 DEF Tick
    <3>3. QED
      BY <3>1, <3>2 DEF Sample
  <2>3. QED
    BY <2>1, <2>2
<1>3. \A b \in Boards : /\ seen[b] \in Nat /\ heard[b] \in 0..Window
                        /\ seen'[b] = Older(seen[b]) /\ heard'[b] = Older(heard[b])
  BY <1>0 DEF Tick, FileTypes
<1>4. FileTypes'
  <2>1. \A n \in Nat : Older(n) \in 0..Window
    BY DEF Older
  <2>2. seen' \in [Boards -> 0..Window \cup 0..Delay] /\ heard' \in [Boards -> 0..Window]
    BY <1>3, <2>1 DEF Tick
  <2>3. QED
    BY <1>0, <2>2 DEF Tick, FileTypes
<1>5. SeenNearHeard'
  BY <1>0, <1>3 DEF SeenNearHeard, Older
<1>6. QED
  BY <1>1, <1>2, <1>4, <1>5 DEF DashboardInv

\* Every step keeps the invariant.
LEMMA StepPreserves == DashboardInv /\ [Next]_vars => DashboardInv'
<1> SUFFICES ASSUME DashboardInv, [Next]_vars PROVE DashboardInv'
  OBVIOUS
<1>0. SessionTypes /\ CallbackTypes /\ FileTypes /\ SeenNearHeard
  BY DEF DashboardInv
<1>1. ASSUME UNCHANGED files PROVE FileTypes' /\ SeenNearHeard'
  BY <1>0, <1>1 DEF files, FileTypes, SeenNearHeard
<1>2. CASE Open \/ Declare \/ Raise \/ Renew \/ RouterStops \/ RouterStarts \/ Orphan
  <2>1. UNCHANGED <<callback, files>>
    BY <1>2 DEF Open, Declare, Raise, Renew, RouterStops, RouterStarts, Orphan
  <2>2. SessionTypes'
    <3>1. CASE Declare
      <4>1. \A n \in Nat : \A d \in 0..n : d < n => d + 1 \in 0..n /\ (d + 1 # n => d + 1 < n)
        OBVIOUS
      <4>2. declared \in 0..Len(Subscribers) /\ declared < Len(Subscribers)
        BY <1>0, <3>1 DEF Declare, SessionTypes
      <4>3. /\ declared + 1 \in 0..Len(Subscribers)
            /\ declared + 1 # Len(Subscribers) => declared + 1 < Len(Subscribers)
        BY <4>1, <4>2, SomeSubscribers
      <4>4. /\ declared' = declared + 1 /\ UNCHANGED <<router, deaf, losses>>
            /\ thread' = IF declared + 1 = Len(Subscribers) THEN "asleep" ELSE "declaring"
        BY <3>1 DEF Declare
      <4>5. QED
        BY <1>0, <4>3, <4>4 DEF SessionTypes
    <3>2. CASE Open \/ Raise \/ Renew
      <4>1. 0 \in 0..Len(Subscribers)
        BY SomeSubscribers
      <4>2. /\ declared' = 0 /\ UNCHANGED <<router, losses>> /\ deaf' \in {FALSE, deaf}
            /\ thread' \in {"opening", "declaring", "backoff"}
        BY <3>2 DEF Open, Raise, Renew
      <4>3. QED
        <5>1. router' \in BOOLEAN /\ deaf' \in BOOLEAN /\ losses' \in Nat
          BY <1>0, <4>2 DEF SessionTypes
        <5>2. declared' \in 0..Len(Subscribers) /\ declared' < Len(Subscribers)
          BY <4>1, <4>2, SomeSubscribers
        <5>3. thread' \in {"opening", "declaring", "asleep", "backoff"}
          BY <4>2
        <5>4. QED
          BY <5>1, <5>2, <5>3 DEF SessionTypes
    <3>3. CASE RouterStops \/ RouterStarts \/ Orphan
      <4>1. UNCHANGED <<thread, declared>>
        BY <3>3 DEF RouterStops, RouterStarts, Orphan
      <4>2. router \in BOOLEAN /\ deaf \in BOOLEAN /\ losses \in Nat
        BY <1>0 DEF SessionTypes
      <4>3. losses' \in {losses, losses + 1} /\ router' \in BOOLEAN /\ deaf' \in BOOLEAN
        BY <3>3, <4>2 DEF RouterStops, RouterStarts, Orphan
      <4>4. losses' \in Nat
        BY <4>2, <4>3
      <4>5. QED
        BY <1>0, <4>1, <4>3, <4>4 DEF SessionTypes
    <3>4. QED
      BY <1>2, <3>1, <3>2, <3>3
  <2>3. CallbackTypes'
    BY <1>0, <2>1 DEF CallbackTypes
  <2>4. QED
    BY <1>1, <2>1, <2>2, <2>3 DEF DashboardInv
<1>3. ASSUME NEW s \in Subscriber, NEW x \in Carries[s], Receive(s, x) PROVE DashboardInv'
  <2>1. x[1] \in Boards /\ x[2] \in Report
    BY DashboardAssumption DEF DashboardAssumption
  <2>2. [board |-> x[1], report |-> x[2], age |-> 0] \in Sample
    BY <2>1, Times DEF Sample
  <2>3. CallbackTypes'
    BY <1>0, <1>3, <2>2 DEF Receive, CallbackTypes
  <2>4. SessionTypes'
    BY <1>0, <1>3 DEF Receive, session, SessionTypes
  <2>5. QED
    BY <1>1, <1>3, <2>3, <2>4 DEF Receive, DashboardInv
<1>4. CASE UNCHANGED vars
  BY <1>0, <1>4 DEF vars, session, files, DashboardInv, SessionTypes, CallbackTypes, FileTypes, SeenNearHeard
<1>5. QED
  BY <1>2, <1>3, <1>4, FileStep, TickStep DEF Next

-----------------------------------------------------------------------------
\* The invariant of the dashboard's zenoh side.
THEOREM DashboardInvariant == Spec => []DashboardInv
BY InitEstablishes, StepPreserves, PTL DEF Spec

\* The types of Dashboard: no deque ever grows past its length, for any number of
\* subscriptions that file into it.
THEOREM TypesHold == Spec => []TypeOK
<1>1. DashboardInv => TypeOK
  BY DEF DashboardInv, SessionTypes, CallbackTypes, FileTypes, Sample, TypeOK
<1>2. QED
  BY DashboardInvariant, <1>1, PTL

\* GET /api/state: a board shown as silent has been so for the window less the delay of a
\* callback, one shown as alive was heard within it, whatever order callbacks filed in.
THEOREM AliveHonestHolds == Spec => []AliveIsHonest
<1>1. DashboardInv => AliveIsHonest
  <2> SUFFICES ASSUME DashboardInv, NEW b \in Boards
               PROVE  /\ ~zenohAlive(b) => heard[b] >= Window - Delay
                      /\ zenohAlive(b) => heard[b] < Window
    BY DEF AliveIsHonest
  <2>1. heard[b] \in Nat /\ seen[b] \in Nat /\ heard[b] <= seen[b] /\ seen[b] <= heard[b] + Delay
    BY Times DEF DashboardInv, FileTypes, SeenNearHeard
  <2>2. QED
    BY <2>1, Times DEF zenohAlive
<1>2. QED
  BY DashboardInvariant, <1>1, PTL

-----------------------------------------------------------------------------
(* The links. *)

\* How many samples an append takes out of a deque.
Gone(q) == IF Len(q) < MAX_RECENT THEN 0 ELSE 1

\* What a deque of bounded length holds after an append: the oldest is gone where it was full.
LEMMA AppendedElements ==
  ASSUME NEW q \in Seq(Report), Len(q) <= MAX_RECENT, NEW r \in Report
  PROVE  /\ Len(Appended(q, r)) = Len(q) + 1 - Gone(q)
         /\ Appended(q, r)[Len(q) + 1 - Gone(q)] = r
         /\ \A i \in 1..(Len(q) - Gone(q)) : Appended(q, r)[i] = q[i + Gone(q)]
<1> DEFINE gone == Gone(q)
<1> USE DashboardAssumption DEF DashboardAssumption
<1>1. CASE Len(q) < MAX_RECENT
  <2>1. Appended(q, r) = Append(q, r) /\ gone = 0
    BY <1>1 DEF Appended, Gone
  <2>2. QED
    BY <2>1
<1>2. CASE ~(Len(q) < MAX_RECENT)
  <2>1. Appended(q, r) = Append(Tail(q), r) /\ gone = 1 /\ q # <<>>
    BY <1>2 DEF Appended, Gone
  <2>2. /\ Tail(q) \in Seq(Report) /\ Len(Tail(q)) = Len(q) - 1
        /\ \A i \in 1..(Len(q) - 1) : Tail(q)[i] = q[i + 1]
    BY <2>1
  <2>3a. PICK t, m : t = Tail(q) /\ m = Len(q)
    OBVIOUS
  <2>3. t = Tail(q) /\ m = Len(q) /\ m \in Nat /\ m > 0
    BY <2>1, <2>3a
  <2>4. /\ Len(Append(t, r)) = m /\ Append(t, r)[m] = r
        /\ \A i \in 1..(m - 1) : Append(t, r)[i] = t[i]
    BY <2>2, <2>3
  <2>5. m + 1 - gone = m /\ m - gone = m - 1
    BY <2>1, <2>3
  <2>6. QED
    BY <2>1, <2>2, <2>3, <2>4, <2>5
<1>3. QED
  BY <1>1, <1>2

\* The newest report of a board is where the samples filed since leave it; behind it, and when
\* it dropped out, there is none.
Latest(b) ==
  /\ behind[b] < MAX_RECENT =>
       /\ behind[b] < Len(recent[b])
       /\ newest[b] # NoReport
       /\ recent[b][Len(recent[b]) - behind[b]] = newest[b]
       /\ \A i \in DOMAIN recent[b] : i > Len(recent[b]) - behind[b] => recent[b][i] = NoReport
  /\ behind[b] = MAX_RECENT => \A i \in DOMAIN recent[b] : recent[b][i] = NoReport

LatestInv == \A b \in Boards : Latest(b)

\* A sample filed leaves the newest report where it is, or becomes it.
LEMMA FileLatest ==
  ASSUME DashboardInv, LatestInv, NEW s \in Subscriber, File(s), NEW b \in Boards
  PROVE  Latest(b)'
<1> DEFINE c == callback[s]
<1> USE DashboardAssumption DEF DashboardAssumption
<1>0. CallbackTypes /\ FileTypes /\ Latest(b)
  BY DEF DashboardInv, LatestInv
<1>1. c.board \in Boards /\ c.report \in Report
  BY <1>0 DEF File, CallbackTypes, Sample
<1>2. CASE b # c.board
  <2>1. recent'[b] = recent[b] /\ newest'[b] = newest[b] /\ behind'[b] = behind[b]
    BY <1>0, <1>1, <1>2 DEF File, FileTypes
  <2>2. QED
    BY <1>0, <2>1 DEF Latest
<1>3. CASE b = c.board
  <2>1. PICK q, r, new, gone, n : /\ q = recent[b] /\ r = c.report /\ new = Appended(q, r)
                                  /\ gone = Gone(q)
                                  /\ n = behind[b]
    OBVIOUS
  <2>2. /\ recent'[b] = new
        /\ newest'[b] = IF r = NoReport THEN newest[b] ELSE r
        /\ behind'[b] = IF r # NoReport THEN 0 ELSE IF n < MAX_RECENT THEN n + 1 ELSE n
    BY <1>0, <1>1, <1>3, <2>1 DEF File, FileTypes
  <2>3. /\ q \in Seq(Report) /\ Len(q) <= MAX_RECENT /\ r \in Report /\ n \in 0..MAX_RECENT
        /\ MAX_RECENT \in Nat /\ MAX_RECENT > 0
    BY <1>0, <1>1, <2>1 DEF FileTypes
  <2>4. /\ Len(new) = Len(q) + 1 - gone
        /\ new[Len(new)] = r
        /\ \A i \in 1..(Len(q) - gone) : new[i] = q[i + gone]
        /\ DOMAIN new = 1..Len(new) /\ Len(new) \in Nat /\ Len(q) \in Nat /\ DOMAIN q = 1..Len(q)
        /\ gone \in {0, 1} /\ Len(new) > 0
    <3>1. new \in Seq(Report)
      BY <2>1, <2>3, AppendedBounded
    <3>2. /\ Len(new) = Len(q) + 1 - gone /\ new[Len(q) + 1 - gone] = r
          /\ \A i \in 1..(Len(q) - gone) : new[i] = q[i + gone]
      BY <2>1, <2>3, AppendedElements
    <3>3. /\ DOMAIN new = 1..Len(new) /\ Len(new) \in Nat /\ Len(q) \in Nat /\ DOMAIN q = 1..Len(q)
          /\ gone \in {0, 1}
      BY <2>1, <2>3, <3>1 DEF Gone
    <3>4. Len(new) > 0
      <4>1. gone = 1 => Len(q) > 0
        BY <2>1, <2>3 DEF Gone
      <4>2. QED
        BY <3>2, <3>3, <4>1
    <3>5. QED
      BY <3>2, <3>3, <3>4
  <2>5. CASE r # NoReport
    <3>1. behind'[b] = 0 /\ newest'[b] = r
      BY <2>2, <2>5
    <3>2. QED
      BY <2>2, <2>3, <2>4, <2>5, <3>1 DEF Latest
  <2>6. CASE r = NoReport /\ n = MAX_RECENT
    <3>1. behind'[b] = MAX_RECENT
      BY <2>2, <2>3, <2>6
    <3>2. \A i \in 1..Len(q) : q[i] = NoReport
      BY <1>0, <2>1, <2>4, <2>6 DEF Latest
    <3>3. ASSUME NEW i \in 1..Len(new) PROVE new[i] = NoReport
      <4>1. i = Len(new) \/ (i \in 1..(Len(q) - gone) /\ i + gone \in 1..Len(q))
        BY <2>4
      <4>2. QED
        BY <2>4, <2>6, <3>2, <4>1
    <3>4. QED
      BY <2>2, <2>4, <3>1, <3>3 DEF Latest
  <2>7. CASE r = NoReport /\ n < MAX_RECENT
    <3>1. behind'[b] = n + 1 /\ newest'[b] = newest[b]
      BY <2>2, <2>7
    <3>2. /\ n < Len(q) /\ newest[b] # NoReport /\ q[Len(q) - n] = newest[b]
          /\ \A i \in 1..Len(q) : i > Len(q) - n => q[i] = NoReport
      BY <1>0, <2>1, <2>4, <2>7 DEF Latest
    <3>3. ASSUME NEW i \in 1..Len(new), i > Len(new) - (n + 1) PROVE new[i] = NoReport
      <4>1. i = Len(new) \/ (i \in 1..(Len(q) - gone) /\ i + gone \in 1..Len(q) /\ i + gone > Len(q) - n)
        <5>1. PICK m, l : m = Len(q) /\ l = Len(new)
          OBVIOUS
        <5>2. /\ m \in Nat /\ l \in Nat /\ n \in Nat /\ gone \in {0, 1} /\ i \in 1..l
              /\ l = m + 1 - gone /\ i > l - (n + 1)
          BY <2>3, <2>4, <3>3, <5>1
        <5>3. i = l \/ (i \in 1..(m - gone) /\ i + gone \in 1..m /\ i + gone > m - n)
          BY <5>2
        <5>4. QED
          BY <5>1, <5>3
      <4>2. QED
        BY <2>4, <2>7, <3>2, <4>1
    <3>4. CASE n + 1 < MAX_RECENT
      <4>1. n + 1 < Len(new)
        <5>1. CASE gone = 0
          BY <2>3, <2>4, <3>2, <5>1
        <5>2. CASE gone = 1
          <6>1. Len(q) = MAX_RECENT
            BY <2>1, <2>3, <2>4, <5>2 DEF Gone
          <6>2. QED
            BY <2>3, <2>4, <3>4, <5>2, <6>1
        <5>3. QED
          BY <2>4, <5>1, <5>2
      <4>2. Len(new) - (n + 1) \in 1..(Len(q) - gone) /\ Len(new) - (n + 1) + gone = Len(q) - n
        BY <2>3, <2>4, <4>1
      <4>3. new[Len(new) - (n + 1)] = newest[b]
        BY <2>4, <3>2, <4>2
      <4>4. n + 1 # MAX_RECENT
        BY <2>3, <3>4
      <4>5. QED
        BY <2>2, <2>4, <3>1, <3>2, <3>3, <4>1, <4>3, <4>4 DEF Latest
    <3>5. CASE ~(n + 1 < MAX_RECENT)
      <4>1. n + 1 = MAX_RECENT /\ Len(new) <= MAX_RECENT
        BY <2>1, <2>3, <2>4, <2>7, <3>5 DEF Gone
      <4>2. \A i \in 1..Len(new) : new[i] = NoReport
        BY <2>3, <2>4, <3>3, <4>1
      <4>3. ~(n + 1 < MAX_RECENT)
        BY <3>5
      <4>4. QED
        BY <2>2, <2>4, <3>1, <4>2, <4>3 DEF Latest
    <3>6. QED
      BY <3>4, <3>5
  <2>8. QED
    BY <2>3, <2>5, <2>6, <2>7
<1>4. QED
  BY <1>2, <1>3

\* Every board's newest report stays where the invariant says.
THEOREM LatestHolds == Spec => []LatestInv
<1>1. Init => LatestInv
  <2> SUFFICES ASSUME Init, NEW b \in Boards PROVE Latest(b)
    BY DEF LatestInv
  <2>1. recent[b] = <<>> /\ behind[b] = MAX_RECENT /\ MAX_RECENT \in Nat
    BY DashboardAssumption DEF Init, DashboardAssumption
  <2>2. QED
    BY <2>1 DEF Latest
<1>2. DashboardInv /\ LatestInv /\ [Next]_vars => LatestInv'
  <2> SUFFICES ASSUME DashboardInv, LatestInv, [Next]_vars PROVE LatestInv'
    OBVIOUS
  <2>1. CASE UNCHANGED <<recent, newest, behind>>
    BY <2>1 DEF LatestInv, Latest
  <2>2. ASSUME NEW s \in Subscriber, File(s) PROVE LatestInv'
    BY <2>2, FileLatest DEF LatestInv
  <2>3. QED
    BY <2>1, <2>2 DEF Next, vars, files, Open, Declare, Raise, Renew, RouterStops, RouterStarts,
                      Orphan, Receive, Tick
<1>3. QED
  BY <1>1, <1>2, DashboardInvariant, PTL DEF Spec

\* csi_links shows the newest report of every board that has one among its last MAX_RECENT
\* samples, and of no other: an old report never comes back, whatever is filed between.
THEOREM LinksCurrentHolds == Spec => []LinksCurrent
<1> DEFINE Reporting == {b \in Boards : behind[b] < MAX_RECENT}
<1>1. DashboardInv /\ LatestInv => LinksCurrent
  <2> SUFFICES ASSUME DashboardInv, LatestInv PROVE LinksCurrent
    OBVIOUS
  <2>1. ASSUME NEW b \in Boards
        PROVE  /\ behind[b] < MAX_RECENT <=> ReportsOf(b) # {}
               /\ behind[b] < MAX_RECENT => Dirs(b) = newest[b]
    <3>1. /\ recent[b] \in Seq(Report) /\ Len(recent[b]) \in Nat /\ DOMAIN recent[b] = 1..Len(recent[b])
          /\ behind[b] \in 0..MAX_RECENT /\ MAX_RECENT \in Nat /\ Latest(b)
      BY DashboardAssumption DEF DashboardInv, FileTypes, LatestInv, DashboardAssumption
    <3>2. CASE behind[b] < MAX_RECENT
      <4>1. PICK n : n = Len(recent[b]) - behind[b]
        OBVIOUS
      <4>2. n \in ReportsOf(b) /\ recent[b][n] = newest[b]
        BY <3>1, <3>2, <4>1 DEF Latest, ReportsOf
      <4>3. \A j \in ReportsOf(b) : j \in Int /\ j <= n
        BY <3>1, <3>2, <4>1 DEF Latest, ReportsOf
      <4>4. \A i \in ReportsOf(b) : (\A j \in ReportsOf(b) : j <= i) => i = n
        BY <4>2, <4>3
      <4>5. (CHOOSE i \in ReportsOf(b) : \A j \in ReportsOf(b) : j <= i) = n
        BY <4>2, <4>3, <4>4
      <4>6. QED
        BY <3>2, <4>2, <4>5 DEF Dirs
    <3>3. CASE ~(behind[b] < MAX_RECENT)
      <4>1. behind[b] = MAX_RECENT
        BY <3>1, <3>3
      <4>2. QED
        BY <3>1, <3>3, <4>1 DEF Latest, ReportsOf
    <3>4. QED
      BY <3>2, <3>3
  <2>2. Named = Reporting
    BY <2>1 DEF Named
  <2>3. \A b \in Reporting : Dirs(b) = newest[b]
    BY <2>1
  <2> HIDE DEF Reporting
  <2>4. csi_links = UNION {{<<rx, p[1], p[2]>> : p \in {q \in newest[rx] : q[1] \in Reporting \ {rx}}} :
                             rx \in Reporting}
    BY <2>2, <2>3 DEF csi_links
  <2>5. QED
    BY <2>4 DEF LinksCurrent, Reporting
<1>2. QED
  BY <1>1, DashboardInvariant, LatestHolds, PTL

=============================================================================
