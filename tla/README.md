# A TLA+ verification of esp32-t1s-bridge

This directory holds TLA+ models of the bridge between ESP32-S3 boards (W5500
Ethernet, zenoh-pico) and a PC (zenohd, dashboard, DDS adapter) over a ring of
two Kontron D10 switches protected by FRER (802.1CB), the TLC configurations
that check them, and proofs checked by TLAPS. Paths below are relative to `src/`.

Every definition that stands for code is mapped to its lines in `PROJECT.json`
("map"); what a library, a switch or the router does is marked external there
and modelled from how the code here uses it.

## 1. The system

| part | files | state it keeps | operations | model |
|---|---|---|---|---|
| Bridge main loop | `firmware/esp32_bridge/zenoh_bridge.cpp` | `s_zenoh_up`, `s_session`, nine to twelve static handles | `zenohBridgeSetup`, `zenohBridgeLoop`, `startZenoh`, `publishCabin`, `ledHandler` | `BridgeSession` |
| RTT window | the same file, 92-117, 166-191, 378-406 | `s_rtt`: count, sum, min, max, last, jitter sum | `pongHandler`, report and reset each second, diagnostic line twice a second | `RttStats` |
| Ethernet | `eth_w5500.h` | `gEthLinkUp`, the driver handle | `ethStart`, `ethEventHandler`, `ethRestart` (no caller) | the link of `BridgeSession` |
| SPI layer | `w5500_spi.h` | mutex, static bounce buffer, six counters | `w5500SpiInit/Deinit/Read/Write`, `w5500Transfer` | `SpiLayer`, `SpiBus` |
| LED and web server | `led_control.h`, `web_server.h` | `gLedState`, the pin, a line buffer | set, toggle, serial poll, three links | who handles a command, in `BridgeSession` |
| CSI link | `csi_link.h` | table of 12 peers, `gCsiUp` | WiFi callback, `csiLinkSetup`, `csiLinkLoop` | `CsiLink` |
| zenoh-pico | `vendor/zenoh-pico` | sessions, table of peers, lease | `z_open`, `z_declare_*`, the lease task | external to `BridgeSession` |
| FRER setup | `pc/frer_setup.py` | none of its own; the configuration of two switches | `main`: about 190 JSON-RPC calls for three boards | `FrerSetup` |
| Dashboard server, switch side | `pc/webapp/server.py` 60-165, 317-355 | what the last poll read of both switches | `_switch_poll_loop`, three endpoints that read and write back a port, and one that raises | `RigControl` |
| Dashboard server, zenoh side | the same file, 168-314 | recent samples and time last seen of each board, a session of 45 s | `_zenoh_thread`, the callbacks, `get_state`, `_csi_links` | `Dashboard` |
| Dashboard pages | `pc/webapp/static` | per-path history of CSI variance | rendering | not modelled |
| PC peer, DDS adapter | `pc/zenoh_peer.py`, `pc/dds_adapter.py` | publishers per key | echo, republish | the echo, in `Experiments` |
| Failover test | `pc/redundancy_failover_test.py` | none | shut a ring link, measure, open it | `RigControl` |
| QoS and congestion | `pc/qos_before_after.py`, `pc/congestion_before_after.py` | none | measure, disturb, measure, restore, measure | `Experiments` |

### How the parts interact

* On a board four kinds of tasks run at once on two cores: the Arduino main task
  (`setup()` and then `loop()`), the Ethernet event task that writes
  `gEthLinkUp`, the tasks of every zenoh-pico session (they call `pongHandler`
  and `ledHandler`), and the WiFi task (it calls `csiRxCallback`). They share
  `s_rtt`, `gLedState`, `gLinks` and `gEthLinkUp` without any lock. The driver's
  tasks share the W5500 through the SPI layer, under a mutex.
* A board publishes its values and an RTT probe to zenohd; `zenoh_peer.py`
  echoes the probe; anyone may send it an LED command. The link is UDP: what is
  sent may be lost. Between the board's port and zenohd lies the ring, which scripts and the page
  change; the board sees only its own port.
* The dashboard's poller reads both switches call by call, through switch1 and the ring, while requests
  of the page and the failover test change the very ports these calls travel
  through. It starts `frer_setup.py` as a process when asked to
  (`POST /api/frer/reapply`), as many at once as there are requests.
* The dashboard's zenoh thread opens a session, subscribes, and renews it every 45 s; one
  callback thread for each subscription files samples under a lock, and `get_state()` reads
  them under it.
* The experiments disturb the network and collect the board's 1 Hz line, which speaks of the
  round trips since the line before it.

### What is hard here, and what should hold

* *Sessions.* A link comes and goes at any point of the loop and of
  `startZenoh()`, which has ten points of failure. What is published must go out on
  one completely declared session, the board must get back into service, and the
  session a reconnection leaves behind must not do harm.
* *The RTT window.* Six fields with invariants between them, written and reset by
  two tasks. No division by zero; numbers that belong together.
* *The SPI layer.* Three attempts, a fold, a mask and one shared bounce buffer. To the
  driver it must look like a bus that answers each call in one piece.
* *The CSI table.* A writer and a reader without a lock; what is printed of a peer must
  have been measured on that peer.
* *The FRER script.* A long sequence of calls, each of which may fail; it is
  rerun over what an earlier run left, and may overlap itself. A stream
  generation without its recovery floods a ring whose spanning tree is off.
* *Controls and poller.* A call may cut the way of its own answer, a writer writes back what it read
  before another wrote, a poll fails half way. Tests must not cut the PC off or leave
  their port shut when they ended well, and the page must not show what is no
  longer so.
* *The zenoh side of the dashboard.* A session may go deaf without a word, and two callbacks
  may file in another order than they took the time. A board that publishes must be shown as alive,
  and one shown as alive must be.
* *Experiments.* A condition is turned on and off call by call, without `finally`, while the
  board averages over the change. What is filed as "during" must be of that time.

`PROJECT.json` lists the hazards one by one at their lines, each with the
properties that cover it or the reason why none does.

## 2. The modules

| module | models | checked by |
|---|---|---|
| `BridgeSession` | main loop, link flag, sessions, router, LED commands, console | `BridgeSession_safety`, `_live`, `_router`, `_once` |
| `RttNumbers` | the numbers of a window, defined a second time from the sequence of its round trips | the two below |
| `RttWindow` | what is promised of the RTT window, in single steps | the property `ImplementsWindow` of the next |
| `RttStats`, `MCRttStats` | the RTT window access by access, and the mapping to `RttWindow`; values for TLC | `RttStats_race`, `_torn` |
| `SpiBus` | what the driver is promised of the SPI layer | the property `ImplementsBus` of the next |
| `SpiLayer` | the SPI layer, and the mapping to `SpiBus` | `SpiLayer_rescue` |
| `CsiLink`, `MCCsiLink` | the table of CSI peers and its report; a symmetry | `CsiLink_report` |
| `FrerSetup`, `MCFrerSetup` | the script and the configuration it builds; the table of boards, and what an earlier attempt left | `FrerSetup_runs` |
| `RigControl`, `MCRigControl` | the endpoints, the failover test and the poller; requests and items polled | `RigControl_ops` |
| `Dashboard`, `MCDashboard` | the zenoh session, the callbacks and what is shown; two boards and their samples | `Dashboard_zenoh` |
| `Experiments` | the QoS and the congestion experiment | `Experiments_labels` |
| `BridgeSessionProofs`, `RttStatsProofs`, `SpiLayerProofs`, `CsiLinkProofs`, `FrerSetupProofs`, `RigControlProofs`, `DashboardProofs`, `ExperimentsProofs` | proofs about the module they are named for | TLAPS |

Definitions marked MUTANT are not part of any specification: each is a way the
code could plausibly have been wrong, kept to show that the property named with
it in `PROJECT.json` notices.

### BridgeSession

`pc` walks through one pass of `zenohBridgeLoop()` in the order of the code:
console and web server (`PollInputs`), `csiLinkLoop()` (`Cabin`), the link check
(`CheckLink`), `z_open()` (`OpenOK`, `OpenFail`), one action for each
declaration of `startZenoh()` (`DeclareOK`, `DeclareFail`), and the
publications (`Publish`). The declarations and their order depend on `NODE_ID`,
as the `#if`s do. `linkUp` is `gEthLinkUp`, which the event task flips between
any two of those steps. Sessions are numbered as they are opened and live
until reboot: `z_open()` overwrites `s_session`, and a failing `startZenoh()` undoes
nothing. `handle[h]` is the session a static publisher or subscriber belongs
to, so that mixing handles of two sessions would show.

On the far side, the router serves the sessions in `attached`, and a board's
session knows the router while it is in `peers`. Leases end after 10 s of
silence, whatever `gEthLinkUp` says: zenoh-pico looks only at what it received
(`lease.c:30-34`). Silence comes from the board's own link, or from the path between its port and
zenohd: `pathUp` is false while ring links are shut, the PC's port is, or a storm fills them
(`README.md:200-207`), and no flag of the board shows it. Because one pass of the loop is far shorter
than a lease, a lease may end over a loss of the board's own link only once the loop has noticed it
(`DownForALease`); over an outage of the path it may end with the session in use (`Silent`).
The board opens its sessions in peer mode; in that mode zenoh-pico's lease task drops a silent peer
and does not reopen the transport, which is why `LeaseExpires` has no
counterpart that puts a session back.

`puts` remembers the sessions something was published on, `handled` counts the
executions of each LED command.

### RttStats and RttWindow

The grain is the access to one field. A handler in a session's task stores its six fields
one after the other, each computed from what it loaded at its start or from
memory as it is now: the compiler may do either. A use of the window by the main
task (`report`, `diag`, or the reset at the end of `startZenoh()`) loads its
fields one by one and a reset stores them one by one. `InOrder = FALSE` lets the
accesses of each come in any order; the theorems hold for both.
`clean`, `base` and `samples` are history: whether anything overlapped since the
last reset, the struct as it would be if each handler were one step, and the
round trips taken in. A load between the two points of a handler, and a torn 64-bit
access, are left out.

`RttWindow` is what the code is meant to promise. Its state is the sequence of round trips
since the last reset and the line that is complete; a pong (`Pong`), a line (`Report`, `Diag`) and a
reset (`Reset`) are one step each. A report line goes only with its window, and a diagnostic line
(`DiagEnds`) leaves the window. Because nothing locks
`s_rtt`, the promise has an exception: `Tear`, after which nothing is said until the next whole `Reset`.
A pong between a report and its reset is in neither window; it overlaps, so it is a `Tear`, and no property
says that it is kept. The
mapping takes `samples` for the window while it is `clean`, counts a pong where its handler returns, and lets
a line stand once all it shows is loaded and no handler came by.

### SpiLayer and SpiBus

Each task stands at a `stage` of a call: `locking`, one of three attempts, or
between an attempt that read into the bounce buffer and `memcpy()`. `Offset`
is what each attempt puts on the wire: the fold first, then the driver's own
offset again, then that offset masked. `Cell` is the chip's own masking. Data is
identified by the place it was read from, which is all `OwnData` needs. Which
reads need the bounce buffer, and which transmissions fail, is left open. Not modelled: the history
of failed reads, which is only printed, and `w5500SpiDeinit()`, which nothing
reaches (`ethRestart()` has no caller).

The comments of this file tell of several designs. The header (24-26) says a read is
split into two transactions; the code makes one, at a folded offset. `splitReads`
(51) counts every read whose pointer is 16 kB or more, not those that cross the
end. The retry (222, "the same read again") is made at the driver's offset, not
at the folded one that failed. The model follows the code.

`SpiBus` is what is promised above it: a call is answered in one step, with the data
of the place it asked for; or fails, and a failed read of the receive buffer is
counted in `lost`; or times out, and only while another call is under way. `Bus` maps
to it: `pending` are the tasks past `idle`, `asked` is `req`, `answer` is
`outcome`, `filled` is `data` once a call has returned `ESP_OK`, and `lost` is
itself. Attempts, folds, the mutex and the copy from the bounce buffer are stutters.

### CsiLink

The WiFi task runs `csiRxCallback()`: `linkSlot()` finds or takes a slot
(`Receive`), then four volatile stores follow in the order of the code (`Store`).
`used` is the last store of taking a slot and a slot whose `frames` is 0 is never reported, so taking it is
one step. The main task's `csiLinkLoop()` ranks (`Rank`, one slot at a time), looks at
the presence thresholds (`LookRssi`, `LookVar`), loads the fields again for
`snprintf()` in any order (`Load`), and goes on to the next rank. A measurement
is named by the frame it was taken on. A station that found no access
point within 15 s of boot has `gCsiUp` false for good.

That the numbers of an entry belong to one frame is not a property: a report
the callback overlaps may mix two frames of one peer. What holds
whatever overlaps is `EntriesMeasured`, and it holds because the count is stored
last; `QuietReportExact` is for a report nothing overlaps.

### FrerSetup

`main` is the sequence of calls `main()` makes, built by operators with the names of its
helpers. `Proceed(s)` makes the next call of script `s` and has a result; `Swallow(s)` is a quiet call
(`stream.add`, the detach, `frer.add`) that the switch answers with an error: it did nothing, and the
script goes on all the same (148-150). `Abort(s)` is a call
that raises, with or without effect, or the process being killed. A
read-modify-write (`set_vlan`) is two calls, so that two scripts interleave
between them. `conf` is the configuration of both switches: matching modes, VLAN
membership, spanning tree, streams, classifiers with the key they were attached
under, FRER instances, static MAC entries. What the switches do with it is
external and taken from the notes at the head of the script and in
`README.md:155-217`: a classifier keeps the key of the matching mode it was
attached under; attaching what is attached changes nothing, or is answered with an error, which is an
`Abort`.

A refused detach matters where the classifier still has its old key: the attach after it finds it
there, and the script goes on to the generation and ends well. `refused` is the history of these
classifiers, each until it is detached after all. `UnabsorbedBound` and `SuccessMeansConfigured` say that this is all
that may be wrong. Whether a D10 ever refuses to detach what is attached is not known here, so no
run calls it a finding.

The initial states are the shipped configuration with the streams and instances an earlier attempt may
have left (`Leftovers`), their classifiers attached before the matching mode was corrected (the
situation the notes describe).

### RigControl

`shut` and `stp` are the flags both switches hold, `by` remembers who wrote a port's last. A
request of the page reads a configuration and writes it back in two calls (`Get`, `Set`);
the failover test goes through its five stages, and `Abort` is an exception at any of them, with or
without the last write having taken effect. `Reach` is the way from the PC to the management
of a switch: through the PC's port on switch1, and for switch2 one ring link besides. Of two ring
links spanning tree lets one forward, so one that is up is enough. Writing a whole configuration
back is abstracted to the flag the writer means to change; what two writers of one port
overwrite of each other is that flag.

The poller reads the items of `PollOrder` one by one (`Read`), may get an error for a call it
does not insist on (`ErrorAnswer`), gives up a switch at any call and goes on to the
other (`Fail`), and puts up what it has in one piece under the lock (`Publish`). `age` counts the
polls put up since an item last changed, which is how "not older than" is said without a
clock.

### Dashboard

The thread is `opening`, `declaring`, `asleep` or in the pause after an exception
(`backoff`). A stop of the router and a session gone deaf without one (`Orphan`, the
situation the comment at 200-206 tells of) set `deaf`, which nothing in the program sees. A
callback takes the time (`Receive`) and later gets the lock (`File`); `Delay` bounds the
time between. Times are kept as ages up to `Window`. `recent` is the deque of the last
samples of a board, of any key. `csi_links` is what `_csi_links()` makes of it; `newest`
and `behind` are history and state the same result from the samples themselves. A MAC is
named by its board, and a foreign network by a name that is none.

### Experiments

Each script stands at a phase; the loop over ports and queues in `set_shaper()` is one step for
each call. `window` is the set of conditions under which the board's round trips since its
last line were made, `latest` that of the last line the script has kept, so "measured under" can be
said. `Report` sends the line and empties the window; a subscriber may lose it.
The flood thread outlives a script broken off (`strays`).

The one assumption on time: a round trip is short against everything else and counts for the condition it
ends in, and a pause of 2 s holds a whole line period, so that one line goes out in it (or
there was nothing to send). A pause of 1 s, which the congestion script makes, is one
period and guarantees nothing: `CongestionLabels` is therefore stated from the second line
of a collection on. Of its "during" nothing is claimed, because the thread may be over before the
collection is.

## 3. The runs

| run | question | answer | bounds |
|---|---|---|---|
| `BridgeSession_safety` | is what is published always on one complete session; is the leak, and the repetition of commands, bounded by what went wrong | yes | NODE_ID 1 (most declarations), 3 sessions, 1 link loss, 1 failed declaration, 1 outage of the path, 1 router restart, 1 command |
| `BridgeSession_live` | does the board return to service, serve its console once booted, let go of a dead link | yes, from any state without a session in use, and with router and path there from then on | 3 sessions, 1 link loss, 1 failed declaration, 1 outage of the path, 1 line |
| `BridgeSession_router` | does the board return to service whenever link, path and router come back for good | **no** | 1 router restart |
| `BridgeSession_once` | is an LED command executed once | **no** | 2 sessions, 1 link loss |
| `RttStats_race` | no report without a sample; right numbers when nothing overlaps; is the struct an `RttWindow` | yes | 1 handler task, 2 pongs, round trips -1, 1, 4 |
| `RttStats_torn` | are the numbers of every report consistent | **no** | the same |
| `SpiLayer_rescue` | mutex, data, counters, end of every call; is the layer a `SpiBus` | yes | 2 tasks, 3 calls, offsets in, past, and far past the buffer |
| `CsiLink_report` | is every number of a line a measurement of its peer; is a line nothing overlapped exact | yes | 4 transmitters, 3 slots, 2 entries, 3 frames and any number of empty ones |
| `FrerSetup_runs` | how many flows may be generated with their recovery missing; does success mean configured; what interrupts a flow in service | none in the first run, then one for each further run; yes; both but for a classifier whose detach the switch refused; the detach of a classifier of its own, which the next call of the script makes good | 2 boards, 2 scripts, 3 runs, 1 stale flow, 1 classifier refused at a time |
| `RigControl_ops` | who may cut the PC off; does a test that ended well leave its port open; does the page show what is so | the page alone; yes; not older than two polls, and in the end | 1 worker, 2 requests of 5 kinds, 1 run of the test, 3 items polled |
| `Dashboard_zenoh` | is a board shown as alive when it is; are the links the newest; is a board that publishes shown as alive again and again | yes, up to a callback's delay; yes; yes once the router stays up | 2 boards, 2 subscriptions, 2 samples kept, window 2, delay 1, 1 loss |
| `Experiments_labels` | was what is filed as during and after (QoS), as before and after (congestion) measured then; is what was turned on off again | yes | 3 queues, 2 runs of each script |

### Why the bounds are enough to be interesting

* Two sessions are the fewest that can leak or double a command, three leave room for a failed
  attempt between them. A link loss or an outage may fall into every step of the loop; the
  theorems lift every bound. `BridgeSession_live` has no router restart: to a session it is what an
  outage longer than a lease is, both end what it had and neither shows on the board, and with both the run
  does not end in time.
* Two pongs give one jitter difference, a report between them, and a
  report over both. The theorems hold for any number of tasks and pongs.
* Three calls of two tasks let one task return and call again while the other holds a
  half-finished rescue. A buffer of four cells with offsets 1, 5 and 14 has a
  read inside, one that the fold corrects, and one the fold leaves past the end.
* Three frames of four transmitters in three slots have a full table (an empty
  frame takes a slot too), a peer heard twice, a peer left out of a line of two, and a frame that arrives
  at every step of a report. The transmitters are interchangeable, hence the
  symmetry; the run checks invariants only.
* Two boards share the downstream VLAN and, as in the code, board 1's upstream
  VLAN is the downstream one (200). Three runs of two scripts are two
  that overlap and one after or between. What an earlier attempt left is nothing or both ends of one flow, so that
  there are stale classifiers at a recovery and at a generation. One of these at a time may keep its old key
  by a refused detach, and lose it to another run; any other quiet call may be refused at any time. The
  theorems hold for anything an earlier attempt may have left, and any number refused.
* One request and the test can disagree about a port, two requests and the test can shut both ring links and
  undo it or not. The requests include one that cuts the PC's own port and one that
  only raises. The items polled are the three kinds of answer: the PC's port, the link the test changes,
  spanning tree of a port that is read after another of the same switch. More workers,
  requests and overlapping tests are in the theorems.
* Two callbacks, of two subscriptions to samples of one board, can file in the wrong order; a deque of two
  is pushed full by one board's other key; a delay of 1 in a window of 2 leaves both halves of
  `AliveIsHonest` something to say. One loss is a router stopped and started or a session gone
  deaf, at any point of the thread; what follows is the same each time.
* With three queues a loop has a first, a middle and a last step. Two runs are a
  broken one and one that starts from what it left. Any number of queues and runs are in the
  theorems.

`CHECK_DEADLOCK FALSE` is set where the system really may stop: a board whose
bounded events are used up, a script that has run, a driver with no more calls.

### Fairness

* `BridgeSession`: weak fairness of the main task (`loop()` is called for ever,
  and no call in it blocks for good) and strong fairness of `OpenOK`: `z_open()`
  does not fail every time it finds the link and the router there. Nothing is assumed of
  the environment; `BackInService` says that a board which has no session in use gets one that works,
  if from then on the router and the path are there and the link is in the end. It cannot promise that of a board
  whose session has lost its peer unnoticed (see the violated properties).
* `SpiLayer`: weak fairness of each task's steps. A transmission is polled and ends in
  success or failure, and `xSemaphoreTake()` gives up after 500 ms.
* `RigControl`: weak fairness of the poller's thread, whose loop catches every exception and
  whose calls have a timeout; strong fairness of each `Read`: a call that can be answered again and
  again is not failed each time. Nothing is assumed of requests and tests, which are bounded in number.
* `Dashboard`: weak fairness of the clock, of the thread's sleeps (`Renew`) and of each callback's wait for
  the lock; strong fairness of `Open` and of each `Declare`, which do not raise each
  time with the router up; strong fairness of `Receive` for each board: it keeps publishing, and not every
  sample of it is lost while a session that is not deaf is subscribed. `HeardAgain` is
  conditional on the router staying up.

### What the violated properties say

Each is a statement of the repository that the code does not keep; the findings
in `PROJECT.json` quote both sides.

1. `HealsByItself`, with a router restart. The session is opened in peer mode,
   not as the client `README.md:27-28` speaks of; nothing reopens it while the
   link stays up. An outage of the path that outlasts the lease does the same, and
   `README.md:102-103` tells of a board in that state ("link-up with zenoh dead").
   `BackInService` is what does hold: of a board without a session in use.
2. `HandledOnce`. After a short link loss the old session's LED subscriber still
   answers, and a toggle is undone. `HandledBound` is what does hold.
3. `ReportConsistent`. A report that overlaps a pong may mix fields, for example
   a count of one with a sum of zero. `CleanReportConsistent` and `CleanLineExact`
   are what does hold.

Four more disagreements were met while reading. They follow from the text of the code
without a search, and have no run of their own:

* `zenohBridgeSetup()` waits for the link before `loop()` runs for the first time, so a board
  booted without a cable does not read its console, against `zenoh_bridge.cpp:343-344` and
  `README.md:93-94`. Once booted it does (`SerialServedAfterBoot`).
* The FRER script takes the recovery of a flow out of a live configuration when it is run a second time,
  against "Recovery goes in FIRST, every time" (`pc/frer_setup.py:275`). `UnabsorbedBound` is what does hold:
  none in a first run, at most one flow for each run after it.
* The script disables spanning tree on both ring links and leaves VLAN 1 on both, where
  `README.md:176-180` asks for one of them to be narrowed first.
* `POST /api/frer/active` names `FRER_INST`, which is not defined in `server.py`, and raises
  (`README.md:106-107` promises a switch-over).

## 4. The proofs

Each `...Proofs` module follows one argument: an inductive invariant, a lemma
that the initial states satisfy it, one lemma or step for each action, and the
properties as its consequences.

* `BridgeSessionProofs`. `SessionInv` adds to the properties what `startZenoh()` has
  done so far at each `pc` (`Declaring`), that the flag agrees with the place
  in the loop, and an account of sessions (`LeakAccount`): a session may be
  opened only on the credit of a link loss, a failed declaration, or the first
  link. `SessionLeakBound` alone is not inductive, because it does not say that a
  session in use on a link that is up has used its credit. For `HandledBound`, `CopiesInv` says
  that what a command has been executed and the copies of it on their way
  together never exceed the sessions opened: a copy is put on its way to an attached session once.
  The theorems hold for every `NODE_ID` and every bound.
* `RttStatsProofs`. `WindowInv` relates memory to `base` while the window is clean:
  each field is as before or as the handler in progress leaves it. Consistency of
  `base` needs arithmetic on the mean and the jitter bound (`AfterKeepsConsistent`).
  `ReportHasSamples` does not need cleanness: between the test and the division
  only the main task takes count down. `CleanLineExact` compares with numbers defined a second time from the
  sequence of round trips: `LineInv` says that a clean window's `base` has them, and `TotalGrows` that a sum
  over a sequence grows by one term with one element. That is an induction, made without an
  induction theorem: a set of indices at which the claim fails would have a least one (`LeastExists`).
  `StatsImplementWindow` then maps each step to one of `RttWindow` or none: a handler's stores and
  the loads but the last are none, its return is the pong, and that no line stands there is what `QuietReset`
  is for; the last load is a line because `CleanLineExact` holds after it. For any
  number of tasks, any round trips and any order of the accesses.
* `SpiLayerProofs`. `SpiInv` adds that only receive-buffer reads are retried and that the
  bounce buffer belongs to the task about to copy it. The arithmetic of the
  fold and the mask (`FoldKeepsCell`, `MaskTwice`) gives `EveryAttemptOwn`: all
  three attempts read the cell the driver asked for. `LayerImplementsBus` then maps each step
  to one of `SpiBus` or none; the last attempt needs that its data is the place asked for, and
  a timeout that the mutex is another task's whose call is under way. `Unanswered` says that the answer of a call
  under way is still "none". For any tasks, buffer size and offsets.
* `CsiLinkProofs`. `CsiInv` has a half for each task. The table's (`WifiInv`): a slot holds
  frames of its own transmitter only, has all its measurements once its count is not zero, and counts no
  more than were heard, one less while a frame is being stored. The report's
  (`ReportInv`): the slot chosen has been counted, what has been loaded is of its transmitter, and the
  entries of the line are of other slots. `Persists` is what the second needs of the first:
  slots keep their transmitter, and a count that is not zero stays so. `QuietReportExact` needs that nothing
  is missing. `WifiExact`: a slot counts *all* frames of its transmitter and has the numbers of the last,
  because a frame is dropped only when the table is full and then its transmitter never gets a slot
  (`DroppedWhenFull`). `Undisturbed`, of a report nothing overlaps: the ranking has found the busiest of the
  slots it looked at (`RankedBusiest`), the line is in order and nobody left is busier than any entry
  (`LineOrdered`), and the flag is what the line says, and the slot in hand once it was looked at
  (`PresentKnown`). For any transmitters, slots, ranks and frames.
* `FrerSetupProofs`. `main` is a sequence put together from sequences of sequences, so the first third
  says what it is made of: each part is `Paired` (a write follows the read it rests on, an attach
  the detach before it) and contains every call of its kind, and appending keeps both; `MainCalls` is the
  sum. `Met(d)` is the purpose of call `d`, what it leaves true of the configuration: a call meets its own,
  and only a detach undoes another's, that of the attach with which it is paired. An attach has met its purpose
  when the classifier has the corrected key, or has the old one because the switch refused the detach.
  `Base` adds that what a script
  read fits what it is about to write, that the matching modes a script has set stay set, and that between a
  script's detach and its attach no classifier with the old key comes back, but a refused one (`KeyInv`). `SuccessIsConfigured` follows from: a purpose that is not met is still
  ahead of some script, or some script's last run failed. For `UnabsorbedBound` one has to know
  where every run is or was broken off, which the state does not record of runs that are over.
  `HistInv` therefore says that such positions *exist*, one for each run, which account for everything in place
  and everything missing: what a run came past is in place unless it is a classifier some run is in the
  middle of replacing, and nothing is attached that no run came to. Two flows without recovery would need two
  runs between a detach and its attach, and a third that generated them. `ServiceKept` rests on `VlanKept`:
  every `set_vlan` of a port makes the same change (`OneChange`), so one that writes back a stale
  configuration writes all that a flow in service needs of that port. That the next call undoes the detach
  needs that a classifier is attached with one key at a time (`OneKey`) and that a script at an attach has
  corrected the port's matching mode (`KeyAhead`, from `KeyInv`). For any table
  of boards, any number of scripts and runs.
* `RigControlProofs`. `OnlyThePage`: any port but the one of the tests is shut only by the
  page. `SomeoneToOpen`: while a test's shutdown stands, some test failed or has the opening still to do.
  `PollsFresh`: what the current poll has read is true if nothing changed since it began, which makes
  what the next one puts up true. For any requests, workers, overlapping tests, and any order of polling.
* `DashboardProofs`. `SeenNearHeard`: the time kept of a board is never newer than its newest sample
  and older by `Delay` at most. `LatestInv` places a board's newest report in its deque: as many samples
  from the end as were filed after it, with nothing but other samples behind it; and once as many as the
  deque holds came after it, none is left. `LinksCurrent` then follows from how `_csi_links()` picks the
  last report. For any boards, samples, subscriptions, deque, window and delay.
* `ExperimentsProofs`. The labels alone are not inductive: one has to know what the loop over the
  queues has done so far (`QosShapes`), and that the board's window holds nothing of
  an earlier phase once a line went out in the pause (`QosWindow`) or with the first line of a collection
  (`CongestionWindow`). For any number of queues and runs.

Assumptions: the named `ASSUME`s on the constants (bounds are naturals; no
round trip exceeds `INT64_MAX`; nobody is a task named `NoTask`, no transmitter the zero MAC; what
a subscription carries are samples of boards; the table of boards at `pc/frer_setup.py:120-125` has each
board once, on a port of its own on switch2 that is none of the ring's; what an earlier attempt left are streams
of boards of that table). TLC evaluates them in every run.

Only model-checked:

* liveness (`BackInService`, `SerialServedAfterBoot`, `LinkLossNoticed`, `CallEnds`, `ViewConverges`,
  `HeardAgain`): the prover does not handle fairness with `ENABLED`. Every safety property of a run
  that holds is a theorem.

## 5. Not modelled

* The protocols of zenoh, DDS and the switches, and the text of what is published.
* The watchdog, and `ethStart()` beyond whether it succeeded.
* `w5500SpiDeinit()` and `ethRestart()`, which nothing calls: a receive path that stops for good
  is counted and left as it is.
* The LED flag and pin. They are two stores without a lock, which a toggle in the other task may
  fall between; the next command puts them together again. Besides a toggle only the status page reads the
  flag (`web_server.h:34`), and may show it for the pin.
* The web server's three links: one GET each, handled like a line of the console.
* `dds_adapter.py`, which puts each sample it is called with, and the heartbeat of
  `zenoh_peer.py`. Both keep one session for ever; that such a session may go deaf is
  shown for the dashboard, where `HeardAgain` fails without `Renew`.
* The dashboard's pages, and the fields of a poll that differ only in name.
* The shell scripts that fetch tools and build the library.

## 6. Plan

1. `LedControl`: the flag and the pin, written by the main task and by session tasks; a command
   nothing overlaps leaves both at its target.
2. `FrerRecovery`: what the configuration does to frames, to relate
   `Configured` to delivery over either link, and the flows to the order of the unicast entries.
3. Proofs: that a flow out of service is at the attach of some script, or was left there by a run that
   broke off, whatever other scripts do in between.
