# Verification of esp32-iotivity

TLA+ models of the OCF light for the ESP32 in this repository: the server
(`main/esp32_server`), the lamp it drives (`main/esp32_lightbulb`), the client
that switches it (`main/esp32_client`) and the adapter that ports
IoTivity-Constrained to FreeRTOS and lwIP (`components/iotivity/adapter`). TLC
checks the models on small instances, TLAPS proves the theorems for every value of
the constants.

The IoTivity-Constrained stack and ESP-IDF are git submodules and not part of
the repository. They are modelled only as far as the code here relies on them,
and each module says where.

## The system

| Part | Code | State | Operations |
|---|---|---|---|
| Colour conversion | `lightbulb.c:65-153` | none | HSB to percent per LED to PWM duty |
| Lamp record | `lightbulb.c:45, 329-400` | `s_bulb_state`, shared, unlocked | `notify_lightbulb_state`, `set_current_bulb_state` |
| Lamp daemon | `light_bulb_main.c`, `lightbulb.c:158-318` | `s_hsb_val`, `s_brightness`, `s_on`, LEDC duties | reads the record field by field every tick, flashes |
| Light resource | `server_freertos.c:68-128` | `light_state` | GET, POST, PUT |
| Main loop | `server_freertos.c:145-159, 259-274`, the same in the client | `mutex`, `cv`, `quit` | poll, lock, wait; `signal_event_loop`, `handle_signal` |
| Wi-Fi start-up | `server_freertos.c:161-244` | `wifi_event_group` | `event_handler`, wait for the addresses |
| Network thread | `ipadapter.c:263-423` | `fd_set`s, one message of the pool | select, read, hand to the stack |
| Connectivity | `ipadapter.c:138-261, 425-837` | sockets per device, thread | set-up, sending, shutdown |
| Clock | `clock.c`, `config.h:4-8` | none | `oc_clock_time`, seconds, wait |
| Storage | `storage.c` (OC_SECURITY only) | `store_path`, its length | config, read, write |
| Client | `client_freertos.c:62-168` | `light_1`, `light_server`, `light_state` | discovery, observation, posts |
| Helpers | `random.c`, `abort.c`, `debug_print.*` | none | random numbers, abort, output |

How they interact. Five tasks run: the system's event task (`event_handler`), the
main task (`server_main`), the network thread, the lamp daemon and the driver's
own; the client's board runs the first three. The event task tells the main task
through an event group that the addresses are there. The network thread reads
datagrams into messages of a fixed pool, adds them to the stack's list and calls
`signal_event_loop`; the main task takes them from the list inside `oc_main_poll`
and runs the resource's handlers. `post_light` writes the lamp record, and the
daemon reads it, with nothing but time between them. Client and server meet only
in datagrams: the client discovers the light, observes it and answers every report
with a post of the opposite state.

What is hard: the wait on `cv` tests no predicate, so a signal can be lost; the
pool is finite, and the thread that could wake the main task needs a message of
it; a failed read leaves its socket marked ready; the record is shared without a
lock; `post_light` counts on the daemon being quick enough; the event bits outlive
the addresses; the arithmetic is in 8 and 16 bits; the clock's unit differs from
the one the stack is told; a shutdown pulls the sockets from under a thread that
cannot be cancelled; client and server rely on each other over a network that
loses and reorders, and the client sends nothing twice. `PROJECT.json` lists every
such hazard at its line, with the properties that watch it.

## Modules

**HsbToRgb** is `lightbulb_set_hsb2rgb` and the duties of
`lightbulb_set_aim_hsv`, with C's widths. `MCHsbToRgb` sweeps the hue over it
against a reference written independently of the code's sextants: the distance
of a hue from a channel's plateau in the HSV hexcone.

**Lightbulb** (extends HsbToRgb) is the record and the daemon. A request
computes `target`, the record as it will be, and `Store` carries one differing
field over per step, in any order, because the stores are plain C without a
barrier. One daemon step is one call of `light_bulb_main.c:33-42`. The three
LEDC duties change together: only the daemon writes them.

**LightResource** is what the server's resource promises a client: one request
at a time, each answered in the end, and the reported state is the last boolean
of the last request accepted as a whole.

**LightServer** (extends Lightbulb) is `post_light`: entry after entry of the
payload, each integer handed to `notify_lightbulb_state` and held for
`HoldTicks`, an entry of another type answered with BAD_REQUEST at once. `Tick`
is FreeRTOS's tick. The daemon makes each call at most `MaxLag` ticks after it
could; the main task may take any time. `get_light` changes nothing: it reports
`light_state`. `ImplementsResource` is the refinement of LightResource: a
request is busy until its last hold is over or an entry is refused, although the
handler reads its entries one by one and lights the lamp on the way.

**EventLoop** is the main loop and its callers, with one step per pthread call.
`Post` stands for what the stack's `oc_network_event` does before it calls
`signal_event_loop`. A wait may also end at its deadline (`Timeout`) or for no
reason (`Spurious`, as POSIX allows). The client's loop is the same text.
`Handlers` are contexts that run `handle_signal`. Neither program installs it, so
`QuitHeeded` is about the loop as written, not about a path a board takes today.

**NetworkThread** is the select and read loop. `Sockets` is the order of its
if-chain, so that other builds are other constants. `Select` takes the ready
sockets, `Allocate` a message or, with the pool empty, `BackToSelect`;
`recvfrom` reads and clears the socket, `ReadFails` gives the message back and
leaves the socket set; `oc_network_event` lists the message. `Arrive` and
`Handle` are the IP stack and the main task.

**Inbound** is what the thread promises: per socket, a pipe from which datagrams
come out at most once and in order. `NetworkThread!ImplementsPipes` is the
refinement: the pipe is the listed, the held and the waiting datagrams of the
socket. A failed read may take one out.

**EventDelivery** composes the thread with the main loop: `oc_network_event` is
at the same time EventLoop's `Post`, `Handle` its `Process`, and the loop's
pending work is the length of the thread's list. No handler runs `handle_signal`,
as in the shipped code.

**Connectivity** (extends NetworkThread) is a device's life:
`oc_connectivity_init` call by call, each of which may fail, the thread with its
test of `terminate`, `oc_connectivity_shutdown` closing the sockets one after the
other under the running thread, and the join. `family` and `memory` are the
build (`OC_IPV4`, `OC_DYNAMIC_ALLOCATION`). External: the stack's main task
calls shutdown after a set-up that succeeded or failed and may set up again; the
thread asleep in `select` may or may not notice a `close`, and a `recvfrom` on a
closed socket may block or fail; `FD_SET` and `close` of descriptor -1 do
nothing; ESP-IDF implements no `pthread_cancel`, and its `pthread_join` may wait
for ever for a thread that deleted itself. The shipped programs reach shutdown
only if `quit` is set, which nothing installs a handler for; what is checked here
is the adapter for any program on it.

**Client** is the client against LightResource, which LightServer implements,
over a network `net` that loses and reorders. `discovery` walks the links one by
one, keeps the first light's URI cut to its buffer, observes it and arms
`stop_observe`. `observe_light` posts the opposite of whatever it is called
with. External: the stack keeps the callback of an observation until a response
without an observation arrives (an error, or the answer to `oc_stop_observe`)
and passes it that one too; the server's stack notifies a periodically
observable resource again and again. `oc_send_buffer` is here as its callers see
it: the datagram leaves or is lost.

**Wifi** is `event_handler` and the head of `server_main` for the default build.
External: the driver and the adapter queue events, and the adapter's own handler
runs before `event_handler`, dropping the addresses on a disconnect. The five
calls of the handler are steps of their own.

**Clock** is `oc_clock_time` and `oc_clock_seconds`.

## Runs

| Run | Shows | Bounds |
|---|---|---|
| `hsb_sweep` | the conversion is within -2/+1 percent of HSV, between white part and brightness, and smooth, the wrap from 359 to 0 included | hue 0-359, all saturations, nine brightnesses with the extremes |
| `hue_360` (violated) | hue 360, admitted by the range check, overflows a channel | the same with hue 360 |
| `lightbulb` | off is dark between any two calls of the daemon; an undisturbed loop shows the record as `lightbulb.c` reads it, a brightness cut to 16 bits or refused included; requests at rest are shown for good; a flashing lamp alternates | two requests out of every colour, a flashing record whose brightness, 65636, is cut to 100, and a brightness beyond the range, refused: one to be torn by the next |
| `light_server` | each colour is shown within its hold and then stands still; the handler implements LightResource | the code's 50 ticks, daemon up to 9 ticks late, four requests to the lamp in all, random colours out of eight |
| `event_loop` | sleeping over work takes a signal lost between poll and lock; otherwise, or with a timer, work goes on; callers return; `quit` is heeded unless the loop has work without end or sleeps for good with no timer | two posters, one signal context, two events |
| `network_thread` | no message lost, no stale message, blocking only after a failed read, who starves when, FIFO per socket | two sockets (the default build), pool of two, one datagram queued per socket, numbers modulo 4 so that any two datagrams in transit differ |
| `event_delivery` | one lost signal per event slept over; the next datagram wakes the loop; the thread's fairness assumption under a timer | as above with unnumbered datagrams |
| `connectivity` | the pool stays whole when sockets close under the thread; no thread on a freed context, no open socket after a shutdown; when a device that is up is deaf; the thread ends | all four builds, every system call failing, two set-ups (a reused context needs the second), pool of two |
| `client` | the light toggles for ever while it is observed on both sides; after the callback a stop is under way or was lost; the light comes to rest once it has got through | one message of a kind under way; another resource, a light whose URI just fits and one whose does not |
| `wifi` | no start without addresses unless the link was lost; the wait ends unless the link is lost for ever | queue of three events |
| `wifi_addresses` (violated) | after a loss, the wait can end with no address: the task hangs in `print_error` | as `wifi` |
| `clock_ticks` (violated) | the clock's second is not `OC_CLOCK_SECOND` | three seconds in steps of 50 ms |

Why the bounds are enough. Two of everything that competes (sockets, messages,
posters, requests) shows the interleavings: a third adds waiting, not a new order.
The hold and the lag of `light_server` are the code's own number and the largest
lag it tolerates: with `MaxLag = 10` the run finds a colour that is never shown.
`FlashIntervals` is {0} because the server passes nothing else; the flashing
record of `lightbulb` comes through `set_current_bulb_state`, which the header
offers and the server does not use. The colours of `light_server` include two
whose duties agree although hue and saturation differ, hsv(0, 6, 20) and
hsv(18, 10, 20), while hsv(18, 6, 20), which the daemon passes through from one
to the other, has other duties: a colour may appear, go and come back before the
daemon has the whole record. `NoFlicker` therefore starts when it has, and says
that from then on no call of the loop changes an LED. In `Client` the network is a set: a second
copy of a message under way would be lost or received in the first one's place,
which the set allows as well. `EventLoop`, `Clock`, `Connectivity` and `Client`
switch deadlock off: a loop that sleeps over a lost signal, a clock at its bound,
a task in `print_error`, a join that never returns and a client whose discovery
was lost have no next step, and that is the programs' doing.

What the runs say about the server going deaf: each event the sleeping loop has
not handled stands for one signal lost in the window of
`server_freertos.c:261-262`, so it takes a whole pool (20 messages) of them in
one pass to exhaust it; an armed timer, here the resource's period of one
second, ends every such sleep. (By `clock_ticks` the timer expires a hundred
times late, but the same error puts the wait's deadline into the past, and the
wait ends at once.)

What `connectivity` says: a static build cannot be set up twice. Its context
keeps `terminate = 1` from the shutdown, the new thread ends at once, and
`oc_connectivity_init` still reports success; an IPv4 build reports success with
unbound sockets as well, because the result of `connectivity_ipv4_init` is only
logged. `DeafOnlyIf` says that there is no third way, and which is which: an
unbound socket means a failed IPv4 set-up, an ended thread a re-used context, and
in a re-used context the thread never comes to its `select`. `ThreadEnds` has two
exceptions, both in lwIP's hands: a `select` that a close does not wake and a
`recvfrom` in which the thread already was; shutdown then waits for ever.

What `client` says: losing a notification or a post costs one period, because
the next notification repeats it; losing the single `oc_stop_observe` or its
answer leaves the light toggling for good.

Full brightness is duty 8192, and theorem `DutyRange` says that no duty is
larger: it is one beyond the range that the comment at `lightbulb.c:188` gives for
the 13-bit timer.

The findings are the three violated runs; `PROJECT.json` quotes the comment each
one contradicts.

## Fairness

Weak fairness for each task: FreeRTOS schedules the ready tasks of one priority in
turn, and all tasks here block in delays, mutexes, `select` or waits. Strong
fairness for taking a mutex and for leaving the event group's wait: FreeRTOS keeps
a queue of the waiting tasks, so the chance comes again and is taken. No fairness
for what the outside does: requests, datagrams, failing reads, signals, lost
links, spurious wake-ups, lost or overtaken messages, the client's delayed
callback (it has no clock here), and what lwIP does with a task on a closed
socket. In `Client` the receipt of each kind of message is strongly fair: of
messages sent again and again one gets through. In `Connectivity` only the thread
is fair: nobody need drain the list while the main task shuts down. `Tick` is
weakly fair, time passes. NetworkThread assumes that the main task handles events;
`EventDelivery!FairUnderTimer` discharges that assumption for the composition,
with a timer armed.

## Proofs

* `HsbToRgb_proofs`: bounds of the conversion (`RgbRange`), the duty's range
  (`DutyRange`), and the properties of the sweep for every saturation and
  brightness, where the run has nine: `SweepWithinBrightness`, `SweepCloseToHsv`
  and `SweepIsSmooth`. `Dimming` gives per sextant how many percent of the
  saturation each channel loses, so that each is one `Ramp`; `DimmingFollows`
  relates it to the reference's distance, `DimmingStep` to the next degree's. The
  rest is arithmetic on truncating divisions. All hold for hue below 360 only, as
  `hue_360` shows; `SweepIsSmooth` is about the whole circle.
* `EventLoop_proofs`: `TypeCorrect`, `LostWakeupWindow` and `MutualExclusion`,
  for any callers and any number of events. The inductive invariant ties the
  owner of the mutex to each task's place in the code, and says that between the
  poll's return and the wait an event on the list was either missed or has its
  signal still to come.
* `NetworkThread_proofs`: `TypeCorrect`, `NoMessageLost`, `NoEmptyIteration`,
  `SelectBeforeRead` and the refinement `ThreadIsPipes` (`ImplementsPipes`), for
  any sockets, pool and queues. `ReadsAReadySocket` needs
  that the iterations left never outnumber the sockets still set, counted
  differently while a message is being handed over (`LeftMatches`);
  `BlocksOnlyAfterFailure` needs that until a read fails every socket still set
  has a datagram (`StillReady`). `Core` is what the steps keep without it. For the
  refinement each step is shown to be a step of one pipe or none: what is listed
  for a socket grows at the end (`ListedAppend`) and is taken from the front
  (`ListedTail`). These are facts about a recursive function of the list; they are
  proved by the least counterexample (`UpTheList`), which the library's
  well-foundedness of the naturals gives without an operator as parameter.
* `Connectivity_proofs`: `ConnectivityInvariant`, `NothingLeftBehind`
  (`CleanShutdown`), `HearsUnless` (`DeafOnlyIf`), `ConnectivityTypeCorrect`,
  `NoMessageLostByShutdown` (`PoolConserved`) and `NoEmptyIterationOnClosed`
  (`ReadsAReadySocket`), for any pool, queues and number of set-ups. `IInv` is the
  type (`ConnType`) with four facts: `Lifetimes`, where a thread and a context may exist, per place of the main
  task; `FlagLeftOver`, a set-up meets `terminate = 1` in a static context set up before
  and in no other, and no thread ends without it; `Progress`, a set-up without
  refusal has bound the sockets that the calls behind it bind; `Cleared`, what
  shutdown has closed stays closed. The last three theorems add the thread's
  `Core`, which survives closed sockets where `StillReady` does not.
* `EventDelivery_proofs`: `SleptOverIsMissed` (`SleepersWereSignalled`). The
  invariant is NetworkThread's, carried over because each step of the whole is one
  of the thread's or none, with who is where at the mutex (`Turns`: while the loop
  stands between lock and wait, nobody signals) and the count of lost signals from
  the poll's return on (`Covered`). `NetworkEventNotRefused`: the loop's bound on
  its work never holds the thread up, because the messages run out first. On it
  rests `StepsOfEventLoop`, the safety half of `ImplementsEventLoop`, and on that
  `LoopAsByItself`: EventLoop's own type and `AsleepOnlyIfMissed` hold of the
  composition. `DeliveredInOrder` is `ImplementsPipes` with the loop's polling in
  place of the assumed `Handle`.
* `Wifi_proofs`: `TypeCorrect` and `AddressesFound` (`AddressesThereUnlessLost`),
  for any event queue. `HeardIsHad`: whatever tells of the IPv6 address, the
  event, the call or the bit, tells of one that is there, until the link is lost.
* `LightServer_proofs`, the lamp by itself: `ZeroIsDark`, `TypeCorrect`,
  `OffStaysDark` and `ShowsTheRecord`. The
  last two are not inductive: darkness after `lightbulb_set_on(false)` needs
  that the working brightness is zero when it converts, and the shown colour
  needs that every field read so far in a fresh loop equals the record's, and
  that the brightness parked is the one read. The strengthening says so per
  value of `pc`. Assumptions: `LightbulbAssumption`, the documented ranges of
  hue and saturation.
* `LightServer_proofs`, with the resource: `ServerTypeCorrect`, and `ColoursShown`
  (`EachColourShown`) for any payloads, colours and scheduling, provided that
  `HoldTicks > 5 * MaxLag + 1`. `Tracks` says that the LEDs show the working colour
  at every step; `InTime` gives, per call the daemon has come to, the number of
  calls until each field of the record has been copied, and says that they fit
  into what is left of the hold. The bound is tight: with the two sides equal (a
  hold of 6 for a lag of 1, of 51 for a lag of 10), and so with the code's 50 for a
  lag of 10, TLC finds a colour that is never shown.
  `HeldColourStays` (`NoFlicker`) follows from `Tracks` without `InTime`: it needs no
  bound on the daemon's lag. `StepsOfResource` is the safety half of `ImplementsResource`;
  `Walked` says that the entries passed so far are acceptable ones and that the
  handler's local `state` is their last boolean.
* `Client_proofs`: `ClientTypeCorrect`, `StopNotForgotten` (`StopUnderWay`) and
  `CutLightStaysUntouched`, for any links and any length of `light_1`. `Phase`
  says that the discovery goes from hand to hand, never doubled, and that until
  it ends nothing else has happened. `CutLightUntouched` has no run of its own:
  in a light whose URI is cut the client observes and posts to a resource that
  does not exist, and the theorem says that nothing comes of it.

The assumptions are the named ones of the modules (ranges of the constants, two
sockets in Connectivity) and those that theorems state themselves: the length of
the hold in `ColoursShown`, and the range of the hue in `HsbToRgb_proofs`.

Of the properties of the passing runs, the theorems state every invariant, the
action properties `SmoothSweep` and `NoFlicker` and the refinement
`ImplementsPipes`. Only model-checked: the liveness properties (`EventuallyShown`,
`Flashes`, `NoMissNoHang`, `TimerRescues`, `CallersReturn`, `QuitHeeded`,
`SocketsServed`, `NextDatagramWakes`, `FairUnderTimer`, `ThreadEnds`, `Toggles`,
`ComesToRest`, `GetsPastTheWait`) and the fairness in `ImplementsEventLoop` and
`ImplementsResource`: liveness and `ENABLED` are beyond the prover.

## Not modelled

The storage of credentials and the secure sockets: the OC_SECURITY builds do not
link as shipped (`component.mk` compiles none of the stack's security sources),
so no program reaches them. `oc_connectivity_get_endpoints`, which keeps no
state, and what the stack makes of port 5683 in it. The loop over partial sends
in `oc_send_buffer`: UDP takes a datagram whole or not at all. Random numbers,
abort and printing, beyond `print_error`'s never returning; `lightbulb_deinit`,
which nothing calls; the contexts of several devices, of which the programs have
one. The IPv4 build
takes two sockets of the context that it never sets up (`server_sock` and
`mcast_sock`) into the select set and closes them in shutdown
(`ipadapter.c:813-814`); the model takes only real sockets, for both. A `select`
that fails returns -1 and the thread calls it again: a step that changes nothing,
which the model leaves out, with the assumption that it does not fail for ever.

Of the lamp: `lightbulb_init` is one step. Inside the call the channels are set up
with duty 100 of 8192 before its own update sets them to 0, so that for that moment
the LEDs are not quite dark; the properties are about what holds between calls.
`light_bulb_main.c:43` reads `flash_interval` a second time, which decides how long
the daemon sleeps and nothing else.

## Plan

1. Done: the modules above, among them the abstract resource with its
   refinement, the client over a lossy network, and set-up and shutdown against
   the network thread.
2. Done: theorems for every invariant and action property of the runs, and for
   the safety of the three refinements.
3. Proofs left: action properties that the liveness properties rest on, such as
   what a step of the client may never do to an ended observation.
4. Out of the model by choice: see "Not modelled".
