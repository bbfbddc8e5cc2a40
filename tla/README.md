# A verification project for a-culfw

a-culfw is the firmware of the CUL family: small AVR (and some ARM) boards with
a CC1101 transceiver that speak a line protocol with a host over USB, UART or
TCP and the protocols of home automation over the air.  This directory holds
TLA+ models of its core logic, TLC runs on small instances, and theorems
checked by TLAPS.  Paths below are relative to `src/culfw/`; `PROJECT.json`
maps every definition to the lines it models.

## 1. The system

One program, no operating system: `Devices/<board>/<board>.c` initialises and
then polls its tasks for ever (`Devices/CUL/CUL.c:221-240`), and interrupts
preempt it at any instruction.  What makes it hard is not the size of the parts
but how they meet:

* interrupt handlers and the main loop share variables wider than a byte, or
  update them by load and store, mostly without masking interrupts;
* tasks call each other: whoever prints a line runs `CDC_Task`, which may run a
  host command in the middle of any other task; the Dudette stick receives
  frames inside blocking commands;
* the radio loses and delays frames, timers are polled, and the clock does not
  wait for the main loop;
* rings, buckets, buffers and byte counters are sized to the last byte.

| component | source | state | operations | talks to |
|---|---|---|---|---|
| Byte rings | `clib/ringbuffer.c` | offsets, count, bytes | put, get, reset | USB, UART interrupts, TCP, router |
| SlowRF receiver | `clib/rf_receive.c`, `rf_receive_bucket.c`, `_revolt.c` | ring of buckets, `bucket_nrused`, sync count, silence timer, `hightime` | edge and silence interrupts, `RfAnalyze_Task` | clock interrupt, decoders, FHT, router |
| Decoders, repeat filter | `rf_receive*.c` | last telegram `robuf`, `reptime`, three bits of one byte | one call per bucket | receiver's interrupts, console |
| FHT 80b | `clib/fht.c` | message buffer, conversation state, last packet, timer | T command, received frame, timer | receiver, clock, console, sender |
| FHT 8v, TF | `clib/fht.c` | valve table, timers | T command, timers | clock, sender |
| Dudette stick | `clib/dudette_stick.c`, `dudette_hal.c` | radio mode, device list, target, page buffer, armed SELECT, pending request | D commands, `dud_task` | its own radio driver, console |
| Console | `cdc.c`, `serial.c`, `ttydata.c`, `display.c` | rings, `cmdbuf`, static `cmdlen`, `display_channel` | input, dispatch, output | everything |
| Clock, air time | `clock.c`, `rf_send.c` | `ticks`, `clock_hsec`, `credit_10ms` | timer interrupt, `Minute_Task`, `sendraw` | every timer |
| RF router | `rf_router.c`, `display.c` | status, gathered lines, send timer | ping, data frame, gather, flush | receiver, console, clock |
| FastRF | `fastrf.c` | `fastrf_on` | interrupt, task | radio, console |
| Packet radio | `rf_asksin.c`, `rf_moritz.c`, `rf_mbus.c`, ... | almost none | polled task per mode | radio, console |
| Send-only protocols | `intertechno.c`, `somfy_rts.c`, `kopp-fc.c`, ... | none | command | radio |
| Stacking, I2C slave | `stacking.c`, `i2cslave.c` | interrupt buffer | byte interrupt, task | console |
| Network | `ethernet.c`, `tcplink.c`, `ntp.c`, `mdns_sd.c` | connection count | uIP callbacks | console |
| Buses and sensors | `hm485.c`, `onewire.c`, `dmx.c`, `vz.c`, ... | driver state | task, command | console |
| Flash file system, log | `qfs.c`, `fswrapper.c`, `log.c`, `df.c` | directory, one cached inode, two buffers of the chip | R, W, log line | console |
| User interface, infrared, helpers, HAL, boot loaders, vendored code | see `PROJECT.json` | | | |

What makes each of the first ones correct:

* **Rings**: a bounded queue, whoever interrupts.
* **Receiver**: a telegram that ended is analysed whole, once, in order and
  eventually; one that finds no bucket is dropped whole; the two sides never
  touch each other's bucket; a telegram being collected has its timer running.
* **FHT 80b**: a host's message is kept until the thermostat has taken all of
  it; nothing but the packet sent last is repeated; no conversation is stuck.
* **Dudette**: a command accepts only the answer to its own last try; "page
  programmed" means the device asked holds exactly the page of the host; the
  radio does not stay on the boot channel for ever.
* **Console**: a line of the host is executed once, in order and whole, up to the
  room of `cmdbuf`, although whatever is displayed may run the console again; what
  a full ring or a packet of the router spoils ends with the line.
* **Air time**: the account stays in its range and sending never exceeds 1 %; a
  sync of valves pays for itself, but for one of a single count.
* **FHT 8v, TF**: valves are told in time; a change of a window is sent twice; no
  sensor falls silent.
* **Repeat filter**: a message is reported once; one without a checksum only when
  received twice.
* **RF router**: what is displayed is told to the base, under its own house code
  but for the strays of section 5; the stick comes back to SlowRF.
* **Flash file system**: a store of named files, across power failures.
* **FastRF, stacking, HM485**: nothing is taken for a packet that is none; one
  line or message at a time, whole, once, in order.
* **1-Wire**: a search finds every device once and ends.

## 2. Modules

| module | what |
|---|---|
| `Fifo` | abstract: a bounded queue of bytes or telegrams that drops what finds it full |
| `RingBuffer` | `clib/ringbuffer.c`; implements `Fifo` |
| `SlowRF` | the receiver, interrupts and `RfAnalyze_Task`, with the router's part; implements `Fifo` |
| `Dudette` | the stick, its host, and the devices behind the radio |
| `MessageQueue` | abstract: the queue of host messages, removed by house code |
| `Fht80b` | the 80b conversation, its buffer and its timer; implements `MessageQueue` |
| `AirTime` | `credit_10ms`: the clock interrupt, `Minute_Task`, `sendraw` |
| `Fht8v` | the valves, on top of `AirTime` |
| `FhtTf` | the window sensors |
| `RepeatFilter` | the repeat filter at the end of `RfAnalyze_Task` |
| `RfRouter` | gathering, compressing and sending output; waiting for a packet |
| `Console` | `CDC_Task`, `analyze_ttydata`, `display_char` as a stack of calls |
| `FileStore` | abstract: a store of named files with a power failure |
| `Qfs` | the flash file system with its commands and the log; implements `FileStore` |
| `OneWire` | the search for devices |
| `FastRf` | `fastrf_on` between interrupt, task and commands |
| `Stacking` | the buffer of the lines of the board below |
| `Hm485` | receiver, task and sender of the wired bus |
| `MCBoard` | the modules from `RingBuffer` and `AirTime` on side by side, see section 3 |
| `MC*` | the other instances for TLC |
| `*Proofs` | theorems about the component they are named after; `RingBufferProofs` also holds those about the console, `AirTimeProofs` those about the valves and the window sensors, `RepeatFilterProofs` those about the RF router and FastRF, `StackingProofs` those about HM485 and the 1-Wire search |

Definitions carry the names of the source.  `(* mutant *)` marks a definition
that stands for a plausible bug: put in the place of the definition it is named
after it makes a property fail, which shows that the property watches that code.

### RingBuffer

`putoff`, `getoff`, `nbytes`, `buf` are the fields of `rb_t`.  `rb_put` and
`rb_get` mask interrupts and are one step each; `rb_reset` does not and is three
(`ResetBytes`, `ResetPut`, `ResetGet`; the chain assignment stores right to
left, the order gcc emits).  `IsrOps` says what interrupt handlers do on this
ring between those steps: `{"get"}` for a transmit ring, `{"put"}` for the
receive ring of a UART build, nothing for USB.  The torn reads of 16 bit offsets
on rings of 256 bytes and more are not modelled.

### SlowRF

An interrupt handler is one step (handlers do not nest), the main loop one step
per access to a shared variable.  The edge interrupt is `RisingEdge`,
`FallingEdge` and `RouterEdge`, the silence interrupt `Discard` and `Enqueue`;
`RfAnalyze_Task` is the path of `pc` from `analyze` to `router`, with
`bucket_nrused--` split into `LoadCount` and `StoreCount`.  Pulse lengths are
choices; the bits of a telegram are their number and the telegram they spell.
Rising and falling edges need not alternate, since two edges inside the latency
of the handler look like one to it.  The window between load and store of the
count is one step of the main loop although it is a few cycles: interrupts may
come there, and that is the point.  The decoders and the repeat filter are
abstracted to whether they know the telegram.  Two history variables: `drift`,
the increments that a store overwrote, and `delivered`.

### Dudette

`pc` and `lauf` are the place inside a blocking command (`cmd_sitzung`,
`anfrage_ex`, `cmd_seite`), `warte` and `antwort` are `warte_typ`, `warte_seq`,
`warte_addr` and the accepted answer.  `Host` is `dud_befehl`, one action per
command; `empfangen` is enabled in `dud_task` as well as inside a blocking
command, and `hello` in it may start the armed SELECT (`select_scharf`).
Deadlines are choices.  The radio (`luft`) keeps answers, loses and delays them;
the devices open a session on SELECT, collect fragments, program a page if it is
complete, forget sessions and restart.  The devices are external: they are
modelled from what the stick expects of them.  Assumed: an answer does not stay
on the air for a whole turn of the number counter (`Verbleibend`), and a single
try does not use up all numbers (`KeineRunde`); with 127 numbers and deadlines
below a second this is physics, with the 3 numbers of the instances it has to be
said.  The air time account of `dudette_hal.c` shows as a send that fails.

### Fht80b

`fht80b_buf` is the byte buffer with its length bytes and terminating 0;
`fht_addbuf`, `fht_delbuf`, `fht_getbuf` and the two uses of `fht_lookbuf` are
functions of it.  `fht_hook` handles the first waiting frame: `SwitchedOff`,
`ForeignTalks`, `AckEverything` (FHT to CUL) and `Converse` (CUL to FHT), the
last one with `Proceed` (a row of the protocol table) and `SendData`.
`fht80b_sendpacket` prints what it sent, printing runs `CDC_Task`, and `CDC_Task`
runs host commands: so what follows the packet is an action of its own
(`fht80b_send_repeated`, `TimerEnds`; `pc`), and a T command may come before it.
The timer is `laeuft`, `faellig` (0, noticed by the next `Minute_Task`) or `aus`
(255); `Tick` is the clock interrupt, which also turns a 0 that nobody noticed
into 255: the history variable `verpasst` remembers that.  `gesendet` remembers
the packet last sent for a frame.  The thermostats, the radio and the queue of
received telegrams are external; a thermostat's `got` is what it took since
START_XMIT.  Values are numbers that mean nothing, `kind` stands for the
originator byte, and the minute that replaces FHT_MINUTE's value is left out.
Messages with an odd number of digits, or with the same command twice, are left
out of the instance (see the hazards).

### AirTime, Fht8v, FhtTf

`AirTick` is `TIMER0_COMPA_vect`, `AirMinute` one call of `Minute_Task`, `AirSend`
a `sendraw`.  The main loop may miss ticks: `clock_hsec` and `(uint8_t)ticks` wrap,
and `airUnseen` is what `Minute_Task` has not seen of the latter.  `AirSum` is the
charge with the conversion to `int8_t`, and `Wide` says whether `int` has more
than 16 bits, since `credit_10ms < sum` converts `sum` to the width of `int`.
`airStart`, `airTime`, `airSent` and `airEarned` are the history of a period of up
to `AirWindow` ticks, after which a new one begins.

`Fht8v` extends the account.  `fht8v_timer` is `V8Fire` and `V8Low`, the two stores
of `fht8v_timeout` with the clock interrupt between them, a `V8Packet` for each valve,
and `V8CountDown`.  Each packet is displayed, which may run `CDC_Task`: T commands
and other sends come between two rounds as well as between two packets of a round
(`v8I`).  `V8CmdSync` gives the account what a sync costs; `v8Start` remembers what
the sync was started with as long as it has the account for itself.  In `FhtTf` a slot has an address, a state, a count of timer
calls and a timeout; `TfStep` is the decision of `fht_tf_timer`, of which packet
the count lets out.

### RepeatFilter

`repPc` follows one telegram from `packetCheckValues` to
`checkForRepeatedPackage`; between its steps an interrupt (`reset_input`) may
clear `isnotrep`, a bit of the byte the main loop is changing.  `repNoise`
remembers that it did inside a run.

### RfRouter

`RfrDisplay` is a line through `display_char`, with `FHT_compress` at its end.
`RFR_Buffer` is the sequence of messages in it and `rfrBytes` the characters they
take.  A message has a kind (`fht` and `tf` lines begin with `T`, and a window
sensor's is shorter), an address or house code, a command, and whether a line begins
with it.  `FHT_compress` looks for the end of a line from offset 13 on: behind a
short `tf` line it finds the end of the second line (`RfrFound`).  It merges if a
single line of a thermostat follows there (`RfrTwoLines`) and has the house code of
the *first* one (`RfrMerges`).  The merged message then belongs to the line found;
if that is no thermostat's line, it has lost its last characters and is `broken`.
`RfrMinute` counts `rf_router_sendtime` down and calls `rf_router_flush`.
`RfrListens`, `RfrRestores` and `RfrCloses` are `rf_router_task`; between the last
two the chip is already set to SlowRF and the status not yet, so an interrupt may
come there.  `RfrTelegram`, `RfrPing`, `RfrEdge` are the interrupts; `rfrReceiving` is
`rf_isreceiving`.  `RfrSend` sets the chip to SlowRF even while a packet is awaited.

### Console

`conStack` is the stack of calls.  A frame says who it is (`CDC_Task`, the router, a
command, the report of a telegram) and what it has still to display;
`inCDC_TASK` keeps `CDC_Task` from nesting, not `analyze_ttydata`.  Characters
carry the number of their line.  `TTY_Rx_Buffer` holds `ConRoom` characters; what
finds it full is discarded, a newline too, so that two lines may become one, and
`cmdbuf` takes no more than `ConRoom` characters of a line.  A packet for the router
begins with `ConHeader` characters that are skipped if it is run.
`conSpoilt` is a history variable: `"ring"` from the moment a packet of the router
meets characters of the host in `cmdbuf` or `TTY_Rx_Buffer`, or a packet of the host
does not fit into the ring; `"line"` when what is in the ring is used up; and `"no"`
again behind the next end of a line.

### Qfs

One record `fs` holds what `fs_t` and the two buffers of the chip hold, saved and
not saved; functions of it are `fs_get_inode`, `fs_sync`, `fs_write` and so on.
The commands and the log's lines are the actions, `QfsRestart` is a power
failure.  The refinement maps names to what a reader of the file would get.
Hosts are taken to format the chip and to replace a part of the log with the log
off only, and to restart the device before they turn it on again
(`QfsLogIsCurrent`): `log.c` keeps an inode number and an offset that the command
`W` does not know of.

### OneWire, FastRf, Stacking, Hm485

`OneWire`: the passes of `onewire_Search` bit by bit, with devices that answer or
are unplugged.  `FastRf`: the three values of `fastrf_on`, the FIFO of the chip and
the host's commands inside the display of a packet.  `Stacking`: byte interrupt
against the three stores at the end of `stacking_task`.  `Hm485`: the bytes on
the bus keep whether they are sent raw; the handler of bytes and errors is one step, `rstate &= ~RSTATE_COMPLETE` of the task two
(`hmReg` is the register), and `sendmsg` may run inside the display.

## 3. Runs

| run | instance | shows |
|---|---|---|
| `ring_rx_isr` | a ring of 3 bytes, a handler that puts | violation: a byte that arrives inside `rb_reset` leaves count and offsets out of step |
| `slowrf` | 2 buckets, 3 bits, syncs of 2 and 3, ESA, SYNC_PACKAGE, MC, router, 2 telegrams | count is right, queued telegrams are complete, silence is watched, refinement of `Fifo`, every telegram is taken |
| `slowrf_count` | 4 buckets | violation: the count is not the number of unprocessed buckets |
| `dudette` | 3 devices, 3 hosts, pages of 1 and 2 fragments, 3 numbers | answers match their try, "programmed" is true, waits are on the boot channel |
| `dudette_live` | 2 hosts that fall silent | commands end, the radio falls back, an armed SELECT is repeated |
| `dudette_target` | 1 host | violation: an armed SELECT moves a running command to another device |
| `dudette_sent` | 1 host | violation: an armed SELECT that was sent and not answered blocks the fallback for ever |
| `fht` | 14 bytes, 2 thermostats (one is a neighbour's), messages of 1 and 2 values, 1 waiting frame | the buffer refines `MessageQueue`, a message leaves it only when delivered, only the last packet is repeated, conversations are timed and end |
| `board` | the components without a run of their own | see below |
| `qfs_lastfile` | 3 inodes, all in use with the upload | violation: after a search for a missing file the last inode is found under a wrong index |
| `rep_each` | X bit 1 set | violation: repetitions are not reported, nor is the first telegram |
| `fast_off` | the host may send `fx` | violation: `fx` inside the display of a packet is undone |

**`board`** runs components that share no state, one in each behaviour: `build`
is chosen at the start and names the one that takes steps, while the others keep
their initial states.  So the states of the run are the sum of those of the
components, and a property of one component is checked in all its states.

| build | instance | properties |
|---|---|---|
| `ring` | 3 bytes, values 0..2, a handler that gets | `CountMatchesOffsets`, `IsAFifo` |
| `tf` | 2 sensors, 2 slots | `TfSilenceNeedsSync`, `TfChangeIsRepeated` |
| `air` | 2 ticks a second, a tick counter of 3, `sum` modulo 16 | `AirWithinBudget` |
| `8v` | 2 valves, syncs of 1 and 4 with a count modulo 6 | `V8NotTooEarly`, `V8SyncIsPaid`, `V8SyncEnds` |
| `repeat` | 4 telegrams of 3 types, 3 settings of X | `RepReportedOnce`, `RepFirstWaits` |
| `qfs` | 4 inodes of 2 pages, a log with one older part, 2 sizes of uploads | `QfsIsAFileStore` |
| `console` | 3 lines of 2 characters, an endpoint of 3, rings and `cmdbuf` of 2, one packet of the router with a header of 1 | `ConRunsEachLine`, `ConEveryLineRuns` |
| `onewire` | codes of 3 bits | `OwFindsAll`, `OwSearchEnds` |
| `fastrf` | a FIFO of 2 packets | `FfComesBack` |
| `stacking` | a buffer of 2, lines of 1 and 3 | `StOneLine` |
| `hm485` | a buffer of 3, 2 messages, one that contains an escaped byte | `HmInOrder` |
| `router` | 2 thermostats with a command, a window sensor with the address of one, lines of 3 and 4 characters, room for 12 | `RfrTellsAll`, `RfrGoesOn` |
| `slowrf` | 3 buckets | `bucket_nrused` stays in its range although it falls behind |

`BoardTypeOK` is the conjunction of the type invariants.

The findings in `PROJECT.json` quote, for each violation, the line that says
otherwise.

**Why the bounds are enough.**  A ring of 3 bytes is empty, partly full, full and
wrapped at each offset.  Two buckets are what CUL_V2 and its kin have; more
(most boards have four) is where the lost update matters, and in `board` one bit
per telegram is then enough, because only the count is looked at.  A bucket of 3 bits can be too
short (less than 2), right, and full; sync counts of 2 and 3 with a counter
modulo 4 separate "too few", "enough", "enough for ESA or HMS" and the wrap.
Two telegrams tell whether one was replaced by the other.  Pages of one and two
fragments make one page complete while the other lacks something; three numbers
make the counter wrap inside a command; a list of one device makes every second
device evict; the hosts are split by which commands interact, and each run is
started with each of them.  14 bytes hold a long and a short message or two
short ones, refuse a third and refuse two long ones exactly at the boundary; the
long message is what a conversation can be cut in the middle of.  One waiting
frame is less than the receiver's buckets; a second one adds frames that come
later, not frames of another kind.  The view of `MCFht80b` identifies states
that differ only in bytes behind the terminating 0 or in a packet that can no
longer be repeated; `fht_hook` overwrites both before it reads them.
In `board`
every byte counter wraps (`TickMod` 3, `V8Byte` 3, `V8Count` 6, `RfrTicks` 3,
`StSize` 2): a sync of 1 goes around the byte and through 5 and 3, one of 4 ends
at 0; the messages of `AirMessage` are charged right, charged as negative, and
charged more than they take.  Four inodes are two logs, one more file and one
more place, with files of one and of two pages; `QfsWear` bounds how often the
pages are written.  Three lines overlap the one that runs, the one being read
and the one in the endpoint; the endpoint is larger than the ring, as on CUL_V2 (64
and 48), so a packet of the host may lose its last character, a newline too, and a
line fills `cmdbuf` exactly, or overflows it when two are joined.  Codes of three bits have two places to branch after
the bit that is never zero.  Room for twelve characters holds three lines, or four where some are merged:
a window sensor's line, any line, a thermostat's that strays behind it and another
one behind that, and refuses the next one.  One command for each thermostat keeps the
run short: the house codes tell lines apart that stray, and the order of several
commands of one thermostat is left to the theorem.  `CHECK_DEADLOCK` is on everywhere.

**Fairness.**  The main loop polls its tasks for ever and the watchdog resets it
if it does not: weak fairness of `MainLoop` (SlowRF, Fht80b), of the stick's
steps (Dudette), of `ConMainLoop` and `ConProcess`, of `OwSearch` and of
`FastRF_Task`.  The clock ticks and time passes: weak fairness of `Tick`, `Zeit`,
`V8Tick` and `RfrTick`.  Strong fairness of `V8Main` and `RfrTask`: what they poll
(`ticks` has changed; `ticks - rf_router_hsec` is over 7) is a byte that wraps, and
weak fairness would allow a main loop that always polls at the one instant where
the byte is back where it was; the main loop polls many times in a tick.  Nothing is assumed of edges, hosts, thermostats or devices, so none of
the liveness properties waits for a good one, with two exceptions: that an armed
SELECT is answered (`ArmedIsAnswered`) needs a radio that does not lose the
device for ever, and `OnlyArmedStays` is given the same radio, so that its
violation is the stick's doing; there `Radio` is the antecedent of the property
and not part of the specification.  `ConversationEnds` excuses a conversation
whose timer the main loop missed; such a conversation ends with the next frame.

## 4. Proofs

All theorems hold for every value of the constants that satisfies the
assumptions named in the modules, and those a theorem names itself.  Nothing is
assumed about the order of interrupts, frames, commands and timers.

* **RingBufferProofs.**  `TypeCorrect` needs no more than itself.  `CountCorrect`
  and `Refinement` hold if interrupt handlers only get.  The invariant
  (`ResetInv`) adds what holds inside `rb_reset`: after the first store nothing is left to get, so
  the count is 0 until the offsets agree again.  The refinement lemmas say what
  put and get do to `Contents`.
  The console is proved here too.  `LinesRunWhole`: its invariant (`ConInv`) is a map of the six
  places the stack of calls can be in (waiting, in `CDC_Task`, in a command of the
  host, displaying a packet of the router, running one, in the command of one),
  and says for each what is in `cmdbuf` and in the ring: the host's next
  characters, as far as `cmdbuf` has room, the rest of a line that was run already,
  or the router's (`ConPlace`).  The property alone is not inductive, because
  `cmdlen` is reset only after the command returned, and whether `cmdbuf` then still
  matters depends on the place.  While characters are spoilt nothing is known of
  `cmdbuf` or the ring, only what the endpoint holds (`ConEndpointHost`); when the
  ring is empty the place of the host in its lines is known again, and behind the
  next end of a line `cmdbuf` is.  `ConTypeCorrect` bounds the depth of that stack
  (`ConDepth`): each kind of frame can be on top of few others, and `inCDC_TASK` is
  set as long as `CDC_Task` is among them; and `ConCounts` the rings and `cmdbuf`.
* **SlowRFProofs.**  `TypeCorrect` includes that `bucket_nrused` neither
  underflows nor takes the last bucket.  It rests on the register copy: while the
  main loop holds it, the count is at least the copy and the copy at least 1.
  `DriftCorrect` adds that the distance of the two sides is the count plus the
  drift, modulo the ring.
  `QueueCorrect` and `QueueRefines` hold for every number of buckets as long as no
  increment was lost (`[]NoDrift`), and `TwoBuckets...` discharge that for two
  buckets, where the silence interrupt cannot increment while the decrement runs.
  They need `MinBits < MaxBits`, so that a bucket that is worth analysing exists
  before the bucket is full.  The invariant (`RingInv`) divides the ring: what is
  queued is complete (`QueueInv`), but for the bucket being released; what is
  neither queued nor being filled is not collecting (`FreeInv`), which is why
  `Enqueue` need not clear the next bucket; what the analyzer works on it may still shorten
  (`ServedInv`); and what is in use spells a telegram (`TeleInv`).  For the
  refinement of `Fifo`, `Enqueue` is a put, `StoreCount` a get, and every other step
  of either side leaves the queue's telegrams alone.
* **DudetteProofs.**  `AnswersMatch` is proved from four conjuncts: frames on the
  air are well formed, a frame that is not for the present try carries another
  number or type than the awaited one, the number of a new try is fresh, and the
  property itself.  `ChannelKept` adds the places where no wait is pending.
  `PagesAreProgrammed` says of every frame on the air that reports success to the
  present try that the device holds the page buffer, and of the buffer that it
  does not change while a command runs.  `DudTypeCorrect` (`DudInv`) adds what the
  devices hold and that a request's number is drawn before it is sent; the
  part that is not a type is that a HELLO never enters a device twice into the
  list nor beyond its end, and that fragments stay inside the page buffer
  although the target's page size may change between `Dp` and `Dm`.
* **Fht80bProofs.**  `RepeatsCorrect`: the last packet is in `fht80b_out` while it
  is being sent or may be repeated.  `TimedCorrect`: what a frame leaves behind is
  a running timer, no conversation, or a CAN_XMIT whose sending will set the timer;
  a frame of another thermostat, which disables the timer, can only be the first
  row of the table.
  `QueueCorrect`, the refinement of `MessageQueue`, needs only that the buffer has
  room for a length byte and the terminating 0 (`FHTBUF_SIZE > 2`, as on all
  boards).  The invariant (`QueueInv`) says that the buffer is laid out as some
  queue of messages (`Laid`): each length byte leads to the next one, the last
  to the 0, and everything is inside the buffer.  Walking over the lengths
  (`fht_lookbuf`) is a recursive function; that it exists, and that it finds the
  messages of the layout, is proved by induction on the distance from the end.
  From there `fht_addbuf` adds a message or finds no room exactly when the queue
  says so, `fht_delbuf` closes the gap that the removed message leaves, and
  `fht_getbuf` returns the first message of its house code.
  `TypeCorrect` needs more (`TalkInv`): the row of a conversation is one of the
  table.  It assumes `NoTableCommand`: no message of the host has the command
  CAN_XMIT (0x53).  Such a message would be taken for that row of the table after it
  was acknowledged, so this is a limit of the code and not of the proof; TLC
  checks that the messages of the instance keep to it.
* **AirTimeProofs.**  `AirBudget`: in a window of any length the stick sends no
  more than the account held and the seconds earned, plus one for the second that
  had begun.  The invariant (`AirInv`) says that earnings take time
  (`EarningsTakeTime`: what is earned and what `clock_hsec` holds came from ticks of
  the window, whatever the main loop misses) and that the account is kept
  (`AccountIsKept`: sent plus left is start plus earned, at most).  It needs
  `ChargeCovers`: an `int` of 16 bits, an account far below the wrap of
  `credit_10ms`, and messages whose charge, if it is not negative, covers their
  time.  A negative charge is then refused, because it converts to a large
  unsigned number.
  The valves share the account.  `V8Punctual` needs `PeriodsAreLong` (125 ticks are
  less than 256, and a period of two minutes is longer than three seconds) and says
  that what the timeout is short of has passed (`V8GapInv`), between its two
  stores up to the byte that the first one takes off.  `V8SyncPaid` needs
  `GiftPays`: two counts of the gift cover a packet (8 units for 8) and the account does not wrap;
  its invariant (`V8PaidInv`) is that the account still covers all packets the
  count stands for, with an odd count rounded down because it ends at 3, and but for
  the packet the loop has sent for a count it has not yet taken off (`V8Ahead`).
  It says nothing of a sync of 1, which is not paid (section 5), and of one that
  shares the account with a second valve or other messages.
  The window sensors: for `TfSilence` the invariant ties the count of a slot, its
  changes and its silence together (`TfCounted`), and `TfTable` keeps the slots
  filled from the first on, which the search for a free slot relies on.
  `TfRepeats` from `TfFreshInv`: a state that was sent fewer than two times since the
  host reported it is still marked as changed.
* **RepeatFilterProofs.**  `RepOnce` and `RepWaits` from one invariant (`RepInv`):
  after a report, `isrep` keeps a telegram from being reported again, or `isnotrep`
  if it must come twice; and one that must come twice passes only behind
  another of its run.
  The RF router, which gets what is reported, is proved here too: `RfrTypeCorrect`
  and `RfrTellsEverything` from `RfrInv`.  The count of characters, not the number of
  messages, bounds the buffer.  Besides the property (`RfrTells`) it says
  that while the first line is a window sensor's, a message from the third on that
  begins no line is a stray (`RfrFollows`): what such a line is merged behind is then
  known to be lost already, so that nothing else can go wrong behind it.  When the
  first line is a thermostat's, what is merged is told under its own house code.
  `FfTypeCorrect` is the type invariant of FastRF.
* **QfsProofs.**  `QfsRefines`: the flash file system implements `FileStore`, for
  every number of inodes and pages, every page size, any number of log parts and
  every set of names.  It assumes `QfsRoom`, fewer names than inodes, because the
  last inode of a full directory is found under a wrong index (`qfs_lastfile`).
  The invariant is `QfsInv`.  `QfsGood` says that no two inodes have the same name,
  the last inode has none, no file outgrows its pages, `BUF1` differs from its page on the chip only if
  `pageModified`, `BUF2` from the directory on the chip only if `rootModified`, and the
  cached inode is the one of its index.  `QfsSafely` says that the files that are
  safe have the same inode on the chip as in the buffer and no unsaved page.  The
  rest says that `logfd` and `logoffset`, while the log is on, and the upload in progress
  point at their inode and its end.
  The pages of two inodes are apart (`QfsPagesApart`, from the uniqueness of
  quotient and rest), so a write changes the cells it names and no other
  (`QfsPutCells`), whichever page was in `BUF1` before; thus each operation is
  described by the names whose files it leaves alone (`QfsSame`).  That the directory
  has an empty inode when a file is created is a counting argument
  (`QfsRoomLeft`).  The pages of `fs_read` and the renamings of `log_rotate` are
  recursive functions, handled by induction over a set.  The initial state of the proof
  is an erased chip that `fs_init` formats, and every step, a restart after a power failure at any
  point included, is one of `FileStore` (`QfsMoves`).  `QfsTypeCorrect` comes from the
  same invariant.
* **StackingProofs.**  `StForwardsOneLine`: what the buffer holds before `mypos` is
  the line being received (`StHolds`) until its end, and while it is being forwarded
  the interrupt does not touch it, up to the last of the three stores.
  For the HomeMatic Wired bus, `HmTypeCorrect` and `HmDisplaysInOrder` from `HmInv`: only the first byte of what
  is still to come is sent raw (`HmBusInv`); the task holds what it checked
  (`HmTaskInv`); no message is newer than what the bus has begun (`HmPast`,
  `HmFuture`); and a buffer that may still become a message belongs to a newer one
  than those the task has or had (`HmEmpty`, `HmOpen`, `HmNewer`), which the
  property alone does not say.
  For the 1-Wire search, `SearchFindsAll` from `OwInv`: the table holds
  exactly the devices up to the last code found in the order in which 0 comes
  before 1 (`OwFrontier`), `LastDiscrepancy` is the last place where that code could
  have gone on with a 1, and a pass that branches off there and takes the 0
  wherever it can finds the next code in the order.  That there is a first bit
  where two codes differ, and a least device behind the last one, comes from the
  well-foundedness of the order of the naturals, so codes have any width and any
  set of devices that fits into the table will do.  `OwTypeCorrect` is the type
  invariant, without that assumption.

**Only model-checked**:

* liveness (`QueuedIsTaken`, `CommandsEnd`, `FallsBack`, `ArmedIsAnswered`,
  `ConversationEnds`, `V8SyncEnds`, `ConEveryLineRuns`, `OwSearchEnds`, `FfComesBack`,
  `RfrGoesOn`), which is out of this prover's reach;
* `DeletedIsDelivered` of Fht80b.  It is not true of every number of waiting
  frames: an acknowledgement of an aborted conversation that is still in the
  receiver's queue can meet a new message with the same command, after T01, and be
  taken for its own.  With one or two waiting frames no such state exists;
* `BoardTypeOK`: it is the conjunction of the type invariants of the components
  that share the run `board`, where only one of them takes steps.  Each conjunct
  is the statement of a theorem about its component (`TypeCorrect` of the rings and of
  the receiver, and `TfTypeCorrect`, `V8TypeCorrect`, `RepTypeCorrect`,
  `QfsTypeCorrect`, `ConTypeCorrect`, `OwTypeCorrect`, `FfTypeCorrect`, `StTypeCorrect`,
  `HmTypeCorrect`, `RfrTypeCorrect`), so a proof about the side by side would add nothing.

## 5. Not modelled

`PROJECT.json` lists every component with the reason.  In short: the decoders
are functions of a bucket; the packet radio modes and send-only protocols keep
almost no state; sensors, displays, infrared and network glue are
drivers; `lufa`, `avr-uip`, `Wiznet`, IRMP, CMSIS and the HAL of ST are not this
project's code and are most of its lines.

Behaviours of the code that were met on the way and that no run states:

* A window sensor whose sync comes while a change has pushed the count past 3 is
  silent until the count, an `int16_t`, has gone around (`fht.c:365` tests `== 4`);
  `TfSilenceNeedsSync` says that this is the only way.
* Where `int` has 32 bits (ARM; `Wide`), a message of 128 to 255 units has a negative
  sum that passes the test of `sendraw` and adds to the account.
* The echo of a command, the reports of telegrams and the router mix their characters
  in one output ring, and a packet of the router may meet a line of the host in
  `cmdbuf`: both are then spoilt up to the end of a line (`conSpoilt`).
* A sync of the valves that is started with 1 counts on from 255 (`fht.c:441`): some
  128 packets of 8 units for a gift of 4, and the account runs dry.
* `CDC_Task` discards what finds `TTY_Rx_Buffer` full (`cdc.c:105`), which on CUL_V2
  (48 bytes behind an endpoint of 64) takes one packet of the host; if it discards a
  newline, two lines become one.
* If the first line gathered for the base is a window sensor's, which is shorter than
  `FHT_compress` takes it for (`display.c:50-60`), the line of a thermostat whose house
  code is the beginning of the sensor's address is merged behind the second line:
  under the house code of another thermostat, or into a line of another kind, which
  loses its last characters.  `display.c:58` says "compress only messages from the same
  FHT".  `RfrTellsAll` excepts these (`RfrStray`, `RfrUntold`).
* The search of `onewire.c` with more devices on the bus than its table has room for
  is not looked at (`OwAssumption`), nor is a packet that FastRF is signalled while it
  displays one, nor a line of stacking whose beginning was not dropped being whole.
* A lost update of `rstate` makes hm485 lose a message, or leaves RSTATE_MSG set, so
  that `sendmsg` waits until the watchdog resets the board.
* If the beginning of a line arrives while another one is being forwarded,
  stacking forwards the rest of it.
* `write_filedata` stores a last packet that is longer than the size announced.
* The last bit of a KS300 telegram is taken from `hightime`, which a pulse received
  since may have overwritten; adding a bit to a full bucket resets the input.
* An own send of the router (`u` or a flush) while it waits for a packet loses the
  packet; `u` drops what was gathered; and what is beyond the 57 characters of a packet
  is lost, although `docs/commandref.html:853` says that all received messages are
  relayed.

## 6. Plan

1. Composition of the main loop: `SlowRF` with `Fht80b` through the queue of
   received telegrams; `RfRouter` with `Console` through `TTY_Rx_Buffer`.
2. Proofs still wanted: `DeletedIsDelivered` for a receiver with one waiting frame;
   `RfrGoesOn`'s safe part, that the chip and the status agree outside
   `rf_router_task`; that a file survives a power failure also in a full directory
   that never caches a failed search.
3. The tasks of the packet radio modes, as far as they share `rf_mode` and the chip
   with `RfRouter` and `FastRf`; the ring of `dmx.c`; the counters of `vz.c`.

## 7. Running it

    tlc -config MCFht80b.cfg MCFht80b      # a run; the others alike
    tlc -config MCBoard.cfg MCBoard        # with Builds = {"qfs"}: one component
    tlapm Fht80bProofs.tla                 # the proofs of a component
