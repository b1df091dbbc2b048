# meshcore-rs in TLA+

meshcore-rs is the firmware of a LoRa mesh node: `no_std` Rust on the Embassy
executor. This directory holds TLA+ models of its core logic, the TLC
configurations that check them, and proofs that TLAPS checks. Paths are relative
to the repository's root.

## The system

| Part | Source | State | Operations |
|---|---|---|---|
| Dispatcher | `crates/meshcore-dispatch/src/dispatcher.rs` | queues, budget, counters, place in the loop | `run`, `handle_rx`, `maybe_transmit`, `wait_for_clear_channel`, `next_wake_time` |
| TX queue | `…/tx_queue.rs` | at most `TX_Q` entries (packet, priority, `send_after`) | `push`, `push_entry`, `pop_ready`, `next_ready_time` |
| RX delay queue | `…/rx_delay.rs` | at most `RX_Q` entries (packet, `deliver_at`) | `calc_rx_delay`, `push`, `pop_ready`, `next_ready_time` |
| Duty-cycle tracker | `…/duty_cycle.rs` | `budget_ms`, `last_refill` | `refill`, `can_transmit`, `deduct` |
| Deduplication | `crates/meshcore-core/src/dedup.rs` | ring of `N` hashes, `next_idx`, two counters | `has_seen`, `clear_entry`, `reset_stats` |
| Packet codec | `…/packet.rs`, `…/header.rs` | the packet that is composed or read into | header and `path_len` setters and getters, `wire_len`, `write_to`, `read_from` |
| Group-text codec, crypto | `…/grp_txt.rs`, `…/crypto.rs` | none | `encode_grp_txt`, `decode_grp_txt`, `encrypt_then_mac`, `mac_then_decrypt` |
| Identity | `…/identity.rs` | a key | `sign`, `verify` (wrappers of ed25519-dalek, without a caller yet) |
| Wall clock | `crates/meshcore-radio/src/rtc.rs` | `base_epoch`, `base_instant`, `last_unique` | `get_time`, `set_time`, `get_time_unique` |
| Radio | `…/radio.rs` (trait), `…/sx1262.rs` | configuration, modulation parameters | `configure`, `send`, `recv`, `channel_active`, `estimate_airtime_ms` |
| Responder | `boards/rak4631/src/main.rs`, `user_task` | dedup table, packet counter | greet, receive, filter, decode, answer |
| Board | `boards/rak4631/src/main.rs`, `main` | peripherals | set-up, USB, LEDs, panic handler |

How they interact. Two tasks of one cooperative executor run for ever: the
dispatcher owns the radio, the responder (the "mesh layer" of the comments) owns
the dedup table. They share two bounded channels of four places: the responder
sends `TxRequest`s with `TX_CHANNEL.send().await`, which waits while the channel is
full; the dispatcher offers `RxPacket`s with `try_send`, which drops when it is
full. The wall clock is shared behind a mutex. Everything else is called, not
shared. The dispatcher waits in `select3(radio.recv, tx_in.receive, Timer::at)`, in
the backoff of the channel wait, in `channel_active` and in `send`.

What is hard here, and what each part has to get right:

- Dispatcher: its steps interleave with submissions, frames from the air, time and
  radio failures. A request must not be lost, doubled or sent early on any path
  (it is popped, checked, put back, held through a wait during which the world goes
  on); the wait for a clear channel must end; a timer must be armed for whatever is
  queued; a mesh task that does not read must not stop the dispatcher.
- Queues: unordered vectors with `swap_remove`, so the choice among ready entries may
  not depend on their places; a full one refuses.
- Duty cycle: truncating casts, saturation, and an admission rule (half of the
  estimate) that is not the charge (all of the airtime): what does it bound?
- Deduplication: a ring in which holes are cleared at any place.
- Wall clock: unique timestamps while the clock is set back, within a u32.
- Group texts: three limits (plaintext, padded ciphertext, payload) that must agree.
- Responder: echoes of its own packets, the same command again, replies in the same
  second, replies that are commands, waiting in both directions at once.
- Packet codec: fields that share a byte, a path and its length that are set apart, a
  rejected frame that leaves the packet half-read, and three places that must count the
  same bytes (`wire_len` for admission, `write_to`, `read_from`).
- Radio driver: a reconfiguration that fails half-way, and the configuration (airtime,
  power) against the parameters made from it (modulation).

`PROJECT.json` lists these hazards at their lines.

## The modules

`HeaplessVec` (external library), `TxQueue`, `RxDelay` and `DutyCycle` define the data
structures as operators; they have no variables and no recursion, and the proofs use
them as they are.

`Dispatcher` is the event loop. `pc` is the place in `run()`:

| `pc` | Code | Leaves by |
|---|---|---|
| `drain` | dispatcher.rs 88-91 | `Drain`, `DrainDone` |
| `deliver` | 94-98 | `Deliver`, `DeliverDone` |
| `transmit` | 195-212 | `NothingReady`, `Throttled`, `Commit` |
| `cad` | 256-264 | `ChannelClear`, `ChannelBusyTimeout`, `ChannelBusyRetry` |
| `backoff` | 271 | `RetryElapsed` |
| `send` | 221-246 | `SendOk`, `SendErr` |
| `wait` | 107-138 | `Recv`, `RecvNothing`, `TakeTx`, `TimerFired` |

The mesh task is `Submit` and `TakeRx`, time is `Tick`. Between two awaits the
dispatcher runs alone, and such a slice takes less than a millisecond, so `Submit`,
`TakeRx` and `Tick` are possible only where the code is suspended. A request keeps
its priority, delay, estimated airtime and route; a frame its route and its delay
(the result of the floating-point formula before threshold and cap). The contents are
left out. `submittedAt`, `outcome`, `heardAt` and `fate` are history.
The environment is bounded by what it owes: `send` takes at least one millisecond
when it succeeds and at most `Overrun` more than its estimate, a due timer and
`channel_active` take at most `MaxLag`.

`DispatcherProperties` states what the dispatcher owes; `MCDispatcher` instantiates it.

`AirtimeBudget` is the abstract specification of the budget: time, idle polls, commits,
sends and failures, and nothing else of the dispatcher. `Dispatcher` implements it
(`BudgetIsKept`), so that what is proved about it holds of the loop.

`StoreAndForward` is the abstract specification of the rest of the dispatcher, as the mesh layer and
the air see it: requests and frames in two unordered stores and one request in flight, without
the loop, the places in the queues, the budget, the channel wait and the timers. It says when a request may be
committed: its time has come, nothing that waits is more urgent, nothing is left in the channel and no frame is
due. It says in which order frames are released, and that only a full queue or channel drops anything.
`Dispatcher` implements it (`DispatchesAsPromised`); the refinement mapping takes each vector to
the set of its entries (`Occupants`), and `run`'s other steps stutter.

`ThrottledLoop` is the loop while packets wait for budget, with the time since the last
refill as its only clock, so that its liveness needs no bound on time.

`DedupWindow` is the abstract specification of the dedup table: the last `N` insertions, the
newest first. `PacketDedup` is the ring buffer, with the refinement mapping `Slot`.

`Responder` is `user_task`, with the dispatcher reduced to its channel ends. `pc` names the await:

| `pc` | Code (main.rs) | Leaves by |
|---|---|---|
| `boot` | 243-274 | `Greet` |
| `announce` | 277, 428 (USB) | `Register` |
| `send` | 280, 431 | `Send` |
| `listen` | 289 (USB) | `Listen` |
| `receive` | 295 | `Receive` |
| `report` | 312, 347 (USB) | `Reported` |
| `log` | 329 (USB) | `Decode` |
| `message` | 356 (USB) | `Answer` |

Its table is an instance of `PacketDedup`. `air` holds every packet ever sent; any of them is heard
in any order, again, or never (`Hear`), by the node itself through a repeater. `Transmit` and
`Lose` take a request, `Deliver` is `try_send`, `Reboot` a power failure. A text is the
command it starts with. `encode_grp_txt` never fails here: a reply has at most 160 bytes. `own`,
`inserted` and `answers` are history.

`RtcClock` is the software clock in ticks, with u32 arithmetic of any width in the release
build (`Cargo.toml` turns no overflow checks on: `+` wraps).

`GrpTxt` is the codec by lengths: encode, damage in the air, decode with a secret. The bytes are left
out except NULs at the end of a text, which the decoder strips, whether the text is UTF-8, and the
channel hash. The MAC is of the ciphertext only (crypto.rs 147-151), and `decode_grp_txt` passes over the
channel hash (grp_txt.rs 58), so `DamageHash`, which changes that byte, is apart from `Damage`, which
changes or cuts the rest. `Decode` takes any payload; the board decodes only what
`matches_channel` lets through and passes over the rest (`Skip`). The MAC of two bytes is taken to be unforgeable.

`Header` and `Packet` are the wire format, byte by byte, as operators: a variant is its
discriminant, masks and shifts are `%` and `\div`. `ReadFrom(old, src)` is `read_from` check by
check; it answers whether the frame was accepted and what the packet holds afterwards, also where it was
rejected. `WriteToPanics` is where `write_to` slices beyond the path or the buffer.

`Sx1262` is the radio driver by the state it keeps: `config` and the three optional parameters.
`Configure` stores the configuration first and may fail at any of lora-phy's three calls;
`SendReturns`, `RecvReturns` and `ChannelActiveReturns` are what a call can answer in a state;
`AirtimeMs` is the formula of the estimate with the preamble as a parameter: `EstimateAirtimeMs` takes
eight symbols and `config`, the frame `Transmit` puts on the air the preamble and the modulation of its parameters. What
else the formula leaves out (the quarter symbol of the sync word, the low-data-rate optimisation) depends on
lora-phy and the chip, which are external, and is not judged.

`RadioLink` composes the two, along the way of a packet. `pc`:

| `pc` | Code | Leaves by |
|---|---|---|
| `idle` | main.rs 523-536; dispatcher.rs 149-157 | `SetUp`, `Call`, `Hear`, `Compose` |
| `composed` | grp_txt.rs 124-137 and the setters of packet.rs | `Compose`, `Transmit` |
| `air` | external | `Damage`, `Arrive` |
| `done`, `panicked` | | |

`packet` is the packet composed and sent, `received` the one frames are read into: a new one in
`handle_rx`, any one for `read_from` itself, which the model allows. A caller may set the fields in any
order and leave them inconsistent, since all of them are public. `Transmit` is the part of
`maybe_transmit` that `Dispatcher` leaves out: estimate, serialise, send. `asked`, `intact`, `onAir`,
`heard`, `returned` and `configured` are history.

## The runs

| Run | Shows |
|---|---|
| `airtime_budget` | The airtime is at most twice the initial budget and the share of the time, plus a rounding per send. |
| `dispatcher_tx` | Three requests, two frames, full queues, short budget, busy channel, failing sends, in every order: accounted for, never early, scheduled at most one transmission after submission, overtaken by a less urgent one only within its delay and one transmission, and never when it has no delay, channel wait bounded, counters true, budget as specified, commits as `StoreAndForward` allows. |
| `dispatcher_live` | Three frames and a delayed request, two places for frames and one for requests: frames accounted for, held back for their delay and at most one transmission longer, released earliest first as in `StoreAndForward`; every request and frame is resolved, also if the mesh task never reads. |
| `responder` | The responder answers each command it takes, none twice and none of its own within the window of its table, across losses, repetitions, reorderings and a power failure; the two tasks never wait for each other. |
| `dedup` | The ring is the window; no hash is stored twice. |
| `rtc` | Timestamps are unique until the u32 is exhausted. |
| `radio_link` | Header, hash size and count are kept apart; what arrives undamaged is what was composed; what is accepted, damaged or foreign, is whole, carries nothing over and can be sent again; the driver's parameters are never mixed, a driver once configured stays usable, and the estimate admitted is short of the frame's airtime by the preamble beyond eight symbols and nothing else, unless the last reconfiguration failed. |
| `grp_txt` | With the constants of the code, for every length from 0 to 190: what fits is encoded, and decoded to the same text, whatever became of the channel hash; after any other damage, or with another secret, nothing is. What the board passes over is of another channel or damaged. |

Bounds. `airtime_budget`: a duty cycle of 1/8, so that the bound is far from the time that passed,
and packets whose half is all of the budget. `dispatcher_tx`: two queue places for three requests, priorities 0 and 1, delays
0 and 2 ms, airtimes 1 and 3 ms against a budget of 2 ms with a reserve of 2 ms, so that
`Throttled` happens and a send empties the budget; two frames for one place in the delay queue and one in the
channel, so that both fill; inputs up to `Horizon` = 2 ms and the
clock up to 9 ms leave time for all three to be sent. In both runs of the dispatcher `Overrun` is 1 ms, since a frame
lasts longer than its estimate (see the findings). `dispatcher_live`: two weak floods,
one of them beyond the longest delay, a direct frame and a delayed request. There are two places for
frames, since with one the order of release would not matter, and one for requests;
the clock bound lies beyond the last instant anything is due, so that no
behaviour is cut off; the run checks for deadlock with it. Its budget is ample: see
the findings for what happens otherwise. `responder`: a `!status`, the `!help` answer of another
board (a command itself, which may equal an answer of ours), and a packet whose channel hash collides;
four frames against a table of three places, so that own packets are forgotten
within a run, and one place in each channel, so that both tasks can be stuck at once; two
seconds and two starts. `!ping` and `!path` differ from these in their texts only. `dedup`: three places and five hashes, so the
index wraps and every hole pattern occurs. `rtc`: three bits, three epochs (one near
the maximum), half-second ticks. `radio_link`: three
places in the path and two in the payload, filled with one to three bytes (the third does not fit
the payload), counts 2 and 65 (65 is beyond the six bits and stands for 1) and sizes 1 and 3, so that paths
are shorter, as long and longer than they say; routes with and without codes, reached also through
`mark_do_not_retransmit`; eight foreign frames, one accepted and one rejected at each check of
`read_from` in turn; a frame cut off anywhere, or one of its first six bytes replaced by 0 or 195 (another route, another
length, an invalid hash size); the default configuration and the firmware's, with a preamble of 16 symbols, and one of the widest band with the
highest factor and rate and a preamble of 8. `grp_txt`: three secrets, two of which share a channel hash. Reconfigurations and foreign frames come before the composition:
the driver's state and the packet do not depend on each other before `Transmit`. `CHECK_DEADLOCK FALSE` where the clock bound stops the model
(`dispatcher_tx`, `dispatcher_rxfull`), where a run of a codec is over (`grp_txt`, `radio_link`), and where nothing is left to
hear (`responder`).

Fairness (`FairSpec`): weak fairness of the dispatcher's own steps, since the executor polls a
woken task and the radio completes what it started (its contract, radio.rs 111-125), and
strong fairness of time, which stands still during a slice. Nothing is assumed of the
mesh task or of the air. `Responder` has weak fairness of the two tasks, which includes that the USB host
takes what is written: a host that does not read stops the responder for ever. `ThrottledLoop` has weak fairness of both time and the loop.

## Where the code and its documentation disagree

| Run | Finding |
|---|---|
| `airtime_duty` | A factor of 1.0 is said to mean 50% duty cycle (types.rs:34). Half of the estimate admits a packet and the deduction saturates, so the refill during one send admits the next one of the same length: the radio transmits all of the time. `AirtimeBound` is what does hold. |
| `throttled_loop` | The budget is said to refill over time (duty_cycle.rs:5). Every refill truncates to whole milliseconds and moves `last_refill`; a throttled loop iterates at once, since its packet's `send_after` has passed, and earns nothing. The configuration of the run keeps a reserve that one send does not earn back. (The same busy loop contradicts ADR-0006 line 14, "must sleep between events".) |
| `dispatcher_rxfull` | A full delay queue is said to mean immediate delivery (dispatcher.rs:181); the frame is dropped. |
| `grp_txt_large` | A message too large is said to give `None` (grp_txt.rs:96); 172 to 179 bytes panic in `aes_encrypt`. The firmware's own replies are at most 160 bytes. |

Seen while modelling, without a run: `get_time_unique` is said never to repeat (rtc.rs:19), but
after u32::MAX it wraps and repeats, and panics in a debug build (`UniqueUntilMax` is what does hold);
`estimate_airtime_ms` is said to be the over-the-air time of a packet (radio.rs:105), and counts "8 configured" preamble symbols
(sx1262.rs:190) where the default configuration and the firmware's have 16 (radio.rs:67, main.rs:533): every frame lasts
eight symbols longer than what it was admitted by, as `ShortByThePreamble` says, about 16 ms for the firmware's;
a spreading factor that
`to_spreading_factor` takes for 8 (sx1262.rs:60) is taken literally by the estimate, which overflows from 13 on;
`mark_do_not_retransmit` changes the route bits too, so a flood marked so is written with four bytes of
transport codes; two boards with different clocks answer each other's `!help`
answers for ever, since these begin with `!help` after the separator; after a power failure a
board answers the echoes of its earlier `!help` answers (`EchoIgnored` holds within one life); ADR-0006 line 149 orders the TX queue by
`(scheduled_time, priority)`, the code and its comment by `(priority, send_after)`, which
`DispatchesAsPromised` and `UrgentNotOvertaken` rest on; a channel hash damaged on the way is not noticed by
`decode_grp_txt`, and the board takes the message for another channel's; after `clear_entry` the dedup table evicts an entry although a place is unused
(dedup.rs:4 says "when the buffer is full"); `rx_air_time_ms` (types.rs:74) is never
updated; crypto.rs:64 announces a panic for a ciphertext that is not a multiple of 16, the code
ignores the rest.

## What is proved

Every theorem holds for all values of the constants that satisfy the named assumptions in the
modules that declare them. TLC evaluates those on every run.

- `DutyCycleProofs`: the lemmas about the truncating share. `ShareIsSuperadditive` (two
  shares are at most the share of the sum) is what makes many small refills safe;
  `ChargeCoversHalf` relates the admission rule to the saturating charge.
- `AirtimeBudgetProofs`: `TypeCorrect`; `DecisionHolds`, that a packet admitted is still
  covered when it is charged; `AirtimeIsBounded`. `AirtimeBound` is not inductive: it does not say
  what is left in the budget. The strengthening adds the remaining budget to the airtime and
  bounds the sum by what was credited, and `DecisionHolds` carries the admission to the charge.
- `DispatcherProofs`, about the queues: `swap_remove` keeps the type, removes one entry and keeps the others
  apart (`SwapRemoveRemoves`); the earliest of a non-empty set of instants exists (from the
  well-foundedness of Nat); the request `pop_ready` picks is ready and least in the lexicographic order, the
  frame it picks is due and the earliest.
- `DispatcherProofs`, about the loop: all safety properties of its runs.
  `TypeCorrect`, with the capacities of the queues and channels.
  `NothingIsEarly`, from the invariant that every entry of the queue is due no earlier than its
  delay after its submission (`ScheduleOK`): `NeverEarly` speaks of the packet in flight only.
  `DelayIsKept`, in the same way for frames (`HeldOK`): the property compares two moments, the invariant
  ties `deliver_at` to the first of them for as long as the frame is held.
  `UrgentGoFirst`, that a request is not overtaken by less urgent ones beyond its delay and one transmission: it
  needs that each iteration empties the channel (`InOrder`), that an entry's `send_after` is at most one transmission
  later than its delay after submission (`RequestsInTime`) and, without a delay, has passed (`EntriesAsAsked`), and
  that `pop_ready` overlooks no entry, wherever `swap_remove` put it.
  `ChannelWaitEnds`, from an invariant that relates the deadline to the last poll and the next retry.
  `NoRequestIsLost` and `NoFrameTwice`: the sets held by channel, queue and flight are disjoint and together
  what was accepted and not resolved. Neither is inductive: a request could be submitted again while it is
  already resolved, a frame be dropped that was never heard. What has an outcome was submitted
  (`SubmittedFirst`), what has a fate was heard (`HeardFirst`), and a packet is in flight exactly between the
  commit and the end of the send (`InFlight`).
  `CountersTrue`: the counters are cardinalities of finite sets that grow by one member a step (`StatsOK`); for that
  a send must end for a request without an outcome, which is `NoRequestIsLost`.
  `BudgetRefinement`: every step is one of `AirtimeBudget` or leaves its variables alone.
- `DispatcherProofs`, about the whole dispatcher: `DispatcherRefinement`, step by step. A commit has to overlook nothing,
  but the code looks at the channel and the delay queue in earlier steps; `InOrder` keeps what they found
  (in `deliver` and `transmit` the channel is empty, in `transmit` no frame is due) until the next await.
  Sets forget copies: `swap_remove` removes one entry and the abstract step all equal ones, so no
  two entries may be equal (`EntriesDiffer`, from `NoRequestIsLost` and `NoFrameTwice`), and a full
  vector must be a full set (`OccupantsCounted`).
  `FramesInTime` and `RequestsInTime` bound how late a frame is delivered and a request scheduled,
  which are statements about time and still safety: the clock cannot pass a due timer
  (`InTime`). Neither is inductive. What the loop is doing when the instant passes decides how long it takes: while
  it is away, the end of the channel wait and of the send are known (`ReturnsInTime`, from
  `ChannelWaitEnds`), it cannot leave again before it looked at the queues (`StillReturning`), and while
  it waits its timer covers the earliest entry (`WakesForHeld`).
- `PacketDedupProofs`: `TypeCorrect`; `StoredOnce`; `RingIsWindow`, that the ring implements
  `DedupWindow`: an insertion shifts the ages by one (`SlotAfterInsert`), and a clear, which stops
  at the first match, removes the only one (`StoredOnce`).
- `RadioLinkProofs`, about the codec, for every capacity and all bytes. `HeaderRoundTrip`;
  `WrittenIsWireLen`; `ReadThenWritten`, that whatever `read_from` accepts is written back as it was, from
  any packet read into; `WrittenThenRead`, that what is written is read back into any packet. They rest
  on lemmas about the two fields of `path_len` (division and remainder by 64) and about the four parts of a frame: each
  check of `read_from` decides whether the next part lies within the frame.
- `RadioLinkProofs`, about the link: all eight properties of the run, from the invariant `LinkInv`. Beyond the
  properties it says what they do not: that the frame on the air is what `write_to` wrote as long as it is
  intact, that parameters exist as soon as a configuration succeeded, that the last one then
  is one of `Configs`, and that nothing was on the air before it was sent (`Strength`). The codec's theorems carry
  `Read` and `Transmit`; `ShortByPreambleOnly` needs that `ToBandwidth` gives each of
  lora-phy's bandwidths back, and likewise factors and rates, that the packet parameters are those of the
  configuration (`Strength`), and that two preambles make a difference of their symbols
  and a rounding (`PreamblesDiffer`). Assumed: the bandwidths
  are lora-phy's (`Bandwidths`), factors 5 to 12 and rates 5 to 8, as sx1262.rs 50 and 64 say, and path and payload
  fit the frame buffer (constants.rs: 6 + 64 + 184 = 254 of 255 bytes).
- `RtcClockProofs`: `TypeCorrect`; `TimestampsUnique`, from the invariant that until the wrap
  `last_unique` is the greatest timestamp issued.
- `GrpTxtProofs`: `DecodedAsEncoded` and `EncodedIfItFits`, for messages of any length and any sizes of block, MAC,
  header and payload. The key is that padding gives the fewest whole blocks that hold the plaintext
  (`PaddedIsLeast`); the property only asks for some number of blocks. `AirOK` is the inductive part: of what is intact
  the length is the one encoded, and nothing is decoded before; the channel hash is not part of it, since the decoder never reads it.
- `ResponderProofs`: `TypeCorrect`, `EchoesAreIgnored`, `NoneAnsweredTwice`, `CommandsAreAnswered`, for every capacity of
  the table and the channels, whatever is heard, in whatever order and however often. The properties are
  about the history and say nothing of the table that makes them true, so the invariant `ResponderInv` ties
  the one to the other: age by age it holds the last N insertions (`TableOK`; `SlotAfterInsertion` is the index
  arithmetic). Hence what `has_seen` does not find is N insertions old (`ForgottenAfterN`), and that is
  all `EchoesAreIgnored` needs of what was registered (`RegisteredOK`), and `NoneAnsweredTwice` of what was
  answered: `AnswersOK` places an answer at most one insertion, that of the reply, after its command.
  `CommandsOK` follows a command through the places between two visits of `receive`: at hand, about to be
  sent, answered; `CommandByHash`, that the hash tells commands from other packets, is what
  makes the steps that drop a packet keep it.

The assumptions on constants, beyond types: a group text has a header (`PLAINTEXT_HEADER`, 5 bytes in grp_txt.rs); PayloadType
has different discriminants for Trace and GrpTxt (header.rs 101); the hash of a text of the node is not the all-zero one
that marks an unused entry (dedup.rs 19; as for `PacketDedup`, SHA-256 is taken to be free of collisions); a packet that other nodes send is a packet (`Frames`), and the absence
of one is not.

Only model-checked: the liveness properties (`EveryRequestResolved`, `EveryPacketResolved`, `AlwaysListensAgain`), since fairness
and ENABLED are out of the prover's reach, and the four disagreements with a run. Every other property of a run is a theorem.

## What is not modelled

SHA-256, AES, HMAC and Ed25519 (taken as collision free and unforgeable) and the ECDH key exchange,
the identity (no caller yet), floating point (`calc_rx_delay`'s power of ten and ratios other
than 1/(1 + n); bandwidths are whole tenths of a kHz), the chip behind the driver and lora-phy's own
states, `sleep` and `standby` of the driver (they pass through to lora-phy, touch none of its
fields, and nothing calls them), `reset_stats` of the dispatcher (`run` never returns and holds the
dispatcher), USB and LEDs, the mocks. u32 counters of statistics are naturals. A `recv()` that fails at once without
suspending would starve the other task (dispatcher.rs:151): `StaysUsable` says that the driver does not
do so once it was configured, as `main` requires; what the executor does otherwise is not modelled.
A send that fails half-way may have used airtime that nobody charges: `Dispatcher` follows the code, which charges a completed send
only, and how long the chip was on the air is its own matter. A `recv()` that `select3` drops while a frame arrives is one step that happens
or does not: what lora-phy loses then is not modelled.
`Dispatcher` and `Responder` keep of a packet what they branch on; the bytes are `RadioLink`'s and `Packet`'s.

## Plan

`Node`, the composition of `Responder` with the whole `Dispatcher` (with `StoreAndForward` in
its place where its steps suffice), and a mesh of responders: when do answers to answers end?
