# Verification of airplay2-sender-cpp

TLA+ models of the AirPlay sender in `src/src`, TLC runs on small instances of
them, and TLAPS proofs for instances of every size. Paths are relative to the
repository root `src/`; `raop_sender.cpp` means `src/src/raop_sender.cpp`.

## 1. The system

| Part | State | Operations | Talks to |
|---|---|---|---|
| `RaopSender`, control plane (`raop_sender.*`, `raop_auth.h`) | session state, pairing stage, `ap2_` keys, five timers, the two reply FIFOs, digest state, pending volume and metadata, sockets held | `setAuth`, `start`, `stop`, `submitPin`, `setVolume`, `setNowPlaying`, `tick`, `onTcp*`, `onUdpDatagram` | calls the host's `RaopIo` (sockets) and `RaopEvents` (`launched`, `closed`, `pinRequired`, `credentialsObtained`) |
| `RaopSender`, data plane | `seq_`, `framesSent_`, `clockStart_`, audio nonce, backlog of 1024 packets, resampler buffer | pacer tick, sync tick, retransmit and timing datagrams | pops the ring, sends UDP |
| `RingBuffer` (`ring_buffer.h`) | two counters, an array | `tryPush`, `tryPop`, `availableRead`, `availableWrite`, `reset` | shared by the audio thread and the sender's thread |
| `RaopLoop` (`raop_loop.*`) | two TCP and three UDP slots with generations, parked notifications | `tcpConnect/Send/Close`, `udpBind/Send/Close`, `pump` | implements `RaopIo`, drives the sender |
| `RaopQtHost` (`raop_qt_host.*`) | Qt sockets | as `RaopLoop` | an adapter |
| Encrypted channels (in `raop_sender.cpp`) | frame buffers, four counters | framing, encrypt, decrypt, answering events | cryptography |
| Cryptography (`airplay_crypto.*`) | SRP exchange | SRP-6a, HKDF, ChaCha20-Poly1305, X25519, Ed25519 | mbedTLS, `third_party/ed25519` |
| Codecs (`airplay_crypto.*`, `raop_creds.h`) | none | TLV8, binary plist, credentials JSON, ALAC framing | - |
| Logging (`raop_log.h`) | none | formatting | - |
| Example (`example/airplay_send.cpp`) | a producer thread, a loop | feeds the ring, runs the sender | ring, loop, sender |

The sender is single threaded: the host calls it and every call runs to
completion. What is hard in it is the *order* of those calls: replies,
timeouts, FINs, a user's PIN and the host's own `stop()`/`start()` can come in
any order, also from inside the sender's callbacks, and each of some forty
handlers must leave the session guarded by a timer, its FIFOs aligned, its
encryption in step and the host correctly informed. The hosts hand the sender
events of sockets that its own handlers close and reopen while the events are
being handed out. The channels are byte streams cut anywhere. The ring and the
example are the places with two threads. The data plane is arithmetic on
counters that all wrap. `PROJECT.json` lists these hazards line by line under
`hazards`, each with the properties that would catch it going wrong.

What makes each part correct:

* control plane: a starting session always has a running watchdog and ends;
  each reply reaches the handler of its request; encryption is switched on at
  the same request on both sides; strict mode never accepts an unproved
  receiver; fallbacks terminate; all sockets are released; the host hears what
  the comment on `RaopEvents` promises, also when it calls back;
* data plane: one unbroken timeline a session, no nonce twice, retransmits
  answered with the original packets of this session, pacing tied to the clock,
  output frames evenly spaced over the source;
* ring: a FIFO, no overlapping copies, no failing call after a check;
* hosts: every event belongs to the connection it happened to, the end of a
  channel is reported once and after its last data, no socket leaks, and no
  connection or timer is starved;
* channels: replies and event requests are put together whole, in order and
  once, and both ends count frames in step;
* pairing: both sides end with each other's keys; an honest receiver and the
  right PIN are accepted; stored credentials work;
* codecs: decode inverts encode, and what is cut off is not half understood;
* example: left and right stay apart, the exit code tells, nobody waits for ever.

## 2. Modules

| Module | What it is |
|---|---|
| `RaopSession` | the control plane |
| `HostContract` | what the host is promised: calls of `launched()` and `closed()`; `RaopSession` implements it |
| `RaopSessionProofs` | theorems about `RaopSession`: the session and its host; the protocol with the receiver |
| `RaopCallbacks` | the sender's calls as programs on a stack: host code that calls back from inside callbacks |
| `RaopCallbacksProofs` | theorems about `RaopCallbacks` |
| `RaopStream` | pacer, packets, backlog, retransmission |
| `RaopStreamProofs` | theorems about `RaopStream` |
| `Resampler` | `fillFrames_`: the frames that fill the packets |
| `SpscRing` | the lock-free ring, one step per load, copy and store |
| `SampleFifo` | a bounded FIFO of samples; `SpscRing` implements it |
| `RaopLoop` | the `poll()` host: slots, generations, `pump()` step by step |
| `RaopLoopProofs` | theorems about `RaopLoop`, among them that it implements `IoContract` |
| `RaopQtHost` | the Qt host: sockets as objects, signals, deferred deletion |
| `IoContract` | what `raop_io.h` promises the sender of its TCP channels; both hosts implement it |
| `HapFrames` | encrypted frames and the loop that opens them, used by the two channels |
| `HapControl` | the control connection as a byte stream, through the switch to encryption |
| `HapEvent` | the event channel and its answers |
| `HapChannels` | the composition of `HapControl` and `HapEvent` |
| `HapChannelsProofs` | theorems about both channels of `HapChannels` |
| `HapPairing` | pair-setup and pair-verify with a receiver, SRP arithmetic and keys |
| `HapPairingProofs` | theorems about `HapPairing` |
| `Tlv8`, `BPlist`, `RaopCreds` | the encodings, encoder against decoder |
| `AirplaySend` | the two threads of the example |
| `Threads` | the composition of `SpscRing` and `AirplaySend` |
| `ThreadsProofs` | theorems about `Threads`: the ring, among them that it implements `SampleFifo`, and the example |
| `ModularArithmetic` | lemmas about least numbers, induction over naturals, quotients and remainders, for the proofs |
| `MCRaopSession`, `MCRaopCallbacks`, `MCRaopLoop`, `MCRaopStream` | constants for TLC |
| `MCThreads` (extends `Threads`), `MCHapChannels` (`HapChannels`), `MCRaopAudio` (`RaopStream`, `Resampler`), `MCHosts` (`RaopLoop` twice, `RaopQtHost`), `MCCrypto` (`HapPairing`, `Tlv8`, `BPlist`, `RaopCreds`) | several related modules in one model |

The models of the last row, and the two compositions, put modules side by side: a variable chooses at the
start which of them a behaviour exercises, and the variables of the others do
not move. This checks each module by itself, as a run of its own would, and
states what they promise in common once (`MCHosts!ImplementsIoContract`).
Where components really interact, the interface is a module: the sender meets
its host's code in `HostContract`, the hosts meet the sender in `IoContract`
(each host is checked against *any* sender), the ring meets both of its users
in `SampleFifo`, which is how `AirplaySend` and `Resampler` see it.

### RaopSession

The state is one record `s`: the sender's members under their names without the
trailing underscore, the two sockets as the host has them (`ctl`, `evt`), the
requests the receiver still has to answer (`wire`), whether it expects
encryption (`rcvEnc`), and history that only properties read (`proved`,
`session`, `asked`, `launched`, `closed`, `requests`, `feedbackRefused`, `gen`).
A private method is an operator from records to records with the method's name
(`sendRequest_`, `fail_`, `startStreaming_` ...), so a handler composes the
calls the code makes in the order it makes them. An action is one public call
or one branch of a reply handler; the branches of `handleResponse_` and
`onPairingResponse_` are separate actions guarded by the front of the FIFOs and
the stage, exactly as the code dispatches.

Abstractions: a request is its method and the stage its reply is for; a status
is `ok`, `401`, `403`, `470` or `other`; a pairing message is `good`, `forged`
(well formed, but the SRP proof or the signature does not verify) or `error`.
Time is abstract: an armed timer may become due (`TimePasses`), and `tick()`
then fires it. `nowPlaying` is the number of requests the metadata takes, 0..2.
The host calls `setAuth` when no session runs, as the header asks. A
configuration pairs auth-setup with AirPlay 1 and the HAP pairings with
AirPlay 2 (`ConfigsAssumption`): `setAuth` does not check this, and auth-setup
with `airplay2` set would reach `sendAp2SetupStream_` with a null `ap2_`.
The external receiver answers in order; `StrayReplies` also lets it send
replies nobody asked for.

### HostContract

Three phases and two counters. `Begin`, `Launch`, `Lose` and `Quit` are all the
host can observe. The refinement mapping reads the phase off `s.state` and the
counters off the history.

### SpscRing and SampleFifo

`write_` and `read_` wrap at `2^WordBits`; positions are the bitwise `&` with
`mask_`, and the capacity is what `nextPow2` computes, bit by bit, for the
requested size (0 included, which yields a ring that refuses everything).
A load of the other thread's counter returns its value or the value last seen,
which covers what acquire/release and relaxed loads of a single counter may
return; data copied before a release store is visible to whoever loads the
stored value. The producer either asks `availableWrite` first, like the
example, or just pushes; the consumer is `fillFrames_`, on its pass-through and
on its resampling path, both of which ask `availableRead` and ignore the result
of `tryPop`. The samples are numbered as they are pushed, so the mapping to
`SampleFifo` checks contents, not only counts. `reset()` needs both threads at
rest.

### RaopStream

Sequence numbers modulo `SeqMod`, RTP times modulo `RtpMod`, the product
`elapsedNs * kRaopRate` modulo `ClockMod`. A pacer tick sends a whole burst in
one step, as the handler does. `start`, `stop` and FIN clear the backlog,
`fail_` does not. What was sent in the running session is history (`sent`).

### RaopCallbacks

What `RaopSession` takes as one step is a program here: the state changes and
callbacks of a C++ function in their order, on a stack of calls. While a
callback is on top the host may push `stop()`, `submitPin()` or `start()`.
`submitPin()` has the code's one guard, `waitingForPin_`, which outlives the session,
and its M3 may fail: then `fail_` runs inside the nested call and calls back once
more. `raop_sender.h:65-67` promises that `stop()` may be called from a callback and
says nothing of `start()`; the run lets the host call it in the callbacks after
which the calling function has nothing left to do (`LastCalls`: `closed`,
`launched(true)`, `pinRequired`). Elsewhere it does not work: a `start()` inside
`launched(false)` is followed by `closed()` of the session before it, and one
inside `credentialsObtained` replaces the `ap2_` the handler goes on to use.
Setting `StartIn <- Callbacks` in `callbacks.cfg` shows both.

There is one way a `start()` in a last callback goes wrong, too. A FIN arrives while
the sender waits for the PIN; in `launched(false)` the host submits one; M3 fails,
and `fail_` calls `closed()`; in that the host starts a new session; and then
`onTcpClosed` goes on and calls its own `closed()`, of the session before. `late`
remembers the session whose PIN came after its end, and `CallbacksTrue` exempts
exactly that `closed()`: the one of the outermost call, of that session. Everything
else holds in such a behaviour, and the other two invariants have no exemption.

### Resampler

Frames are numbered in the order of the ring; an output frame is the pair of
input frames it lies between and its distance from the left one, in units of
1/44100, so that "evenly spaced" is exact arithmetic. The code's doubles are
taken as exact. `setInputFormat` may come at any time. Changing to 44100 Hz and
back while `inBuf_` holds frames plays old frames after newer ones; the history
variable `mixed` marks this, and `EvenlySpaced` speaks of all other behaviours.

### RaopLoop, RaopQtHost and IoContract

`IoContract` has two variables a channel, what the sender has been told (`view`)
and the connection behind it (`link`), and says which handler may be called
when. `RaopLoop` has the slots with their generation numbers, the kernel's
sockets with numbers that are handed out again, the parked notifications, and
`pump()` as a program: parked notifications, snapshot and `poll()`, then the walk
over the answered entries, one step per handler call. While a handler runs, and
between two pumps, the sender makes any `RaopIo` call. The snapshot may thus be
stale for every later entry, and what makes that harmless (the check of fd *and*
generation) is what `ImplementsIoContract` depends on. `RaopQtHost` has the Qt
socket objects with their wiring and deferred deletion; a handler knows its slot
and not its socket. Qt itself and the kernel are external: connections come up
and die, segments and datagrams arrive, `poll()` is interrupted, a peer's close
is signalled as an error and then as `disconnected`. A socket of `RaopLoop` has room
for more or not: `send()` takes nothing without it, `poll()` then reports it
readable at most, and the peer makes room by reading (`PeerReads`). A peer may send
for ever; `MaxRx` bounds only what waits to be received.

### HapFrames, HapControl and HapEvent

A message is a short sequence of tokens (head lines, body), a frame opens under
its own key and counter only and if it was not damaged, and on the wire it is
two halves, so that a segment can end inside it. `HapControl` has both
directions of the control connection, a receiver that reads, replies and pushes
requests of its own, and the switch to encryption: the receiver's when it has
sent the reply to the last pairing request, the sender's when it has read it. A
request the receiver pushes in between is text to the sender. If all of its frame
was taken for text, the next frame does not open and the session fails. If the
switch comes inside the frame, what is left in `rtspEncBuf_` does not begin with one
(`~Aligned`): the code reads two bytes of it as a length and either fails or waits
for that many (`raop_sender.cpp:873-877`), and the model does either.
`HapEvent` has the answer loop of `onEventReadyRead_`; a frame that does not open
drops all that is buffered, and later segments need not start with a frame.

### HapPairing

`RaopSession` takes a pairing reply for good, forged or an error. Here the
replies come from a receiver and whether they verify is computed: SRP-6a with the
code's formulas in the group of order 22 modulo 23, hashes and HKDF as the tuple
of their inputs, signatures and ciphers symbolic. Three connections with every
secret, salt and PIN, all fallbacks, an end at any point, and a receiver whose
user makes it forget its pairings. The sender takes any 2xx reply to pair-verify
M3 for acknowledged (`raop_sender.cpp:1380`), so `KeyedTogether` exempts a receiver
that has forgotten the pairing; `RaopSession!EncryptionInStep` likewise assumes a
receiver that accepts M3.

### Tlv8, BPlist and RaopCreds

Pure functions with the code's names; the state is the value, or the stored text
with the edits made to it, built up step by step so that TLC enumerates them. In
`BPlist` the encoder takes the layout as a parameter: the sender's own, and the
widths and UTF-16 strings a receiver may choose. In `RaopCreds` a text is
reformatted, reordered, extended with members of other programs, changed to
capital hex digits, cut off or short of a digit. `BPlist` and `RaopCreds` contain
RECURSIVE operators and are for TLC only.

### AirplaySend

`main()` and the producer thread step by step, the signal handler, the sender's
callbacks from inside `pump()`, the samples of `loadWav`, and the way out.

## 3. Runs

| Run | Question | Answer |
|---|---|---|
| `session_safety` | all ten receiver kinds, in-order receiver: eight invariants and the refinement of `HostContract` | hold |
| `session_stray` | receiver that also sends unasked replies, PINs typed after the end: `StrayHarmless` (strictness, null `ap2_`, bounded handshake) and does every handshake end? | hold; yes, by the timers alone |
| `callbacks` | is a callback true when it is made, is the sender consistent when all calls have returned, does code after a callback use what is gone (`NothingStaleUsed`), failing PINs of ended sessions included? | hold; one `closed()` after such a PIN is exempt |
| `threads` | races, checked calls, FIFO refinement; `ProgramSafe` (channels apart, exit code, ring outlives the producer) and `ProgramEnds` of the example | hold |
| `audio` | timeline, nonces, retransmits, pacing, catching up; `FramesInOrder` (even spacing, silence only when starved, bounded buffer) | hold |
| `hosts` | `SocketsOwned`, `BytesUnbroken`, and do both hosts implement `IoContract`? | hold |
| `loop_liveness` | `ConnectionsServed` (deaths are reported, queues drain) and `PumpEnds` (every `pump()` reaches its timers) | hold, if TCP peers pause and read in the end |
| `channels` | `RepliesIntact`, `ControlInStep`, `AnsweredOnce`, `ChannelsCatchUp` | hold; the last with one exemption, `Misread` |
| `crypto` | `KeyedTogether`, `HonestAccepted`, `CredentialsGood`, `CodecsInvert` | hold |
| `stale_pin_wait` | "our own stop() is silent" | no: a PIN submitted after `stop()` may report a failure |
| `volume_before_start` | is a volume set before `start()` applied? | no: `start()` resets it |
| `pacer_overflow` | "must track wall clock" | no, once the 64-bit product has wrapped (about 4.8 days) |

A property with a new name in an MC module is the conjunction of the named
properties of its component modules (`SocketsOwned` of `FdsOwned`, `WiredIsHeld`
and `EmitterAlive`, and so on) with their type invariants. Every property of a
passing run has one or more mutants of the model under `mutants`: a definition
next to the one it replaces, marked `Mutant:`, that violates it.

### Bounds and why they suffice

* `MaxPending` (2 or 3) limits how many requests the *host* or a stray reply may add
  while streaming; the sender's own pipeline is at most 4 requests at the start
  of a stream and is not cut.
* `requests` counts a handshake's requests; the largest count reached is under
  the bound stated in `HandshakeBounded`, so nothing is truncated.
* callbacks: five sessions, three replies in one segment. At most three calls are
  ever under way (section 4), and `MaxDepth` is 4: no nesting is cut off, and every
  one happens.
* the ring has 3-bit counters and capacities 0, 1 and 4: the counters wrap at
  twice the capacity, the tightest ratio that tells full from empty, chunks of
  0 to 3 samples are copied in one and in two parts, and the consumer wants 1
  or 2 frames of two channels. The example's chunk of 4 and ring of 8 samples over
  files of 2 to 6 samples make the position wrap inside a chunk.
* the stream has 8 sequence numbers over 4 backlog slots and lasts 10 packets,
  so numbers wrap and slots are reused more than once; bursts of 2 against
  stalls worth 4 packets; the clock modulus is out of reach in `audio`
  (a stream of less than 4.8 days) and small in `pacer_overflow`.
* the resampler makes packets of 2 frames at ratios 2/3, 4/3 and 8/3 and at 1, from
  a ring of 9 frames into a staging buffer of 8: compaction, starvation and every
  phase occur.
* `RaopLoop` in `hosts` with one TCP and one UDP slot takes three units of data, two
  generations and walks of two datagrams; one segment waits unread, and others take
  its place without end. In `loop_liveness` there are two TCP slots and a UDP slot, of
  which the sender opens any two, each once, and sends two units on one or both
  (`Sparing`, which restricts only the sender, of whom no fairness is assumed): two
  entries of a walk, of either kind, are what it takes for one to keep the other
  waiting. In `hosts` with two TCP slots, two generations and
  two socket numbers a slot can be closed and its number reused by the other or
  by itself within one walk. The Qt host has two TCP slots, a UDP slot and three
  objects, so that a dropped object awaits deletion while both slots are full.
* control channel: frames of two tokens, bodies of 0 and 2, so a message is one or
  two frames and the cap of 4 is met; three requests, the first of them pairing;
  one pushed request, one damaged frame, two sessions. Event channel: two
  requests of up to four tokens in up to eight frames, one damaged, two sessions.
* pairing: four secrets on each side, three salts, two PINs, three connections, so
  that stored credentials are made, used and outlived by the receiver's.
* TLV8: up to three items with two tags, values up to two full fragments and one
  byte more. Property lists: the edges of the integer widths, lengths around 15 and
  above 255, nesting one deeper than the limit (2 here, 32 in the code).
  Credentials: two edits on each of two pairings, every cut.

Symmetry is used in `hosts` only, over socket numbers and socket objects, which no
definition tells apart; the run has no liveness property.

### Fairness

* `session_stray`: an armed timer becomes due and `tick()` is called then, the
  documented duty of the host (`raop_sender.h`, `nextDeadline`/`tick`) and what
  `RaopLoop::pump` does. Nothing is assumed of receiver, network or user.
* `audio`: the repeating pacer timer is served. Time itself need not pass.
* `loop_liveness`: handlers return, the application calls `pump()` again and again
  and the loop's own steps follow each other (WF); signals do not interrupt every
  `poll()` for ever (SF on `Poll`). Nothing is assumed of datagrams, and two things
  of TCP peers. `PeersPause`: a peer does not send for ever into one loop of `recv()`
  calls, so that the loop comes to an end again and again; it may go on sending
  between such loops. The loop (`raop_loop.cpp:495`) has no cap, unlike the one for
  datagrams, so without the assumption TLC shows a `pump()` that never comes to its
  timers and a death on the other channel that is never reported. `PeersRead`: a
  peer whose window is full reads in the end, without which a queue need not drain.
* `channels`: the receiver reads what it is sent and replies, and the connection
  delivers (WF); nothing is assumed of where it cuts the stream, or of what follows a
  frame that the switch cut.
* `threads`: both threads are scheduled, and the user answers the PIN prompt, which
  `main()` waits for inside `pump()`; without that answer ctrl-c does not end the
  program.

The Qt host has no liveness run. Its datagram loop has no cap (`raop_qt_host.cpp:187`,
where `RaopLoop` takes 64 a walk), so datagrams that keep arriving can keep a
connection's death from being reported and the ticker from running: it would need
for datagrams what `PeersPause` is for TCP, and fairness of Qt's event loop, which is
not in the repository.

Deadlock checking is off in `callbacks`, `channels` and `crypto`, where a behaviour
may stop because its bounded sessions or inputs are used up.

### Disagreements without a standing run

Met while modelling, each with a line of the repository that says otherwise:

* `stop()` in a handshake clears the timers and then sends TEARDOWN, which arms
  the watchdog again (`raop_sender.cpp:519`, `752`); `test/core_tests.cpp:899` checks
  "idle: no timers armed" for a stop from streaming. Harmless: the timeout
  returns at once when Idle. `RaopSession!IdleArmsNoTimer` states it.
* The 470 fallback is "One-shot" (`raop_sender.cpp:1307`) but can be taken a second
  time after the 403 fallback; still bounded. `RaopSession!OneShot470`.
* A refused `/feedback` "disables it for good" (`raop_sender.cpp:1160`); with two
  probes in flight a later 200 arms the timer again.
  `RaopSession!FeedbackDisabledForGood`.
* "we MUST decrypt each and answer" (`raop_sender.cpp:785`): transient pairing opens
  the event channel without keys for it. `RaopSession!EventChannelKeyed`.
* "We don't act on any, consume + log" (`raop_sender.cpp:929`): a request pushed
  between the receiver's switch to encryption and the sender's is taken for text
  and not counted. If all of its frame was, the session fails at the next frame. If
  the switch cut the frame, the rest is read as a frame of a random length: the
  session fails, or it waits (`:877`) with all later replies stuck behind; a session
  that is still starting is then ended by its watchdog. `HapControl!InStep` exempts
  this through `rcv.early`, `HapControl!RequestDone` through `Misread`.
* "session ended" (`raop_sender.h:70`): after a PIN submitted from
  `launched(false)`, `closed()` may be called while a new session lives (section 2,
  `RaopCallbacks`). `RaopCallbacks!CallbacksTrue` exempts it through `x.late`; the cause
  is that of the run `stale_pin_wait`.
* "pair-verify M3 acknowledged" (`raop_sender.cpp:1381`): the reply's body is not
  decoded, so a receiver that rejects M3 in a 200 is taken to have accepted it.
  `HapPairing!KeyedTogether` exempts it through `rcv.forgot`.
* `loadWav` gives "interleaved stereo" (`airplay_send.cpp:66`) also of a stereo file
  cut off inside a frame, with an odd number of samples; the channels then swap
  at every repetition. `AirplaySend!FramesKept` with such a file in `Files`.

The first four are false invariants of `RaopSession`: named as INVARIANT in
`session_safety.cfg`, TLC shows a behaviour for each. They are kept beside the properties that hold as a record of what the code does not do.

## 4. Proofs

Each theorem holds for every value of the constants its module declares. The only
assumptions are the named `ASSUME`s of the modules, which TLC evaluates in the
runs, and the hypotheses stated here. In every case the invariant a run checks is
not inductive by itself, and most of the module is the invariant that is.

### The session (`RaopSessionProofs`, first half)

* `CoreInvariant`, `TypeCorrect`, `WatchdogAlwaysArmed`, `SocketsReleased`: late
  PINs and stray replies included;
* for a host that submits no PIN after the end of a session (`~PinAfterEnd`; the
  run `stale_pin_wait` shows why): `EventsAsPromised` and `HostContractKept`, the
  refinement of `HostContract`.

The invariant `Core` has five parts. A reply may be taken only if both FIFOs have a
front, so their lengths must agree (`Paired`); that a reply finds the session alive
needs the sockets to follow the state (`Connected`); that the PIN timer fires only
in a live session needs the timers that are due to be armed, and the PIN timer to
be off when Idle (`Timed`). Facts about each private method say what it keeps and
changes (`WriteFacts`, `FailFacts`, `StopFacts` ...). From these, one lemma per group
of actions shows that every action keeps `Core` and is, as far as the host can tell,
one of five kinds: `Quiet`, `Lost`, `Launched`, `Halted`, `Begun` (`NextSteps`). The
theorems about the host need only these five; `Told` strengthens `EventContract` with
the fact that a running session is live and was not asked to stop.

### The protocol (`RaopSessionProofs`, second half)

* `ReceiverProved`, `Ap2NeverMissing`, `HandshakeIsBounded` and their conjunction
  `StraysDoNoHarm`: against receivers that reply whatever and however often;
* for a receiver that replies only to what it was asked (`~StrayReplies`):
  `RepliesRouted` and `EncryptedInStep`.

`ProtoInv` is `Core` and `Proto`. `Keyed` relates `ap2_`, encryption and the receiver's
proof; `Staged` says which pairing stages belong to which state; `Bounded` gives every
stage a budget of requests it has left, `Left`, which each fallback and retry uses up,
so that "at most 14" becomes inductive; `OneRequest` says that a starting session has
at most one request outstanding, and none while the user is asked for the PIN. Only
`InStep`, that the FIFOs and the wire hold the same requests, needs in-order replies,
and the other parts do not depend on it.

### Callbacks (`RaopCallbacksProofs`)

`CallbacksAreTrue`, `SenderConsistent` and `NothingStale`, for any number of sessions,
replies and nested calls, provided the host calls `start()` only in the last callback
of a function (`StartIn \subseteq LastCalls`; section 2 says what happens elsewhere).
The host may submit a PIN at any point, of an ended session too, and it may fail;
`CallbacksAreTrue` exempts the one `closed()` that section 2 describes.

The invariant `CallInv` gives, for every point of every program, what has been done so
far. The end of a session is the same four statements in three orders, so it is
described by what is *left* of it (`Torn`): what is not left has been done. `CallAt`,
`PinAt` and `LoopAt` are the points of `stop()` and `start()`, of `submitPin()` and of the
event loop's calls; `InCall` is what holds inside a callback, `Below` what a call may
rely on while another runs inside its callback. No more than three calls are ever on
the stack, whatever `MaxDepth`: a call from outside; one of the host's inside a
callback of it; and, if that is a `submitPin()` that fails, one more inside its
`closed()`. By then no PIN is waited for, so the third can only be a `stop()` or a
`start()`, and the one callback of those is the `launched(false)` of a session that
never began, in which the host has no call left to make. If the call at the bottom of
such a stack is in its `launched(false)`, its own `closed()` is the exempt one: `late` is
then its session.

### The stream (`RaopStreamProofs`)

`StreamTypeCorrect`, `StreamOneTimeline`, `StreamNonces`, `StreamAnswersExact` and
`StreamNeverAhead`, for any widths, burst, rates and backlog within
`StreamAssumption`. `StreamInv` counts: a packet's sequence number, RTP time and nonce
are functions of its place in the session (`PacketsInv`, `CursorInv`), and slot `k` of
the backlog holds the last packet whose number is `k` modulo the slots
(`BacklogInv`). Exact answers then follow because `BacklogSize` divides `SeqMod`.

### The ring (`ThreadsProofs`)

`NextPow2Least`, `RingTypeCorrect`, `RingNoRace`, `RingCheckedCalls` and
`RingImplementsFifo`, for every word width up to 64 bits, any requested sizes, chunks
and numbers of channels. `RingInv` has the mask (`MaskInv`: one less than a power of
two that is at most half a word), the distances between the counters and what each
side has last seen of the other's (`CountInv`), and the cells (`DataInv`: the cell of
every position between the counters holds its sample, also while a copy is under
way). That masking is reduction modulo the capacity, and that the six shifts and ors
of `nextPow2` yield the least power of two, is proved bit by bit. The provers know
nothing of `^`; `PowerLaw`, its two defining equations, is an `ASSUME` that TLC
evaluates.

### The loop (`RaopLoopProofs`)

`LoopTypeCorrect`, `LoopOwnsFds`, `LoopBytesUnbroken` and `LoopImplementsIoContract`, for
any numbers of slots, sockets and bytes. They say of `RaopLoop` what the `hosts` run
checks, for two of its instances, as `SocketsOwned`, `BytesUnbroken` and
`ImplementsIoContract`.

`LoopInv` has two halves. `Data` is about the slots: distinct open sockets (`Owned`),
what of each queue the kernel has and what is left of it (`Queue`, `Line`), and what
the sender has been told of each connection. `Place` is about `pump()`: an answered
entry whose fd *and* generation are still those of its slot tells the truth about
the connection in it (`EntryOK`), and one whose generation is older is never acted
upon. `Later` says that generations only grow and connections only go onward, which
is why an entry that has gone stale stays so whatever the handlers close and reopen
between it and its turn. Nothing is assumed of when the kernel has room or of how
much of a queue it takes. `Kept` says of every step that it is a step of `IoContract` or
invisible in it.

### The example (`ThreadsProofs`)

* `ShutdownInOrder`: the exit code and the order of the ends of the threads, with
  nothing assumed of files, chunk or ring;
* `ProgramIsSafe`: `ProgramSafe`, which adds that left and right stay apart, for
  chunks, rings and files of whole frames (the assumption `WholeFrames`). `Whole`
  says that position, chunk and ring hold pairs at even places.

### Pairing (`HapPairingProofs`)

`PairingInvariant`, `KeysMatch`, `HonestNeverRefused` and `CredentialsStayGood`, for any
modulus, base, secrets and salts, any functions in place of SRP's two hashes, and any
number of connections, wrong PINs, fallbacks and resets of the receiver. The other
primitives are those of the model: a signature verifies, and a cipher opens, under its
own key only.

The arithmetic is `ClientAndServerAgree`: the client's `(B - k g^x)^(a + u x)` and the
server's `(A v^u)^b` are one residue. It rests on two laws of powers modulo `N`,
`(b^e)^d = b^(e d)` and `b^e b^d = b^(e + d)`; nothing needs a prime modulus. `PowMod` is a
recursive function, so its laws are proved by induction over the set of exponents
they hold for.

The invariant `PairInv` goes by stages (`AtNone` ... `AtDone`). Each says which message is
under way and from which values it was computed, what the sender has kept of the
exchange and what the receiver has, so that a handler finds at its turn what it
checks against. What makes the right PIN never refused is that an error of M4 is
under way only in a stage whose PIN differs from the one on the screen; what makes
credentials good is that the receiver keeps a sender's key before the sender stores
its own.

### The control channel (`HapChannelsProofs`)

`ControlHolds`, `RepliesStayIntact` and `ControlStaysInStep`, for any number of requests,
bodies, pushed requests and sessions, frames of any size, damaged ones among them, and
a byte stream cut anywhere.

The invariant `ControlInv` has, for a live session:

* `Counts`: the requests that wait are those after the ones handled, in order; each end
  has switched to encryption exactly when it has seen the last pairing reply, and
  until then one request is outstanding;
* `Requested`: the requests on their way are framed under consecutive counters of the
  sender, those before the switch in the clear;
* `Going`: the stream to the sender is in one of three situations. Before the sender has
  switched, text in whole messages, then perhaps frames of a request pushed early
  (`InClear`). After it, frames under the counters that both ends expect, that carry
  whole messages numbered on from the last reply handled (`Sealed`). Or an early
  request was taken for text, and then no later frame can open: the session fails,
  or more is waited for (`Spoiled`). This is how the model shows what
  `raop_sender.cpp:929` overlooks, and why no wrong reply comes of it.

A segment may end anywhere, so the step of `onRtspReadyRead_` is proved from two
lemmas: the plaintext of a stream of frames is that of the complete ones and of the
rest (`PlainSplit`, `PlainPrefix`, `FramedConcat`), and the loop that takes the text apart
leaves a part of the next message whatever prefix of whole messages it is given
(`FirstMessage`, `DispatchKeeps`, `LoopLeaves`). `FlattenSeq` and the loop are recursive
functions; what holds of every turn is proved by induction over the set of turns.

### The event channel (`HapChannelsProofs`)

`EventHolds` and `RequestsAnsweredOnce` (`AnsweredOnce`), from `EventAssumption` alone: for
any number of requests the receiver sends, bodies, frames and their sizes, damaged
frames, sessions, and a byte stream cut anywhere.

On a live session put the plaintext buffer of `onEventReadyRead_`, what the halves of
frames buffered or on their way carry, and what the receiver has not sent yet, one
after the other. The invariant `EventInv` says of them (`EvFlow`, `Flow`, `InHand`):

* the halves take turns, whatever was dropped before them;
* the CSeqs answered, followed by the CSeq lines of that text, rise (`Rising`). Damage
  takes something out of the middle of the text, never out of its order
  (`RisingDropped`), and answering takes one of the lines of the next request, or none
  (`RisingAnswered`). That is why no request is answered twice, even on a channel
  where frames were lost;
* as long as nothing was damaged (`whole`), the text is exactly the requests after the
  ones answered (`RequestsAfter`), their frames open under the next receive counters,
  and no complete request is left in the buffer: so what is answered, each with its own
  CSeq, and what is in flight are together all that was asked.

A read has three outcomes, a lemma for each: the whole buffer opens (`FlowOpens`), it is
dropped behind the frames that open (`FlowDrops`), or it does not start with a frame and
more is waited for (`FlowWaits`). The answer loop is a recursive function: what each of
its turns keeps holds where it ends (`AnswersKeep`), by induction over the set of turns.

### Only model-checked

* `Resampler` and the codecs; `RaopQtHost` and its refinement of `IoContract`;
* all liveness (fairness and ENABLED are out of the prover's reach);
* what `BPlist` and `RaopCreds` compute: they recurse over data in RECURSIVE operators,
  which the provers do not take; and `CodecsInvert`, which joins them with `Tlv8`.

Inductions here are over numbers, on the set of those for which a formula holds
(`NatSetInduction`, `ModularArithmetic`, from a least counterexample); the library's
induction theorems take an operator as a parameter, which no prover here instantiates.
Where a recursive function is used, that a function satisfying its recursion exists is
proved the same way, once for each.

## 5. Not modelled, and the plan

Not modelled:

* the bytes of requests and replies, header parsing and wording; logging;
* the cryptographic primitives (mbedTLS, `third_party/ed25519`) and the MD5 digest
  answer; the bit layout of the ALAC frames;
* calls that keep no state: `udpSend`, the replies to timing requests;
* property lists that are damaged, 4-byte reals, and a root object other than
  object 0, which the decoder does not look for;
* the destructors of the hosts; what is different on Windows behind the same calls;
* the example's argument parsing, credentials file and tone generator; a WAV with
  an empty data chunk, whose first sample the producer would read (`airplay_send.cpp:247`);
* several senders on one host (each has its own state).

What could be proved next:

1. `Resampler`: the bound of the staging buffer and the even spacing of the frames.
2. `RaopQtHost`: its refinement of `IoContract`, along the lines of `RaopLoop`.
