# TLA+ project of sound_relay

sound_relay streams sound from one Raspberry Pi to another. A Python RTSP
server (`src/py_src`), started by systemd when a client connects, forks a C++
relay process (`src/c_src`, `sound_relay`) that captures from ALSA, encodes
with Opus and sends RTP over UDP; a player (`play_rtp`) on the other host
receives, decodes and plays. This directory holds the specifications of the two
programs, the TLC configurations that check them on small instances, and proofs
of their main safety properties that TLAPS checks for every instance.

## 1. Inventory

| Part | Code | State | Operations |
|---|---|---|---|
| RTSP server | `py_src/rtsp_server.py`, `rtsp_connection.py` | the poll set, the connections, per connection its address, buffer and session | accept, read, parse, one handler per method, close, `__del__` |
| Shared session | `py_src/session.py`, `media.py` | **one** `Session`: peer and our address, ports, pid of the relay, session id | the setters with their pid test, `play` (fork, exec), `stop` (SIGINT) |
| Host addresses | `py_src/network_interfaces.py` | none | `get_hostip` |
| Socket activation | `py_src/__main__.py`, `sd_listener.py`, `sound_relay.socket`, `.service` | descriptors inherited from systemd | start on the first client, restart after a crash |
| Event loop | `c_src/event_loop.cpp` | poll list, callback list, size, changed flag | register, unregister, poll, visit |
| Sessions and mains | `c_src/session.cpp`, `*_main.cpp` | addresses, ports, three components | `capture`, `play` |
| Connections | `c_src/udp_connection.cpp`, `socket.cpp` | an IPv4 and an IPv6 socket, a receive buffer | init (bind, connect, register), send, recv (which may delete the object) |
| RTP | `c_src/rtp_client.cpp`, `rtp_server.cpp` | sequence number, time stamp | send_packet, parse_recv |
| RTCP | `c_src/rtcp_server.cpp`, `rtcp_client.cpp` | none | parse_recv (walks a compound packet and logs it) |
| Capture | `c_src/capture.cpp` | the ALSA device, encoder, one period's buffer | open, parameters, run, do_loop |
| Replay | `c_src/replay.cpp` | the ALSA device, decoder, buffer | open, parameters, run, write |
| IP addresses | `c_src/ip_address.cpp` | a value shared by reference count | parse, assign, compare |
| Sound base class | `c_src/sound.cpp`, `sound.h` | device handle, 16-bit sample rate, channels | device list, close, dumps |
| The rest | logging, `service.py`, setup scripts, `py_src/rtsp_server.cpp` (dead code) | none of the protocol | not modelled |

How the parts interact: clients send requests over TCP; the handlers of all
connections call the one `Session`; `Session.play` forks, and the child has a
copy of the server until it becomes `sound_relay`, whose command line is the
session's attributes at the fork; `Session.stop` and every close of a connection
that holds the session send SIGINT to the recorded pid. In the relay, the event
loop calls back `UdpConnection::recv` (RTCP) and `Capture::do_loop` (ALSA),
which calls `RtpClient::send_packet`; in the player it calls
`UdpConnection::recv`, which calls `Replay::write`. Relay and player meet only
through datagrams, and relays meet each other in the two ports they bind.

What is hard here:

- *One session for everybody.* A SETUP of one client lands between another
  client's SETUP and PLAY, or while its relay runs; only a pid test in three of
  the four setters keeps a stream's parameters.
- *Processes nobody waits for.* SIGINT may reach a child before its exec and be
  lost; a child that fails before exec runs the server's `__del__`; PLAY may
  overwrite the pid of a relay that still runs.
- *Exceptions as control flow.* A reset connection, a strange header, a missing
  address end the whole service, with relays running and clients in the backlog.
- *An event loop that is edited while it runs*, whose index passes one slot
  beyond the active ones.
- *ALSA underruns and overruns* between any two steps of the loop, and rates and
  periods that ALSA grants near a wish and nobody checks.
- *A stream of bytes* that TCP cuts anywhere, and a length-driven walk over what
  a peer sent.
- *A network* that loses, copies and reorders, and a receiver that ignores
  sequence numbers.

`PROJECT.json` lists each of these hazards at its line, with the properties that
would show it going wrong.

## 2. The modules

| Module | Models | Composed of |
|---|---|---|
| `RtspServer` | the server's poll loop, every handler, the session, the forked children, systemd, the clients | |
| `Connections` | activation, the listening sockets and their slots, the byte streams and `RtspConnection.read` | |
| `RequestChannel` | the abstract promise of a connection: whole requests, in order | refined by `Connections`, assumed by `RtspServer` |
| `RelayStream` | the abstract promise of the front end | refined by `RtspServer` |
| `RtspServerProofs` | inductive invariant and theorems | extends `RtspServer` |
| `RtspStreamProofs` | that the server implements `RelayStream`, and its action properties | extends `RtspServerProofs` |
| `ConnectionsProofs` | induction, facts about `FlattenSeq`, theorems, and that `Connections` implements `RequestChannel` | extends `Connections` |
| `EventLoop` | the poll loop of both programs, without its callbacks | |
| `RtcpWalk` | the walk over a compound RTCP packet | |
| `RtcpWalkProofs` | that the walk stays in step on a well-formed datagram | extends `RtcpWalk` |
| `RelayProcess` | the relay: the loop with the RTCP socket and the capture device | extends `EventLoop` and `RtcpWalk` |
| `RelayProcessProofs` | inductive invariant and theorems about the loop, the walk and their callbacks | extends `RelayProcess` and `RtcpWalkProofs` |
| `SoundSetup` | what capture and replay agree on with their devices, and a period's way through Opus | |
| `SoundSetupProofs` | inductive invariant and theorems | extends `SoundSetup` |
| `MediaPath` | capture, encoding, RTP, network, decoding, playback | |
| `MediaPathProofs` | inductive invariant and theorems | extends `MediaPath` |
| `ProcessStartup` | `Session::capture` and `Session::play` with every failure, several processes on one host | |
| `ProcessStartupProofs` | inductive invariant and theorems | extends `ProcessStartup` |
| `MC*` | instances for TLC | extend the module of their name |

Some definitions have a variant named `Definition_Change`, introduced as a
mutant: the same operator as a plausible bug would have left it. No
specification uses them. For every property there is one under which TLC
reports that property violated (`PROJECT.json`, "mutants").

### RtspServer

One step is the handling of one event of `wait_and_process`; nothing else in
that single-threaded process can run meanwhile, so handlers are atomic, but
clients, children and systemd interleave freely with them.

- `conn`, `gone`, `wire` are a client's connection from the server's side, the
  client's side, and what lies on it: a request, the last answer, an end of
  file or a reset. Each client has at most one connection and one unread
  request, which the server reads whole: that is what `Connections` shows of
  `RtspConnection.read`. `Asks[c]` are the requests that client `c` may send.
- `holds` are the connections whose `session` attribute is set, `told` the
  clients whose SETUP this service run has answered with its session id, `sess`
  the attributes of `media.tv_session` (`Unset` is Python's missing attribute
  or `None`).
- `id` is `rtp_id`, the second in which the service started (`session.py:14`).
  `Activate` takes any of `Seconds`, also the one of an earlier run: a restart
  may fall into the same second, and clocks are set back. Any client may name
  any of them, since DESCRIBE publishes the same number (`rtsp_connection.py:120`).
  So PLAY may come before any SETUP of the run. It is answered 200 and its
  child's pid recorded, as in the code, but the child misses attributes and
  unwinds; until the session is stopped, SETUP still sets what is missing, but
  gets 455 for other ports.
- `relay[p]` is the process forked with id `p`: `forked` (still Python),
  `execed` (`sound_relay` before bind), `streaming`, `dying` (SIGINT was sent to
  a relay that streams, and its ports are still taken), `dead`. `inherited` is
  the pid that its copy of the session holds, `hit` a note that SIGINT was sent.
- Handlers compute session, relays and holders after their calls and pass them
  to `Answer`, which may find that the peer reset the connection: then, as
  after every uncaught exception, `Crash` runs what `__del__` does.
- `Finish` contains `keep_alive` and the close of the connection that the loop
  performs when a handler asks for it.
- `SetupPorts` keeps the order of the three setters and what they leave behind
  when a later one refuses or raises.
- `Activate` and `ControlGroupKill` are systemd: the socket unit keeps the
  backlog while the service is down; the control group is killed before it is
  started again.

One abstraction: a pid is not used again while the service runs, which is what
the never-reaped zombies amount to.

### Connections and RequestChannel

`wire[c]` are the bytes that client `c` has written and the server has not
received; a line counts as one byte, CR and LF as one each. `Read` receives any
part of them, as TCP and `recv(512)` do, and follows `read()`: the bytes are
kept (`Keep`) until the last four are CRLFCRLF (`Complete`), and then handed to
`parse_request`, which raises at an empty line inside (`Merged`) and so ends the
service. The handler's answer may keep the connection or close it, which is all
that `Connections` knows of `RtspServer`. `unit` is what systemd hands over,
`Slots` is `__main__.main`, which puts the sockets into the two slots that
`wait_and_process` polls; without inherited sockets the server opens its own
(`StartByHand`). A backlog at an inherited socket outlives the service, one at
a socket of its own does not.

`RequestChannel` is the promise: a FIFO per client from which requests are
handled whole, and connections that may end at any time, with what was in them.
The refinement maps the bytes not yet parsed to requests not yet handled. Two
requests received together are no exception to it: the service ends, and
neither of the two is handled.

### EventLoop and RelayProcess

`slots` are `mPollFdList` and `mPollCallbackList` together, with the memory
after the last registered slot. The constructor clears neither list
(`event_loop.cpp:36`), so a slot that was never written may hold any `Garbage`:
events, and pointers to call (`Unwritten`). If the loop finds both, it calls
what is no function (`CallGarbage`), and the process is "wild": the model says
no more of it. `Register`, `Unregister`, `Poll`, `NextSlot`, the callbacks, and
`SlotDone` follow `EventLoop::main` statement by statement, with each callback
a step of its own, so that the device can change between poll and callback and
between two callbacks. `RelayProcess` supplies them: `RtcpReceives`, `RtcpWalks`
and `RtcpReturns`, `RtcpEmpty` (a datagram without data makes the connection
delete itself inside the loop), `RtcpFails` (an exception that ends the
process), `CaptureReads`, `CaptureFails` (an error that is only logged),
`CaptureOverrun`, `CaptureStarts`, and the ALSA interrupt `Tick`. The device may
be prepared and not running from the start, as a failing `snd_pcm_start` is only
logged too.

### RtcpWalk

`compound` is a datagram as its sender wrote it, fields with their sizes;
`pos`, `pktLeft`, `left`, `rc` and `n` are the variables of
`RtcpServer::parse_recv`, which knows bytes, counts and lengths only. Each of
`ReadHeader`, `ReadSource`, `ReadBlock`, `ReadChunk`, `ReadItem`, `ReadChunkEnd`
and `SkipRest` is one advance of the walk. `ReceiverReport`, `Description` and
`Other` make the datagrams of the run; `WellFormed` says of any datagram, by
where its fields begin, that RFC 3550 lets a peer send it, and the relay assumes
it of all that arrive (`DatagramsAssumption`).

### SoundSetup

`device[s]` is what the device of a side can do. `SetHwParams` takes the nearest
rate and the nearest period, `mSampleRate` what 16 bits hold of the rate
(`Narrow`), `Run` creates the codec for it or none; `CaptureLoop` turns a period
into a frame of Opus if there is one of its duration, and `ReplayWrite` a frame
into as many samples as the player's decoder makes of it. Frames are those of
libopus from 1.2 on, up to 120 ms, which is all that the player's buffer holds.
Which parameter ALSA
refuses makes no difference: the process ends.

### MediaPath

`DoLoop` is one call of `Capture::do_loop`: the read is whole, short or fails
(`ReadWhole`, `ReadShort`, `ReadFails`), the encoding fails or not, the send fails
or not. `PacketLen`, `Stamp`, `PayloadLen` and `Signed` keep the widths of the C++
integers, as parameters. A period is a number, so that it can be followed from
the buffer to the device, and the buffer and the sound of a packet are sets of
periods: after a short read the end of the buffer is still the sound of earlier
ones. `Take` is `UdpConnection::recv` with `RtpServer::parse_recv`. The ways
through `Replay::write` are `DecodeFails`; `WriteSound`, for a device that is not
in underrun, whose write is whole, short or fails; and `Restart`, after an
underrun, whose second write may be all of these too, with the device left
prepared or again in underrun. `PassOn` is what they share: the packet is done
with, whatever the device took of it, and `played` records both. `net` is a
set, out of which packets are taken in any order, more than once, or lost.

### ProcessStartup

`stage[p]` is the next call of `main`, `Session::capture` or `Session::play`.
`ParseOption` takes one option: an address is set, what is no address is skipped
(`Assigned`), a link-local address without interface throws, the options that
set a port (`y` stands for the four of them) change no address, and one that
`main` does not know ends the program with its usage. `Bindable`
is the table of families of `UdpConnection::init`, `Bind` and `Connect` are the
calls of `Socket` down to the kernel, which may refuse any of them; since no
main catches an exception, every refusal ends the process. `sock[p][port]` has
the IPv4 and the IPv6 socket of a connection apart, because `send`, `recv` and
the event loop use the first of the two that exists. `Find` is the search for
devices, which is for the log only but may throw. Wildcard addresses and
relays with different ports on one address do not occur in what the server
starts and are left out.

## 3. The runs

| Run | Question | Bounds and why they suffice |
|---|---|---|
| `shared` | do two clients on different interfaces, with equal or different RTCP ports, keep a stream's parameters, are those one client's, are SETUP's answers true, is a stream always held and ended only by who has a claim, and does the server implement `RelayStream`? | 2 clients, 2 pids, 1 session id: enough for a stranger's SETUP before, between and after fork and exec, for two PLAYs, for a PLAY before any SETUP, and for running out of pids |
| `children` | which relays can be left behind, and can SIGINT hit the recorded one unnoticed? | 3 pids: a child, the relay it inherited, and one between |
| `surface` | types, and the arguments that PLAY finds | 2 session ids, so that a run may have that of an earlier one or not; every method and every refusal, over scoped and global IPv6; 1 pid |
| `live` | is every request handled and every vanished client closed, and does the recorded relay die when its clients are gone? | 2 clients, 2 pids, SETUP and PLAY, one client never sets up; no symmetry, as it is unsound for liveness |
| `teardown` | is every announced method answered? (violated, see section 6) | 1 client |
| `relay_loop` | callbacks go to live objects, one slot each, rounds end, RTCP is read and the walk keeps in step, reported overruns are recovered from | 2 descriptors (all a relay has), 3 slots, buffer of 3 periods (as `set_hw_params` asks for); unwritten slots that are clear, have events and nothing to call, or have both; any call may fail; datagrams of two and three packets with no and several blocks, chunks and items, of every padding, and an empty one |
| `relay_stall` | does capture go on after any overrun? (violated, see section 6) | as `relay_loop`, without empty datagrams |
| `media_path` | numbering, lengths, order and repetition of what is played, and that the player recovers | 3 calls of `do_loop`, 2 faults (failed or short reads, copied packets), 1 failed or short write, sequence numbers modulo 3 and time stamps modulo 6 from every start, so that both wrap within a run |
| `process_startup` | which addresses a process takes from its options; what it has once it is in its loop; who gets the ports | 2 relays and a player for one address, and processes with repeated, unreadable, unscoped, unknown, missing and unmatched arguments, and one option that sets a port |
| `sound_setup` | does sound keep its speed, fit the player and get through at all? | every pair of 35 devices: 7 sets of rates, among them 44100, 96000 and several at once, by 5 sets of periods, from 2.5 to the 120 ms that fill the player's buffer |
| `sound_frames` | is the period one of Opus? (violated, see section 6) | one device, with periods that are powers of two |
| `connections` | are requests handled whole, once and in order, and is nobody left waiting? | a client that writes two requests, the second ahead of the answer, and one that writes one; every sequence of up to 2 inherited sockets; `recv` takes 6 bytes, so that a request can be cut at every byte |

The bounds are constants of the instances (`Clients`, `Pids`, `Seconds`, `Asks`;
`MaxHandlers`, `Garbage`, `Periods`; `MaxSends`, `MaxFaults`, `MaxErrors`, `Room`;
`Window`, `RecvMax`); only `MaxSends`, `MaxFaults` and `MaxErrors` cut behaviours
short, the others describe the environment. `RecvMax` is 6 instead of 512, against requests of 8, 5 and 5
bytes: a request may need several calls, end anywhere in one, and be received
together with the next. Where the system may really stop, deadlock is not looked for:
after the last packet (`media_path`), when the clients have left (`connections`),
when a device is of no use (`sound_setup`, `sound_frames`), and when the relay has
ended by an exception or called garbage (`relay_loop`, `relay_stall`). In the
other runs it is checked.

### What the properties say

Front end. `FrozenParameters`: no SETUP of anyone changes the ports or our
address of the recorded relay. (The peer's address is not covered: its setter
has no pid test; and the recorded pid may be that of a child that was forked before
anybody's SETUP, which has no parameters and never becomes a relay.)
`OneClientsParameters`: no session and no relay mixes what
different clients asked for, although four setters run one by one and may
refuse, or raise, in between; this one covers the peer's address, which is safe
because it is set last. `StreamHasHolder`: a recorded relay has an open connection
whose end stops it, through crashes too. `NoStrayRelay`: a running relay that is
not recorded was superseded by a second PLAY or had its SIGINT before exec; the
two ways of losing one that the code really has, and no third.
`CurrentNotInterrupted`: a child that unwinds never interrupts the recorded
relay. `PlayableWhenTold`: from the first SETUP that a service run answers with 200 to
the end of that run, every argument of the player is set, whatever the clients
do and whoever it was that told them the id; before it, PLAY may find none, see
`id` above. `StreamEndsWithClients`: once no connection holds the session, every
process that was forked for it, interrupted before or not, dies, unless it
streams and is one of the two that `NoStrayRelay` allows (`LeftBehind`).
`SetupAnswers`: 200 means that the session has what was asked for, 455 that a
pid was recorded and nothing changed. `StoppedByHolder`: a client stops the
recorded relay only if it holds the session, sets it up or names its id.
`ImplementsRelayStream` and the two other liveness properties are as in the
table.

Relay. `OneSlotEach`; `CalledWhileRegistered` (no callback after unregister: what
is called belongs to a live object, or is garbage in the slot past the last
one, if that slot was never written, against which the code has no guard);
`RoundEnds`, `RtcpHandled` and `SeenOverrunRecovers`, as long as the process has
not ended; `WalkInStep` (the walk reads a
header, a source, a block or an item only where the sender wrote one, its
unsigned counts do not pass zero, and it ends where the datagram ends).

Connections. `StreamInStep`: what is left to parse always starts where a request
starts. `ImplementsChannel`: see `RequestChannel`. `RequestsParsed`: a request
that was written is parsed or its connection ends, over whichever inherited
socket it comes.

Sound. `PlaysAtSpeed` (what is heard takes as long as what was captured, whatever
the two rates), `FitsPlayer` (no frame that a relay can send is too long for the
player's buffer), `GoodDevicesPlay` (between devices that do a rate of Opus and
ten milliseconds, sound arrives).

Media path. `InStep` (a receiver could tell a gap from either number),
`PlayerStaysOpen` (no failure of the encoder makes the relay send an empty
datagram, which would close the player's connection), `ErrorsNotPlayed` (the
five to eleven bytes that a failed encode sends are rejected, not concealed),
`PlaysWhatArrives` (what the player takes and can decode is handed to the device
once and in order of arrival, and all of it is taken, but for one packet's sound
per write that is short, or fails for another reason than an underrun or again
after the restart), `RepeatsExplained` (sound is repeated only by failed and
short reads and copied packets), `PlayerReady`.

Start. `AddressesAsGiven` (the last readable address of either option wins; the
rest is skipped in silence), `LoopConnected` (one socket per connection, bound, connected, of one
family), `PortsExclusive`, `SocketsFirst`.

### Fairness

`RtspServer`: the loop handles every descriptor poll reports before it polls
again, so the handling of a connection is weakly fair, and accepting is
strongly fair because the listening sockets come first in the poll set even
when the service crashes and is started again and again. Children run on;
systemd kills what remains and starts the service for a waiting client. Nothing
is assumed of clients, and no relay need end.

`RelayProcess`: the process runs and the device interrupts; nobody has to send
RTCP. `MediaPath`: the player's process runs and its device plays; nothing is
assumed of the sender or the network. `SoundSetup`: both processes run.
`Connections`: systemd starts the service for a client that waits, and a round of
the poll loop accepts, reads and sees the end of file of every descriptor that is
ready. A service that systemd started is not killed before it has accepted
anyone (`Killed`): one that is killed for ever serves nobody. `ProcessStartup` has
no liveness property.

## 4. The proofs

`RtspServerProofs` proves, for any sets of clients, pids, addresses, seconds, any
links and any requests (assuming only `ConstantsAssumption`: what is unset differs
from every value, and a SETUP has a port), the invariants `TypeOK`,
`FrozenParameters`, `StreamHasHolder`, `OneClientsParameters`, `NoStrayRelay`,
`CurrentNotInterrupted` and `PlayableWhenTold`.

None of them is inductive alone. `FrozenParameters` needs that the recorded
process was forked with the session's values, or blank (`Recorded`), which
survives a
SETUP because of the pid test, and survives a child that unwinds only if the
pid which the child inherited is not the recorded one (`Forked`). That, in
turn, needs that a fork takes a pid never used in this service run, so that
whatever a child inherited has been used before. `Consistent` joins these with
`NotStray`; it speaks of session and processes only, so that each of fork,
interrupt, forget and set has one lemma (`ForkConsistent`, `InterruptConsistent`,
`ForgetConsistent`, `SetConsistent`) that all the actions cite. `Held`, `Told`
and `Down` tie the session to the connections and to who was told of it: PLAY and
TEARDOWN, whoever sends them, unset no argument, so that `Told` does
not depend on ids that are new or secret; `CrashInv`, `FinishInv` and
`AnswerInv` show that however a handler ends, they hold, and the proof of each
handler is then a matter of what it passes to `Answer`.

For `OneClientsParameters` the invariant has `Unmixed`: the session has nothing
yet, or all four values of one SETUP. It survives a SETUP that stops half way,
because a setter refuses only what would change while a relay is recorded, and
then what was set before it was equal already; and because an address that
cannot be found ends the service, and the half-filled session with it.

`ProcessStartupProofs` proves, for any processes, hosts and options, `TypeOK`,
`AddressesAsGiven`, `LoopConnected`, `PortsExclusive` and `SocketsFirst`.
`ReadSoFar` extends `AddressesAsGiven` to the options read so far. The invariant
determines from a process's stage which sockets it has (`SocketsFollow`) and what it has
registered (`HandlersFollow`), and says that the family test stays true after
binding (`BindableOnce`: `connect` would otherwise create a second socket) and
that no two processes of one address are past the same binding (`OneOwner`).
`LocalStep` reduces a step of one process to what that process has afterwards.

`RtspStreamProofs` proves that `RtspServer` implements `RelayStream`
(`ImplementsRelayStream`), and the action properties `SetupAnswers` and
`StoppedByHolder`, from the invariant of `RtspServerProofs`. The abstract stream
sees the recorded relay, its parameters and its holders, and no stream where the
recorded child is a blank one; `RelayStream` allows a
stream to end only when a client stops it, by TEARDOWN or by leaving, or when
the service ends, so every crash inside a handler has to be accounted for: `CrashStream` does it once
for all handlers, and `FinishStream` and `PlainAnswerStream` do the same for the
ways in which an answer ends.

`ConnectionsProofs` proves `TypeOK`, `StreamInStep` and that `Connections`
implements `RequestChannel` (`ImplementsChannel`), for any requests, any window,
any `RecvMax` and any way in which TCP cuts the stream. It assumes
`ConnectionsAssumption`: a request has a line, no line is CR or LF, and systemd
hands over two sockets at most. `Stream` is the invariant: a client's bytes kept
and to come are its requests written and not yet parsed, flattened. The step
that matters is `RequestFound`: a buffer that ends in an empty line and has none
before is the first request, not less and not more. It rests on
`BytesShaped`: the only empty line of a request is its last. Both are
about sequences of any length and are proved by induction. The library's
induction theorems take an operator as a parameter; `NatInduct` and
`SeqInduct` speak of sets instead and follow from the well-foundedness of `<`
(`Least`). With them `UnrollExists` and `UnrollUnique` show that the recursive
function inside `FlattenSeq` exists and is one, and `FlattenAppend` and
`FlattenCons` what it computes.

`RelayProcessProofs` proves `TypeOK`, `OneSlotEach`, `CalledWhileRegistered` and
`WalkInStep` for any number of slots from one up, any garbage in both lists, any
size of the capture buffer and any well-formed datagrams. What is assumed is that the
relay registers what `Session::capture` registers (`ScriptAssumption`) and that
its peer conforms (`DatagramsAssumption`). The loop visits the
slot past the last one when the socket was unregistered inside its
callback; that nothing dead is called then is not a matter of a guard but of the order
of registration: the slot that is left over is a copy of the device's
(`Layout`), and every other one was never written (`UnusedUnwritten`). Of those
the theorem says only that they belong to nobody; that their garbage is not
called is not proved, because the code does not see to it.
`Searching` ties the count of hits to what is still pending. For the walk,
`Walking` says at each of its steps where `pos` is in the current packet
(`Within`) and that `pos`, `left` and `pktLeft` add up to the datagram
(`Accounts`); `WalkStepWalks` in `RtcpWalkProofs` shows that every read finds a
field there and that none of the unsigned differences wraps.

`MediaPathProofs` proves `TypeOK`, `InStep`, `PlayerStaysOpen`,
`PlaysWhatArrives`, `ErrorsNotPlayed` and `RepeatsExplained`, for any bounds,
any number of frames in a period and any widths of the counters, as long as the
width of sequence numbers divides that of time stamps. `MediaAssumption` has
two facts about Opus: its errors are -1 to -7, and a packet is shorter than
half of what an unsigned can count; without them the unsigned length of a failed
packet, which `Signed` turns back into a negative one, could be taken for a
valid length. `PlaysWhatArrives` is inductive as it stands: `PassOnPlays` shows
for every way through `Replay::write` that the packet in hand becomes the last
one handed over (`Handed`), and that `Lossy` grows only with `errors`. `Aligned` strengthens `InStep` to all
packets in the network and to the sender's own counters, modulo `SeqMod`, which
survives that either counter wraps. `Accounted` strengthens `RepeatsExplained`:
the packets with sound of a period on their way and the places where it was
taken are together at most one more than the faults so far, since a failed or
short read leaves old sound in the buffer and a copied packet is one fault as
well.

`SoundSetupProofs` proves `TypeOK`, `PlaysAtSpeed` and `FitsPlayer` for any two
devices. `TypeOK` says of the narrowed rate only that it has 16 bits; it need
not be the device's (96000 becomes 30464). `DevicesAssumption` says that no device has a rate from 65536 up that 16
bits would take for one of Opus. `RateKnown` says that until a codec
is created for it the program's idea of the rate may be wrong, and then it is
exact; `Measured` and `Faithful` follow a packet's duration through both rates.

Only model-checked is everything under fairness: `EveryRequestHandled`,
`EveryGoneClientClosed`, `StreamEndsWithClients`, `RoundEnds`, `RtcpHandled`,
`SeenOverrunRecovers`, `PlayerReady`, `RequestsParsed` and `GoodDevicesPlay`. The
prover cannot treat these, as it has no `ENABLED`. Every invariant, every action
property and both refinements that the runs check are also proved. The three
violated properties need no proof: TLC's counterexample is one.

## 5. Not modelled, and why

- What a request's headers say beyond what the handlers ask of them, and the
  texts of the answers.
- `set_peer_address` has no pid test: the session may name a peer that the relay
  does not send to. `FrozenParameters` and `RelayStream` leave the peer out, as
  the code treats it as free to change; `OneClientsParameters` says what holds.
- `poll` returning -1: the loop skips its search and polls again
  (`event_loop.cpp:146`), which changes nothing but the order of events.
- Devices that are suspended or unplugged: every later call on them fails, and
  is logged like the failures that are modelled.
- Malformed RTCP packets: the walk has no checks of its own, and `WalkInStep` is
  about what a conforming peer sends.
- The sharing of `IpAddress` values by reference count (`ip_address.cpp:202`,
  `:360`), wildcard addresses and the conversions from socket addresses: no
  program copies an address, they are handed around by reference.
- More than two inherited sockets end the process before it serves anyone
  (`__main__.py:9`); port numbers, also those given by options, and the choice
  between 554 and 8554.
- The player has no model of its own over `EventLoop`: it registers one
  descriptor (`SocketsFirst`), whose callback is `MediaPath`'s `Take`, and
  `RelayProcess` has the same callback, its self-deletion included, beside a
  second descriptor.
- A relay without an encoder or with two ALSA descriptors stays in its loop and
  is mute. `RunRelay` has this outcome, and no property speaks against it: the
  code has no promise that it would break.
- Periods near ten milliseconds that are no frame of Opus: `GoodDevicesPlay` is
  about devices that do ten milliseconds exactly, and `FramesAreOpusFrames`
  (section 6) shows what becomes of the others.
- ALSA's mixer, logging, packaging scripts: never called, or calls in sequence
  with no state of their own. `service.py` and the setup
  scripts disagree on a function's name, and `py_src/rtsp_server.cpp` is built
  by nothing.

## 6. Where code and documents disagree

- **TEARDOWN is not answered** (`teardown`, `TeardownAnswered`). The `Public`
  header of `rtsp_connection.py:89` announces the method, and every other path
  of the handlers sends an answer; a TEARDOWN that names the session stops the
  relay and sends nothing.
- **A relay can fall silent for good** (`relay_stall`, `CaptureGoesOn`). When
  the device overruns between `poll` and `snd_pcm_readi`, `do_loop` prepares it
  and returns (`capture.cpp:430`). Poll had not reported `POLLERR`, so no error
  callback reads once more, a prepared device reports nothing, and nothing ever
  starts it again. `SeenOverrunRecovers` shows that the overruns poll does
  report are recovered from; the player restarts in the mirror case
  (`replay.cpp:335`, `PlaysWhatArrives`).
- **A relay may encode nothing at all** (`sound_frames`, `FramesAreOpusFrames`).
  `capture.cpp:425` says that frames can only be 120, 240, 480 or 960; the code
  takes whatever period the device has near ten milliseconds, such as 512
  frames, for which Opus has no frame.

## 7. Plan

Done, in this order: the front end and its abstract promise, the event loop and
the relay, the proofs of the front end, the media path, the start of the
processes and its proofs; then relays that take their time to die of SIGINT, the
RTCP walk, the options and the device search of the start, the sound parameters,
and the connections with their own abstract promise.

Then the proofs of everything else that is not about fairness: the refinements of
`RelayStream` and `RequestChannel`, the media path, the sound parameters, the
walk and the loop of the relay.

Left: that the constructors of `RtcpWalk` (`ReceiverReport`, `Description`,
`Other`) make well-formed datagrams whatever their arguments, which is induction
over sequences as in `ConnectionsProofs`; until then TLC evaluates
`DatagramsAssumption` on the datagrams of the runs. The event loop's invariants
for any script are not to be had: `CalledWhileRegistered` depends on the order
in which the relay registers, as its mutant shows.
