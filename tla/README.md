# usbModel in TLA+

usbModel is a USB 1.1 host and a CDC device written in C++, which run as user
code on two virtual processors in an HDL simulation and drive the D+/D- pair of
a small Verilog or VHDL component. This directory holds TLA+ specifications of
the two classes, of the line they share sample by sample and packet by packet, of
the packet codec and of the descriptor search, the TLC runs that check them, and proofs of
the results that hold for every value of the constants.

`tlc -config X.cfg M` checks run X of module M, `tlapm M.tla` the proofs of M.
PROJECT.json lists the runs, the lines of code behind each definition, the
places where the code is hard to test, and one mutant of the model for each
property, which the property catches.

## The system

| Part | Code | State | Operations |
|---|---|---|---|
| Device model | `usbDevice.cpp`, `usbDevice.h` | address, configured, halted endpoints, data toggles, frame number, suspended, receive buffer `rxdata`, line buffer `nrzi` | `usbDeviceRun` (never returns unless an error ends it), `usbDeviceDisconnect`, `usbDeviceReconnect`, the data callback |
| Host model | `usbHost.cpp`, `usbHost.h` | data toggles, connected, keepalive, frame number, `rxdata`, `nrzi` | the 22 transfer methods, wait for connection, sleep, suspend, reset |
| Line access | `usbPliApi.h` | suspended; the counters of one `apiWaitForPkt` call | send packet, send idle, send reset, wait for packet, pull-up |
| Packets | `usbPkt.cpp`, `usbPkt.h` | a scratch buffer | generate (token, SOF, data, handshake), decode, NRZI, CRC5, CRC16 |
| Constants | `usbCommon.h` | none | |
| Descriptor search | `usbHost.cpp:1815` | none | `usbHostFindDescriptor` |
| Formatting | `usbFormat.cpp`, `usbFormat.h` | none | text output |
| HDL driver | `usbModel.v`, `usbModel.vhd` | output enable, line levels, pull-up, tick count | register access |

Host and device are two sequential threads. They share only the wire pair: one
side sends while the other blocks in `apiWaitForPkt`, and what is sent while
nobody listens is lost. Everything hard about the program comes from that: each
side's idea of where the transfer stands (program counter, byte count, toggle)
must stay in step with the other's although packets may be damaged, answers may
be NAK or STALL, a reset or SOF may come in between, and neither side has a
timeout. What makes each part correct:

* device: whatever comes, its state stays well-formed, a halted endpoint passes
  no data, and the control endpoint is back at DATA0 when a transfer ends;
* host: a call that reports success moved every byte once and in order; every
  call returns;
* both: the same toggles, one sender at a time, a request acted on at most once
  and only for the call in progress;
* line access: a reset is reported exactly for an SE0 of the reset time, a lost
  device is noticed;
* packets: what is encoded decodes to itself whatever came before it, damage to
  data is refused, and the decoder stays within what was collected;
* descriptor search: the first descriptor of the kind wanted, and no piece of another.

## Modules

| Module | What it is |
|---|---|
| `UsbCrc` | `usbcrc5` and `usbcrc16` |
| `UsbNrzi` | `nrziEnc` and `nrziDec`, one operator per bit and per sample |
| `UsbPktCodec` | `usbPktGen` and `usbPktDecode` on bits, with the buffer that keeps old ones |
| `UsbLine` | `apiWaitForPkt`, one step per sample |
| `UsbPhy` | one direction of the line: `apiSendPacket` and `apiSendReset`, noise, `UsbLine` and the decoder |
| `UsbPacket` | packets as host and device see them, requests, the token generator with its CRC5, toggle and flag helpers |
| `UsbBus` | variables and constants both sides share: `toDev`, `toHost`, `pullup` |
| `UsbDevice` | class `usbDevice` |
| `UsbHost` | class `usbHost` |
| `UsbSystem` | the two composed, with line noise and user code; the system's properties |
| `UsbLockstep` | host and device on a quiet line: the places of the two that fit each other, with packet, counts and toggles |
| `UsbService` | abstract: what a control transfer promises its caller |
| `UsbAnyHost` | the device against a host that sends anything |
| `UsbFindDescriptor` | `usbHostFindDescriptor`, one step per pass of its loop |
| `MCUsbSystem`, `MCUsbAnyHost`, `MCUsbLine`, `MCUsbPhy`, `MCUsbFindDescriptor` | instances for TLC: calls, packets, sizes |
| `UsbDevice_proofs` | lemmas about the device that the next two share |
| `UsbAnyHost_proofs`, `UsbSystem_proofs` | theorems about the device against any host, and about host and device on any line |
| `UsbLockstep_proofs` | theorems about host and device on a quiet line, with the refinement of `UsbService` |
| `UsbPktCodec_proofs` | theorems about the codec as a function: line code, fields, what arrives of a packet |
| `UsbLine_proofs`, `UsbPhy_proofs`, `UsbFindDescriptor_proofs` | theorems about the modules they are named after |

### How the device corresponds to the code

The device thread blocks only in `waitForExpectedPacket`. A step of `UsbDevice`
is what it does from the return of one such wait to the start of the next, and
`dPc` names the wait:

| `dPc` | Wait |
|---|---|
| `Run` | the loop of `usbDeviceRun` |
| `SetupData` | `processControl` |
| `InToken`, `InHshk` | `sendInData` |
| `OutData` | `processOut` |
| `StatusIn`, `StatusAck`, `StatusOut`, `StatusData` | `controlStatusStage` |
| `Stopped` | `usbDeviceRun` has returned an error |

From `Stopped` the device's program may call `usbDeviceDisconnect`, `usbDeviceReconnect`
or `usbDeviceRun` again: the object keeps its address, halts and toggles.

Two details of `waitForExpectedPacket` shape the whole module. The check of the
received PID never runs (`status` is a bit count and is compared with
`USBOK` = 0), so every wait accepts every packet. And after a `USBERROR` from the
line the old contents of `nrzi` are decoded again: `dNrzi` remembers the last
packet sent or received, and `Received` is what the decoder is given. In the
same way `dRx` remembers which request, if any, the receive buffer holds, since
the code reads a setup request from it whatever came. A direction that is never
assigned (`instatus` after an unknown request) is a choice of either.

### How the host corresponds to the code

A public method is described by its `Call`: a kind that says which stages its
body has, the address and endpoint, the request, the byte count. The twenty-two methods
are operators with the names of the code that build such a record. `hPc` names
what the call in progress does next; a step sends one packet or takes one
answer. The status that the body returns, dropped errors and overwritten ones
included, is `hRet`. The loop of `usbHostGetStrDescriptor`, which an error does
not end, is kept as it is; the length it reads from the buffer after an error is any.

The length of the packets of an OUT call is an argument of it (`maxpkt`), which user code may
choose other than the device's. `usbPktGen` refuses an address above 127, an endpoint above 15
and more than 64 bytes; its error is passed on as a bit count, so that nothing is sent and the
host goes on as if it had been: `Token` and `OutPacket` are then `NoPkt`. The time that
`usbHostWaitForConnection` waits may be out at any poll; user code may then call it again.

### How the codec and the line correspond

`nrziEnc` and `nrziDec` are single passes, so each is a fold of the step it makes for
one bit or one sample (`EncodeBit`, `DecodeSample`). `nrziDec` has no length: it goes
through the buffer until it has seen an end of packet or an error. `UsbPhy` therefore
makes its steps over the samples as `apiWaitForPkt` collects them (`dec`), and
`NeverReadsAhead` says that it has returned when the last has come. `rawbuf` keeps the
bits of earlier packets behind those of the one being decoded, as the member of
`usbPkt` does; `Stored` says which of them a packet overwrites, and `BitCount` is what
the decoder is told, residue counted twice. A sample is struck by replacing it with any
other level. One struck sample may turn a token or handshake into another one that is
intact, since a flipped level changes two bits and neither their length nor that of the
CRC5 protects them; data are protected by the CRC16 (`DataGenuine`).

### How the search corresponds

A buffer is its bytes and, beside them, the descriptors a device packed into it, so that
the properties can speak of descriptors while the actions look at bytes only. A step is
a pass of the loop. Behind the data lie three bytes of any value, which the loop reads when it
has passed the last descriptor. A 0 and the wanted type among them are a match of no bytes:
`FindsFirst` says that success means the first descriptor or, with none there, such an
`EmptyMatch`, which the code reports as a success (one of the buffers of the run leads there).

### How the two sides fit together

`UsbLockstep` adds no state and no step to `UsbSystem`. It says, for every place of the
host's call, at which wait the device is then, which packet is on its way between them, and
how byte counts, toggles and addresses are related: a toggle, for instance, is the same on
both sides except from the host's ACK until the device hears it. `Lockstep` is the
conjunction, an inductive invariant. It begins with `Quiet`, the use of the program it is
about; `Quiet` speaks of constants only.

### What is abstracted

In the packet-level modules a payload is named by its place in the stream it was taken
from (offset and length): properties about order, loss and repetition need no more. NRZI,
bit stuffing and CRC16 are there the single fact that a packet decodes or does not: noise
makes a packet one that does not decode, which `UsbPhy` shows to be what a strike does
to data. The CRC5 of a token is computed, because the generator damages it for some
arguments; `UsbPktCodec_proofs` shows that tokens, frame numbers and payloads come out of
the codec as `UsbPacket` says, and TLC evaluates it for some of them as assumptions of
`MCUsbPhy`. A millisecond frame is a step that
may happen wherever the code looks at the clock.

`UsbLine` and the packet-level modules meet at the results of `apiWaitForPkt`:
`ResetSeenAs` says what a device may report of the SE0 of a reset, and
`UsbLine` shows which of these a build can give.

## Runs

| Run | Shows |
|---|---|
| `UsbSystem_quiet` | `Lockstep`, `ToggleSync`, `HalfDuplex`, `DeviceRuns`, `ReadWhole`, `ReadFits`, `CallsReturn`, `TypeOK`: any three of all control calls and bulk transfers of three packets, with SOFs in between |
| `UsbSystem_noise` | `OutExactlyOnce`, `OutInOrder`, `OutWithinOnePacket`, `InInOrder`, `InAgrees`, `AddressSet`: two damaged packets anywhere, a callback that may answer NAK or STALL at any time, calls to an address nobody has, short resets, disconnection, reconnection and a second run of the device |
| `UsbSystem_reset` | `Lockstep`, `ServiceSpec` (refinement of `UsbService`), `DeviceAtRest`, `CallsReturn`: resets and suspensions between calls |
| `UsbAnyHost` | `DeviceTypeOK`, `ControlAtData0`, `HaltedIsSilent`, `CallbackDataIntact`: arbitrary packets and line conditions, with enough of them to address the device, halt and release an endpoint and use it |
| `UsbLine` | `Inv`, `ResetIsLong`, `UncutResetReported`, `LossNoticed`: an arbitrary line, read by a device and by a host |
| `UsbPhy` | `NeverReadsAhead`, `Delivered`, `DataGenuine`, `CorruptEopRefused`, `WithinBuffers`: three packets, any one sample of which is struck |
| `UsbFindDescriptor` | `FindsFirst`, `FoundIfThere`: two configurations cut off at any length, all kinds of descriptors |

Bounds. `MaxCalls` is 3 to 5 calls and resets: after one call each side's state
is that of its toggles, address and flags, and pairs of calls reach every
combination the calls of the run can make; one more shows that nothing is left
over. Sizes are the code's: packets of 32 bytes, descriptors of 18, 67, 6, 44
and 18 bytes, so that one, two and three packets, with and without a remainder,
occur; bulk transfers are of 40, 56 and 64 bytes (two packets) and of 72 and 96 (three,
an odd number, which leaves the toggle flipped), and one of 136 goes out in three packets of
at most 64 bytes, the most that are generated. `UsbSystem_noise` has two calls more, one with packets of
65 bytes and one to endpoint 17, neither of which is ever sent. `MAXNAKS` is the code's 3, except
in `UsbAnyHost`, where 1 lets the limit be passed in few packets. `MaxFrame` is the
number of frames that begin; the frame number itself only travels. `MaxRestarts` of 1
lets the device end its loop, be run again and end it again.

`MaxSent` of 10 bounds the packets in `UsbAnyHost` by weight: the packets that
address a device, halt endpoint 1 and use it count once, all others twice. So ten
packets go through halting and using an endpoint, and five of any kind are a SETUP
stage and a transfer cut anywhere, or two SETUP stages. `MaxOut` ends the device's
acceptance of data; 20 is never reached in the runs that depend on what was accepted.

In `UsbLine` and `UsbPhy` the counts (300 and 1200 samples in USBTESTMODE, 120000 and
36000 without) are scaled down with their order kept, and `MaxRun` is longer than both;
`MaxBits` in `UsbPhy` is longer than any packet. A packet of `UsbPhy` is struck at most
once, at any of its samples and with any level, between two that are not; the packets
have and have not stuffed bits, in PID, address, payload and CRC, and one of them holds
a shorter data packet. `RAWBITS` is more than the longest of them needs. The buffers of
`UsbFindDescriptor` are the 67 bytes of the device model and a configuration that names
an interface twice; every `len` from 0 to the whole is tried, with four kinds of bytes behind
the data: zeros, another descriptor, bytes of a transfer, and a 0 with a wanted type behind it.

Fairness is used in `UsbSystem_quiet`, `UsbSystem_reset` and `UsbSystem_iso`: weak
fairness of the steps of each thread. The simulator resumes a virtual processor whenever
the register access it waits for is done, so a thread is never held back from a step it
can take. Nothing is assumed of user code or of noise. `UsbFindDescriptor` assumes that
the loop goes on, which runs in its caller's thread and waits for nothing.

Deadlock is checked except where the system really stops: with noise, because neither
side has a timeout; in `UsbAnyHost`, when the host has sent its last packet; in
`UsbFindDescriptor`, when the search has returned.

`Lockstep` is checked in both kinds of use that `Quiet` allows: without resets and with
reads of an odd number of packets (`UsbSystem_quiet`), and with resets between reads of an
even number (`UsbSystem_reset`). As `Quiet` is a conjunct, both runs also show that its
conditions are met.

`ToggleSync` is checked without NAKs, noise and resets, because in the code it does
not hold with them: the host flips its toggle for OUT data as it sends, NAK or
not, and `usbHostResetDevice` leaves the host's toggles where they are. The device
never looks at the toggle of OUT data, so the order of bytes survives (`UsbSystem_noise`);
IN data after a reset survive only if the packets before it were even in number, as
those of the tests and of `UsbSystem_reset` are. `ControlAtData0` is about the
device alone and has two exceptions, recorded in `skew` until a control transfer or a
reset undoes them: a run after an error, and OUT data on endpoint 0, which the device's
table of endpoints lets through.

### Disagreements found

Each is a run that TLC finds violated; PROJECT.json quotes the comment concerned.

| Run | The code |
|---|---|
| `UsbLine_lostreset` | in the default build the suspension count cuts a reset, which is never flagged |
| `UsbAnyHost_pid` | the expected PID is never checked |
| `UsbSystem_address2` | the direction bit of the endpoint is ORed into the CRC5 of the token |
| `UsbSystem_iso` | an isochronous OUT call never advances and never returns |
| `UsbFindDescriptor_absent` | a search for a descriptor that is not there never returns |

Others met while modelling, which the model shows but no run is spent on: one damaged
packet blocks the host for ever, since no wait of it has a timeout although its methods
speak of USBNORESPONSE; so does a packet that cannot be generated; the two endpoint feature methods always name endpoint 0 and
return USBOK when the request failed; a STALL for an IN or OUT token, or a SETUP for
another address, ends `usbDeviceRun`; a reset between an OUT token and its data lets
the transfer go on at a device without an address; a data packet cut short by an SE0
gives the decoder a negative length; a device that damaged packets have left in a control
read answers OUT data with data, which the host decodes into the buffer it is sending from; a data
packet of more than MAXPKT bytes, taken by the device for an IN token, overwrites data of the
callback that are still to be sent; a search for a descriptor that is not there reports success,
with nothing copied, where the bytes behind the data are a 0 and its type.

## Theorems

`UsbLine_proofs` holds for all counts and timeouts, for a device and for a host,
with the assumption that a reset takes more than two samples (an end of packet has two).
The inductive invariant `Inv` relates the counters to the line: while the call
looks for a reset, `rstcount` is the number of SE0 samples in a row plus one unless
a return has cut the row; otherwise a row of SE0 is the end of a packet and is
counted by `eop_count`. The other properties speak of `ret` and the length of the row and are not
inductive without it.

| Theorem | Statement |
|---|---|
| `Invariance` | `Spec => []Inv` |
| `ResetNeedsSe0` | a reset is reported only after SE0 for the reset time less one sample |
| `UncutReset` | an SE0 of the reset time that no status has cut is reported as a reset |
| `NoResetBehindSuspend` | if the suspension time is the shorter one, as in the default build, no reset is ever reported |
| `HostNoticesLoss` | a host is told of a lost device from the fourth SE0 sample on |

`UsbAnyHost_proofs` is about the device against any host, for every packet size of the
device from 1 to 64 bytes (`MaxData`: a generator makes no longer one at full speed), set of endpoints, descriptor sizes, NAK limit and callback behaviour that the named
assumptions of the modules allow. `UsbDevice_proofs` holds what concerns the device alone:
each of its actions keeps `DeviceTypeOK`, whoever sends the packets.

| Theorem | Statement |
|---|---|
| `TypeCorrect` | `Spec => []DeviceTypeOK`, which includes that a transfer never sends more than it has and never passes the NAK limit |
| `HaltHolds` | no data pass through a halted endpoint |

`DeviceTypeOK` is inductive; its proof has a lemma per action and one per helper that
the actions share (in `UsbDevice_proofs`). `HaltHolds` needs one fact more, `OutOpen`: while the device waits
for the data of an OUT transfer, the endpoint's halt flag is clear. It is inductive because
a flag is set only by steps that leave that wait, and a reset clears flags.

Two theorems about the callback's data and the toggles go on from `TypeCorrect`.

| Theorem | Statement |
|---|---|
| `CallbackDataSafe` | `Spec => CallbackDataIntact`: a packet taken for an IN token, of whatever size, overwrites callback data still to be sent at most behind the first MAXPKT bytes |
| `ControlToggle` | `Spec => []ControlAtData0` |

The first rests on `FullPacketGone`: when a bulk transfer waits for another IN token, a
whole packet has been sent. It is inductive because only an ACK leads to that wait; a NAK
repeats the chunk without one. The second rests on `Toggled`, which
follows the toggle of endpoint 0 through the stages of a control transfer and through
what may break in.

`UsbSystem_proofs` is about host and device on one line, with any number of damaged
packets, resets, restarts of the device, any callback answers and calls to any address.
Beside the assumptions above it uses `CallsAssumption`: calls have the types of the
methods' arguments, and a descriptor call names a descriptor the device has.

| Theorem | Statement |
|---|---|
| `SystemTyped` | `Spec => []TypeOK`: only packets that a generator makes are on the line, an OUT call never counts more bytes than it has, the NAK limit is kept, and no call is in a stage that its kind does not have |
| `OutOrdered` | `Acknowledged => (Spec => []OutInOrder)`: the callback is never given OUT bytes again or out of order |

`Acknowledged` leaves out what makes the second one false in the code: an isochronous OUT call
sends its first bytes for ever (`UsbSystem_iso`), and a line that reports `USBERROR`
instead of a reset makes the device decode the packet it already has once more. Its
invariant `OutInv` follows an OUT packet from the host to the callback: the device decodes
what has come (`Heard`); a token or data packet on the line is the host's last step
(`TokenFresh`, `PayloadFresh`); data for the callback are awaited only behind the token that
announced them (`DataAwaited`); whatever the callback took ends where the packet in progress
does at the latest (`WithinReach`). `OutInOrder` alone is not inductive: it says nothing of
a packet still on the line, which could be an old one.

`UsbLockstep_proofs` is about the same system when the line is quiet and the program is used
as the test programs use it, for any number of calls, all sizes of packets that are generated and of descriptors, and
frames beginning anywhere. `Quiet` says what that means: no damaged packets; control
calls and bulk transfers with the arguments that `Usual` lists, to the address the device
has; a callback that answers ACK or NAK (never STALL) and offers data of one size; reads of a multiple of that size; and either no
resets, or resets reported as such with reads of two packets each. Each of these
is there because the code needs it: a damaged packet, or a call to nobody, leaves one side
waiting for an answer that never comes, and what user code then sends meets a device in the
middle of an old transfer, which checks no PID and takes it for what it waits for; a STALL
ends `usbDeviceRun`; answers that do not divide the read leave the host with
more bytes than it asked for; a reset clears the toggles of the device only. The
runs check the same properties with one or two such events (`UsbSystem_noise`) as far as
they hold there.

| Theorem | Statement under `Quiet` |
|---|---|
| `InLockstep` | `Spec => []Lockstep` |
| `BackToRest` | `Spec => []DeviceAtRest` |
| `RunsOn` | `Spec => []DeviceRuns` |
| `CountsAgree` | `Spec => []InAgrees` |
| `LineShared` | `Spec => HalfDuplex` |
| `ReadsWhole` | `Spec => ReadWhole` |
| `WithinRequest` | `Spec => ReadFits`: nothing is written beyond the bytes a read asked for |
| `AddressTaken` | `Spec => AddressSet` |
| `InOrder` | `Spec => InInOrder` |
| `ServesCalls` | `Spec => ServiceSpec`: the refinement of `UsbService` |
| `OutLag` | `Spec => []OutWithinOnePacket` |
| `OutOnce` | `Spec => OutExactlyOnce` |
| `TogglesAgree` | `Spec => []ToggleSync`, if the callback answers only ACK and there are no resets (`NothingLost`) |

`Lockstep` is `Quiet` and four parts that need each other. `Places` pairs `hPc`, `dPc` and the
packet; that the device answers a packet as the host expects needs `Bytes`, since the
last packet of a transfer leads elsewhere than the others; that the host accepts data needs
`Toggles`, since it drops what has the wrong one; and `Serving` ties the request served to the call
in progress. The proof takes the steps of device, host and user code one at a time, for each the
places at which it is enabled, and under these the four parts. On top of it, `OutTaken` says
that the callback has taken just the bytes acknowledged or about to be, and
`OutToggles` follows the toggle of an OUT endpoint, which the host flips as it sends and the
device as it accepts. Each is inductive together with `Lockstep`. The refinement maps the
device's answer to a setup packet to the service of the request and the return of a call to its end;
all other steps leave the abstract variables alone.

`UsbPktCodec_proofs` is about the codec as a function, for packets of every length:

| Theorem | Statement |
|---|---|
| `LineCodeLossless` | `nrziDec(nrziEnc(bits))` yields `bits` and an intact end of packet, whatever the bits |
| `TokenArrives` | for any address byte and endpoint byte `UsbPacket` says what becomes of a token: it is not generated when one is out of range; else it comes out of generator, line code and decoder as it was sent, or is refused where the direction bit has spoilt the CRC5 |
| `FrameArrives` | a frame number of up to 4095 arrives modulo 2048 |
| `PayloadArrives` | a payload of any bytes, up to 64 of them, arrives as it was sent |

The last three hold whatever `rawbuf` has kept of earlier packets. `LineCodeLossless` is an
induction over the bits: encoder and decoder agree on level and count of ones (`Agree`),
and the count stays below six, so that a bit is stuffed before the decoder would drop one
that is not. The provers cannot instantiate the induction theorems of the library, which
take an operator; `WellFoundedInduction` has the least-number principle for sets instead,
and a claim about all numbers is proved by looking at the least one for which it fails.
The same principle shows that the recursive functions within the definitions exist and
what their values are (`usbcrc5`, `usbcrc16`, `Num`, `nrziEnc`, `nrziDec`).

`UsbPhy_proofs` is about the line from sample to sample, for any counts, timeouts, buffer
sizes and idle times. `FaithfulTraffic` says that what is sent is a reset or a packet that
is to arrive as it was sent; TLC evaluates it as an assumption of `MCUsbPhy`.

| Theorem | Statement |
|---|---|
| `DecoderStaysInPacket` | `Spec => []NeverReadsAhead`, for any traffic and any number of strikes |
| `PacketsDelivered` | `Spec => []Delivered` under `FaithfulTraffic`, for one strike without resets, or resets without a strike |
| `CorruptEopIsRefused` | `Spec => []CorruptEopRefused` under `FaithfulTraffic`, for at most one strike, resets included |

`DecoderStaysInPacket` has the invariant `EopInStep`: as long as the decoder has found
no error, it has seen as many samples of an end of packet as `apiWaitForPkt` has counted.
The other two have `PhyInv`, which says after each sample where receiver and decoder are in
what has been sent. `Following`: they have collected just the samples of this packet, and
the decoder is `nrziDec` of them, so that the last one yields `nrziDec(Wire(p))`, which the
codec's theorems know. `Recovering`: a struck packet or idle period has left the receiver
anywhere, but the end of packet that is still to come brings it back to idle. `Spoilt`: the end
of packet has been struck, and the receiver is at one of the few places this leads to, in most
with an error the decoder keeps, so that whatever is collected next is refused. `Ready`: between
packets it waits for a level other than idle, or for the one J that ends what it has
collected. Neither property is inductive
alone: it speaks of the moment of the report, and everything that leads to it comes before.

The bounds on strikes are needed. With two, one can damage the end of a packet and the
other complete it again, which is why `CorruptEopRefused` speaks of one. A K in the
last sample of a reset, just after the receiver has returned for a suspension, leaves
it in the middle of a packet that the next one goes on with: `PacketsDelivered` therefore
has strikes or resets, not both, while the run, in whose instance that return
does not fall there, has both.

`UsbFindDescriptor_proofs`:

| Theorem | Statement |
|---|---|
| `SearchSound` | `Spec => []FindsFirst`, for every set of packed buffers, any bytes behind them and every search |

Its invariant is `AtDescriptor`: the search stands at a descriptor and has left none that is
wanted behind it, or stands behind the last one. `Packed` says what the bytes of the
descriptors are and nothing of those behind them; a match there ends within `len` only if its
length is 0.

Only model-checked:

* `DataGenuine` and `WithinBuffers`: what the PID's complement and the CRC16 find in a packet
  that noise has struck. A flipped level changes two bits and, by way of stuffing, the length; what
  the CRC16 then makes of it is a matter of each payload, and for payloads beyond those of
  the run is not claimed;
* all liveness (`CallsReturn`, `FoundIfThere`): fairness and ENABLED are beyond the prover;
* host and device with noise, restarts and calls to nobody, except for `TypeOK` and
  `OutInOrder`: the other properties of `UsbSystem_noise` hold there for the few
  faults of the run, and are proved only for the quiet line.

## Not modelled

* `usbFormat` and all printed output: nothing reads it.
* The contents of the host's buffers, and what a read or write beyond a buffer does:
  `strdesc[descidx]`, the `nrzi` buffer of a line that never ends its packet, the user's
  buffers, `numbytes` without a callback.
* The clock arithmetic of `checkSof` and `usbHostSleepUs` (float milliseconds, 32-bit
  tick count): rounding of floats is outside TLC's integers, and only the order of the
  frames matters to the packets.
* Both directions of the line at once at the level of samples: a receiver that sends
  leaves its own packet in `rawbuf`, of which `UsbPhy` knows only what was received.
* The high-speed packet identifiers, which no method sends. The decoder refuses all of them but
  NYET, which is a handshake here: both sides treat it as one they do not expect.
* The simulator's glue (VProc, `veriuser.cpp`) and build files; the test programs, whose
  calls and arguments are those of the runs.

## What could follow

* `OutExactlyOnce` and `AddressSet` proved for one damaged packet and properly used calls,
  with the places that host and device reach behind it.
* Data on the line from sample to sample in both directions, with the receiver's own packets in
  `rawbuf`.
* The frame clock with a wrapping tick count in fixed-point arithmetic.
