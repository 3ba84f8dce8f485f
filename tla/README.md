# Verification of the STM32F107 FPGA flash programmer

The firmware under `src/Project` turns an STM32F107 board into a network
programmer: a host connects over TCP, has one of up to three SPI flash chips
behind an FPGA erased, written and read back, and sets the board's network
parameters.  This directory holds TLA+ models of that firmware, the TLC
instances that check them and TLAPS proofs about them.

## 1. The system

| component | source | state it keeps | operations | model |
|---|---|---|---|---|
| command interpreter | `tcpserver.c` 340-502 | `setAddrFlag`, `flashWriteAddr`, `flashReadAddr`, `readTotal`, `ackCnt`, `sendbuf`, `commonRsp`, `earsePcb` | EARSE, WRITE, READ, PARA_GET, PARA_SET, STATE_GET | `XvcServer`, `XvcSession`, `NetParams` (PARA_SET) |
| erase completion | `main.c` 99-117 | `earseFlag` | poll, check, answer | `XvcServer` |
| SPI flash driver | `drvflash.c` | the chips, the bus | write enable, status, read, page program, chip erase | `SpiFlash`, `FlashPages` |
| parameter and length store | `flash.c` 21-246 | two pages of internal flash, `ipInfoFlash` | erase, program, write, read | `NetParams` |
| boot configuration | `stm32f107.c` 510-551, `netconf.c` 65-80 | `netCfgInfo` | `syncIpInfo`, `setDefaultIpInfo` | `NetParams` |
| connection handling | `tcpserver.c` 47-337 | `tcp_server_struct`, pbuf chains | accept, receive, sent, error, poll, close, deal | `TcpConn` |
| Ethernet rings | `ethernetif.c`, `stm32f10x_it.c` 147-158 | Rx and Tx descriptors | receive, send | `EthRx`, `EthTx`, `FrameFifo` |
| time base | `main.c` 125-155, `netconf.c` 167-199 | `LocalTime`, timers | tick, delay, periodic tasks | `SysTime` |
| link monitor | `netconf.c` 202-226 | `EthInitStatus`, the netif's link flag | poll the PHY, initialise again | `LinkMonitor` |
| bit-banged SPI, FPGA routing | `stm32f107.c` 320-400, `drvflash.c`, `tcpserver.c` 647-719 | the pins, the routing register, the chips' shift registers | write and read a byte; select, route | `SpiBus`, `FlashAccess` |
| lwIP's TCP | `tcp.c`, `tcp_in.c`, `tcp_out.c` of lwIP 1.3.1 | a pcb: sequence numbers, windows, `unsent`, `unacked`, timers | input, output, write, close, retransmit, probe, give up | `LwipTcp`, `ByteStream` |
| FPGA state, serial buffer, parsers, board set-up, the rest of lwIP | `tcpserver.c` 503-551; `stm32f107.c`; `flash.c` 257-435 | registers, buffers | | see section 8 |

**How they interact.**  The Ethernet interrupt (`stm32f10x_it.c` 147-158) takes
frames from the DMA ring and runs lwIP on them; lwIP calls the connection
handlers, and `tcp_server_deal` calls `XVC_Interface`, all inside the interrupt.
A command is thus executed from start to end before the main loop goes on.  The
main loop runs the timers of lwIP and completes erases.  The two share
`earseFlag`, `earsePcb`, `commonRsp`, the SPI bus and the FPGA's routing
register without a lock.  All clients, and both directions of transfer, share
one set of transfer globals.

**What is hard.**  An interrupt between any two accesses of the main loop; a
command that cuts into a bus transaction of the main loop; globals that outlive
the flow or the connection they belong to; a pcb slot that lwIP gives to the next
connection; a chip that ignores commands while it is busy; arithmetic at the packet and page
boundary; bits of two transactions on one bus; segments that are lost, doubled, late or cut anew,
and windows that close; power cuts and time-outs while a record is written; segments cut
anywhere and chained until there is room for answers; descriptors that the DMA
fills and sends while the code handles them; a status bit that is cleared by
reading; a clock that wraps.  `PROJECT.json`
lists each hazard at its line with the properties that watch it.

**What makes each part correct.**  lwIP: two byte streams that arrive, windows that are kept,
an end for every connection.  The bus: the chips do what the driver's functions say,
whatever the pins of two contexts make of each other's bytes.  The interpreter: an erase answer per
EARSE, to a pcb, after the erase; data at consecutive addresses of the chip the flow
named; packets that fit, an empty one at the end and only there.  The driver: page programs
inside a page, all data written, the loop ends.  The store: nothing but a whole
record is ever accepted; success means stored.  Connections: bytes are handed on in order and once,
every pbuf is freed, every connection that is closed by its peer ends.  The
rings: a queue each; a buffer belongs to one side at a time.  Time: intervals
hold across the wrap.  The monitor: the link's state is noticed in the end.

## 2. The modules

**`SpiFlash`** -- the chips and the driver's functions as operators from a chip
to a chip.  A chip has its cells and the busy bit of a chip erase.  Programming
clears bits: on a cell already written with something else it leaves `Junk`.
Every driver function is there with its order of steps: `Flash_EraseChip` sends the write enable
*before* it waits, so on a busy chip it erases nothing; the first page of a
write to a busy chip is ignored, and its wait leaves the chip idle for the
others.  `lost` says that the first transaction was swallowed by one of the
main loop (below).

**`XvcServer`** -- the interpreter and the main loop.  An action for each
command: `EarseCmd`, `WriteDataCmd`, `WriteEndCmd`, `ReadCmd`, atomic because
the interrupt is.  The main loop's completion is cut at every access to a global
or to the bus: `MainPoll`, `MainReadSR`, `MainClaim`, `MainOpen0`, `MainRead0`,
`MainOpen1`, `MainRead1`, `MainSend`.  `nss` is `"low"` while the main loop holds a
transaction open that a chip answers, and `"unheard"` when nobody will: a busy
chip hears only the read of its status register, and a chip that was routed to in
the middle of a transaction makes nothing of the rest.  A command that uses the bus
meanwhile ends with `nss` high: the main loop then reads anything, and the command's own
first transaction may be swallowed (`Lost`; a choice, since it
depends on how many bits were out).  `SpiBus` is where this comes from.
`mux` is the FPGA's routing.  `owner` and `inbox` are connections, reduced to what the
globals can see of them: a slot that is owned, freed and owned again, and a
send queue that may be full.  `eraseDue` is a history variable.  Around the program: chips that finish,
clients that connect, vanish and take answers, any command at any time.

**`XvcSession`** -- `XvcServer` with the host it was written for: one connection
at a time, one command outstanding, flows finished before the next, READs
numbered.  The host is not in the repository; its discipline is what the
protocol of `tcpserver.h` (`ackCnt`, the empty packet, the WRITE without data)
asks of it.

**`FlashStore`** -- the abstract specification: chips that are erased, written
piece by piece and read back packet by packet.  It has no flags, buffers, polling
or bus.

**`SpiBus`** -- the soft SPI of `stm32f107.c` pin by pin (`NssLow`, `SckLow`,
`SckHigh`, `NssHigh`) under the main loop's three transactions, and a chip with its shift
register, write-enable latch and opcodes.  The commands of the interrupt run a
driver function to its end between any two pins: `EarseCmd`, `WriteDataCmd`,
`ReadCmd`, and `RouteCmd` for a command that only moves the routing.  Nothing bounds how often they do; `astray`
is a history variable that says that the routing has moved twice within one transaction of the main loop.

**`FlashAccess`** -- the abstract specification of the bus, in the words of `XvcServer`: whole driver
functions of `SpiFlash`, `nss` and `Lost`.  `SpiBus` implements it (checked, and proved for any
sizes), which justifies how `XvcServer` treats the bus.

**`FlashPages`** -- `Flash_WriteNoCheck` with one action per turn of its loop, on
a chip that programs within one page and wraps there.  It shows that
the one-step operator of `SpiFlash`, which `XvcServer` uses, is what the
loop does.

**`NetParams`** -- the microcontroller's own flash: the record of network
parameters and the length of the image.  `ParaSet` starts three writes
(ip, mac, port), each an `Erase` and six `ProgramWord`s; `TimeOut` and
`PowerLoss` may come at each, and a word that timed out may have been programmed or not: a PARA_SET
that failed at its last word may be stored.  `Boot` reads the record back.  A word is the sum of its bytes:
the checksum sees no more.

**`TcpConn`** -- the callbacks of `tcpserver.c`, one action each, on pcbs, pbuf chains with
reference counts, receive windows and send buffers.  A peer's stream is a row of half
commands cut into segments and pbufs in every way; `Deal` is
`tcp_server_deal` with its loop as one step, since it runs in the interrupt or
undisturbed.  A pbuf that nobody points to any more is counted in `lost`.  `Reentrant` says
whether the interrupt may come between lwIP's choice of a pcb to poll
(`PollBegin`) and the callback (`Poll`): FALSE is the rule lwIP states, TRUE is this build.

**`ByteStream`** -- the abstract specification of one direction of a connection:
what arrives is what was written, in order and once.

**`LwipTcp`** -- lwIP's TCP from the SYN to the end of the pcb.  The pcb is a record and each function of
lwIP an operator on it, under the source's name: `tcp_input`,
`tcp_receive`, `tcp_output`, `tcp_enqueue`, `tcp_rexmit`, `tcp_rexmit_rto`,
`tcp_zero_window_probe`, `tcp_close`, `tcp_recved`.  `InOrder` and `Unacked` put a segment into a queue as
`tcp_rexmit` and `tcp_output` do, which sort nothing: out of order queues stay so.  The
actions are what calls them: a segment (`ServerReceive`), the timers (`SlowTmr`,
`SlowTmrExpired`, `Keepalive`, `FastTmr`), the main loop's answer to an erase (`MainWrite`).
The server's callbacks (`tcp_server_receive`, `tcp_server_sent`, the deal) are inside, with a
chain of waiting pbufs as their lengths.  The host is a conformant TCP whose receive buffer is read late.  `Faults`
names what may go wrong: a segment is lost, doubled or delayed, a timer runs out early, the
host stops awaiting answers, leaves before the last one, or resets the connection.  `MaxFaults` bounds
how often, `Calm` and `Units` what the host sends: a third unit goes out only where the host's haste is
all that goes wrong.

**`FrameFifo`** -- the abstract specification of reception: a bounded queue that
loses frames only when it is (all but one) full.

**`EthRx`** -- `ETH_IRQHandler` down to `low_level_input`, a step for each access to
a descriptor (`ETH_GetRxPktSize`, `ETH_RxPkt_ChainMode`, `Copy`, `Release`, `ClearPending`), against
a DMA that stores frames (`Arrive`) or finds no buffer (`Overrun`) at any moment.
`Long` are frames that need two buffers.  `Unread` maps the ring to the queue
of `FrameFifo`.

**`EthTx`** -- `low_level_output` and `ETH_TxPkt_ChainMode` in five steps (`Output`,
`Copy`, `Check`, `SetOwn`, `Advance`), in two contexts, against a DMA that sends.
The interrupt's output may cut into the main loop's at any step, as nothing masks it.  `Handover` are the
steps between the test of a descriptor and the advance of `DMATxDescToSet`; the history variable `torn` says that an output
has begun in the middle of one.
`DMATxDescToSet` is not volatile: where the code names it again the compiler may or may
not have kept it, and the model allows both.

**`LinkMonitor`** -- `Eth_Link_ITHandler` as two reads of a status register whose link bit
is latched low, `ETH_Reinit` as a reset and a wait, and a cable that may change
at any moment.  `mac` is what the last negotiation told the MAC.

**`SysTime`** -- `Time_Update` at any moment, `Delay`, and `LwIP_Periodic_Handle` with the
time it was given at the call, on a `LocalTime` modulo `Word`.

Operators named `X_Y` next to an `X` (`MainClaim_KeepsFlag` beside `MainClaim`)
are deliberately wrong variants.  No specification uses them; substituted for
`X` they make TLC report the property that `PROJECT.json` names, which shows
that the property can see such a mistake.

## 3. The runs

| run | cfg | what it asks |
|---|---|---|
| `server_open` | `MCXvcServer.cfg` | `XvcServer` under clients without discipline: `EraseAccounts`, `EarsePcbSet`, `ReadFits`, `EraseServed` |
| `session` | `MCXvcSession.cfg` | `XvcSession` implements `FlashStore`; answers match commands; nothing is left over between flows; reads end |
| `read_exact` | `MCReadExact.cfg` | finds an image that is reported as ended with 896 bytes unread |
| `spi_bus` | `MCSpiBus.cfg` | until the routing moves twice in one transaction: `SpiBus` implements `FlashAccess`; no write-enable latch is left set |
| `flash_pages` | `MCFlashPages.cfg` | the page loop: inside the page, all written |
| `net_params` | `MCNetParams.cfg` | the store under time-outs and power cuts |
| `tcp_conn` | `MCTcpConn.cfg` | one connection after another: stream, chain, window and references agree; commands in order and once; pbufs lost only with a connection; `es` owned; connections end |
| `lwip_tcp` | `MCLwipTcp.cfg` | `LwipTcp` implements `ByteStream` in both directions; the queues drop nothing; windows are honest; answers fit, and arrive unless the server stays deaf (`Deaf`); connections end |
| `eth_rx` | `MCEthRx.cfg` | the receive ring implements `FrameFifo`; the handler copies only whole frames it owns; frames are handled |
| `eth_tx` | `MCEthTx.cfg` | until an output cuts into a handover: the transmit ring stays contiguous and drains; only a full ring's frames are overwritten, or those of an output that came first |
| `link` | `MCLinkMonitor.cfg` | initialisation; loss and return of the link are noticed |
| `sys_time` | `MCSysTime.cfg` | periodic tasks are on time, across wraps, with turns of the main loop longer than an interval |

Further configurations are kept beside the runs.  Each states one thing that
does not hold, and TLC shows how; section 4 describes what it finds.

| cfg | module | property it refutes |
|---|---|---|
| `MCEraseRouting.cfg` | `MCXvcServer` | `AnsweredOnCompletion` |
| `MCSpiBusLatch.cfg` | `MCSpiBus` | `LatchAlwaysUsed` |
| `MCWriteEnd.cfg` | `MCNetParams` | `EndIsStored` |
| `MCTcpPoll.cfg` | `MCTcpConn` | `PollKeepsEs` |
| `MCLwipTcpClose.cfg` | `LwipTcp` | `ClosedMeansDelivered` |
| `MCLwipTcpPersist.cfg` | `LwipTcp` | `AnswersAlwaysArrive`, with a window that closes inside a segment and two losses |
| `MCLwipTcpRtx.cfg` | `LwipTcp` | `NrtxBounded` |
| `MCEthRxLong.cfg` | `MCEthRx` | `RaisedHandled`, with a long frame |
| `MCEthTxFull.cfg` | `EthTx` | `OkIsSent` |
| `MCEthTxNested.cfg` | `EthTx` | `NoGap` |
| `MCLinkLate.cfg` | `LinkMonitor` | `Initialises`, with `LateLink` |
| `MCSysPeriod.cfg` | `MCSysTime` | `RealPeriod` |

Eleven more need no configuration of their own: put in the place of the
properties of the run's cfg they are refuted with its constants.  They are `FlagFollows` and `ModeFollows`
(`MCLinkMonitor.cfg`), `AllHandled` (`MCEthRx.cfg`), `ClosedIsClosing` and
`NothingLost` (`MCTcpConn.cfg`), `DelayLasts` (`MCSysTime.cfg`), and `RspKept`, `ErasePcbKept`, `EraseStarts`,
`WriteTakes` and `WorksOnNamed` (`MCXvcServer.cfg`).

**Bounds, and why they are enough.**

* `server_open`: two clients, two slots, two chips and three commands.  Every
  hazard of section 1 that concerns the shared globals takes at most three commands (an erase,
  one that moves the routing, one that reuses the slot), and the main
  loop's steps are not bounded.  Chips have two pages, a packet is one page, a
  write of three bytes spans two packets and two pages.  `Word = 8` makes the
  write address wrap within three commands.  `MaxCmds` bounds the environment only.
  The length in internal flash starts erased (`Word - 1`), the largest there is, and a READ
  of it is among the runs.
* `session`: no bound on the number of commands.  Images up to five bytes in pieces of one and three,
  `DatMax = 4`: none, one or two packets, with and without a full one.  `PadExact` keeps images of exactly
  one packet away, which `read_exact` then shows to be misread.  Both chips, both slots, one
  host, who may leave and come back between flows.  `MaxReads` is where the host's count of
  READs stays; an image of five bytes needs four at most.
* `spi_bus`: two chips that are alike; bytes whose bitwise and is neither of them, so that a cell
  written twice shows; a write of two pages that goes round the chip's end; any number of commands and of moves of the
  routing.  Both properties speak of what happens until `astray`, so the constraint `NotAstray` of the cfg
  ends a behaviour there, which only saves time; `MCSpiBusLatch.cfg` has no such constraint.
* `lwip_tcp`: 32 sequence numbers, initial ones such that both streams wrap; segments of up to two units, a
  send buffer of two segments that one answer fills, windows of four and three, which close and cut segments; two
  commands of one unit, so
  that commands meet answers, and an erase's answer on top; and, behind a command that waits for room, a third that
  is acknowledged by the fast timer alone, after which no fault happens any more.  Two faults of any kind at any places: with `MaxRtx = 2` the
  server may just be driven to give up.  `MaxFlight` is how many segments may be on their way when a poll comes.
* `flash_pages`: three pages of four cells, every start address, zero to ten bytes,
  chips idle, busy, deaf, partly written.
* `net_params`: two values per word, one of them all ones, where an erased word cannot be told from a written one; two requests;
  unbounded numbers of sets, time-outs and power cuts.
* `tcp_conn`: segments of one to three half commands in one pbuf or two, a stream of eight half commands, a send buffer of
  three that answers of one or two fill, a window of five: every mixture of whole,
  split and joined commands with a chain of up to five pbufs.  `PoolSize` is the window, so that the pool
  can run dry.  The slot is used again without bound.  Slots share only the pool, the erase answer and
  the poll; the theorems cover any number of them.
* `eth_rx`: three descriptors, the least with one being copied, one being filled and one
  in between; eight frames go round the ring more than twice.  The ring has `ETH_RXBUFNB` in the code.
* `eth_tx`: three descriptors, six frames; `MCEthTxFull.cfg` and `MCEthTxNested.cfg` need two.
* `link`: three modes, so that a partner may change in speed and in duplex; no bound on changes.
* `sys_time`: `Word = 203` is like 2^32 no multiple of the period and wraps every few
  intervals.  `MaxStall` bounds the ticks in one turn of the main loop, here three: a turn may take longer
  than the interval of the TCP timer, as one with `ETH_Reinit` does, and `Punctual` says how late a timer may be in
  terms of it.  `TurnAssumption`, that five turns and an interval are less than `Word`, allows turns of
  about two hours with the firmware's numbers.

**Fairness.**  The main loop is weakly fair: it is the only thread, and
interrupts end.  A chip's erase ends: its data sheet bounds it.  `EraseServed` needs no more, since its run
has finitely many commands; clients who send commands for ever could spoil every poll, so the property is stated for clients that
fall silent.  In `session` the host takes the answers it gets and goes on with a
read it began; `AskEarse` and the like have no fairness.  The
handler of `NetParams` runs on, as sequential code does; no liveness property of
`NetParams` or `FlashPages` is stated.  In `TcpConn` lwIP's timer polls each connection again and
again, and what was sent is acknowledged, or lwIP gives up after its
retransmissions: a strong fairness, as an erase answer may refill the send buffer.  The
interrupt handler of `EthRx` and the steps and the DMA of `EthTx` go on; nothing
is assumed of arrivals or of the pool.  In `LinkMonitor` the main loop and the PHY go on, and a link
comes up, again and again, within the time `ETH_Init` waits, which is what its constants are
made for.  In `LwipTcp` segments that are not lost get through, timers run out, the host
reads what it has; the enabling conditions of these fairness formulas are written out
(`CanProgress`, `CanExpire`, `CanHostTimer`), which is the same as `WF` and `SF` and cheaper to
check.  `SysTime` needs no fairness: that no timer
stops is a matter of its age.

## 4. What the checks show

* Whatever clients do, the main loop answers no more erases than were
  asked for and never writes to a NULL pcb, although it clears `earseFlag` late and
  EARSE sets the flag before the pcb.  READ answers always fit `sendbuf`.
* Under the disciplined host the firmware implements the abstract store, including the
  two-sample check of `flashCheckOut`.
* A connection's stream is handed on in order, nothing twice; what waits in a
  chain is exactly what the window does not offer again; a chain waits only for room in the
  send buffer; a peer's close is always completed, unless `tcp_close` fails.
* The receive ring is a queue for frames that fit a buffer.  The transmit ring stays in
  step with the DMA, outputs inside outputs and refused frames included, until one of them cuts into the
  handover of a descriptor.
* Timer differences survive the wrap; the latched link bit is handled, given a boot with a
  link.
* The chips do with interleaved bits what `XvcServer` says they do, until the routing moves twice within one transaction
  of the main loop.
* TCP delivers both streams through any two faults; what the server has not had
  acknowledged is always on its queues, each unit once; a host that awaits its answers never has one
  refused; it gets them all, unless the server comes to stay in persist with an open window (`Deaf`);
  a connection the host leaves or resets ends.
* The disagreement between documentation and code that a run shows (`findings`):
  an image whose length is a multiple of 896 is read short: neither branch of
  `tcpserver.c` 431/438 takes exactly 896 bytes, and the old contents of `sendbuf` are sent
  again.
* What the further configurations show:
  * an erase can be answered while the chip is still erasing (`main.c` 105), if another
    client's flow has moved the routing;
  * a routing that moves to a chip after one bit of the main loop's read and away after eight more
    makes `0x06`, a write enable, of its `0x03`: the latch stays set until something uses it up;
  * clients that overlap, or one that breaks off a flow, meet each other in the globals: a WRITE that comes while an erase
    is being answered turns the answer into one to a WRITE (`RspKept`; `main.c` 109-114, `tcpserver.c` 405-413); the
    answer goes to whoever has the slot by then (`ErasePcbKept`, 379); a WRITE works on the chip of the flow
    that set `setAddrFlag`, not on the one it names (`WorksOnNamed`, 385);
  * an erase of a chip that is still erasing never starts (`EraseStarts`, `drvflash.c` 177), and the first page of a
    write to one is lost (`WriteTakes`, 68); both are answered with success;
  * pbufs chained to a connection that dies are never freed (`tcpserver.c` 236), though
    `rawapi.txt` 232-235 says the receive callback "must free the pbuf" it accepts;
  * in LAST_ACK an acknowledgement of all that was *sent* removes the pcb with what is still
    on `unsent` (`tcp_in.c` 697-704), though `tcp.c` 177-181 says that the timers send it;
  * `persist_backoff` is set for a segment that fits no window, and then no retransmission timer runs
    (`tcp.c` 596-598, `tcp_out.c` 625-631): with a window that closes inside a segment and two
    losses host and server wait for each other;
  * `nrtx` can pass `TCP_MAXRTX`, since the test is for equality (`tcp.c` 591) and duplicate
    acknowledgements count too (`tcp_in.c` 770-806): the connection is then not given up, and
    `tcp_backoff` (`tcp.c` 58, 620) is read beyond its end if the count goes on;
  * the end of a WRITE flow reports success whatever `writeCntInfo` returned
    (`tcpserver.c` 401; `tcpserver.h` 66: any value but 1 is a failure);
  * a `tcp_close` that fails for want of memory is not tried again (`tcpserver.c` 292,
    against `rawapi.txt` 268-272): the connection stays open without callbacks;
  * lwIP runs in the interrupt and in the main loop (against `rawapi.txt` 29-36): a reset
    can free `es` under the poll callback, and an output of the interrupt inside one
    of the main loop leaves a gap in the ring at which the DMA stops;
  * the receive interrupt is cleared after the last look at the ring: a frame that comes
    in between waits for the next one (`stm32f10x_it.c` 156, against 149 "Handles all the
    received frames");
  * a frame longer than the buffer of 1520 bytes, such as a tagged one of 1522, takes two descriptors:
    `ETH_GetRxPktSize` sees none of them, nobody gives them back, and reception ends
    (`stm32_eth.c` 655, `ethernetif.c` 241);
  * `low_level_output` returns `ERR_OK` for a frame it could not queue, and has overwritten one that waits
    (`ethernetif.c` 211-219, against 195-196);
  * after a boot without a cable a poll clears the link flag and `ETH_Reinit` does not set it again
    (`netconf.c` 213, against `netif.h` 76-78); a cable moved to another
    partner leaves the MAC in the first one's mode (`netconf.c` 218, against `stm32f107.c` 165); a link that shows
    in the last read of the wait counts as a time-out, and no poll tries again
    (`stm32_eth.c` 240);
  * SysTick fires every 0.1 ms and adds 10 to `LocalTime` (`stm32f107.c` 72, `main.c` 143): the
    periods of `netconf.c` 170 and 176 are a hundred times too short; `Delay(1)` ends with the next
    tick, not after 10 ms (`main.c` 122).

## 5. What is proved

All theorems hold for every value of the constants that satisfies the `ASSUME`s
of the modules; TLC evaluates those in the runs.

* `XvcSession_proofs`, first part, of `XvcServer`: `TypeCorrect`, `EraseAnswersAccounted`,
  `EarsePcbAlwaysSet`, `ReadAlwaysFits`.  The inductive invariant is the
  conjunction of the four: `EraseAccounts` is inductive only with its first conjunct (the flag
  is still set between test and claim, as only `MainClaim` clears it).
  `EarsePcbSet` rests on EARSE being atomic.  `PacketLenBound` carries `ReadFits`.
* `FlashPages_proofs`: `NeverCrossesPage`, `KeepsCount`, `PagesTypeCorrect`, `LoopWritesAll`.  The strengthening
  `EndsAtPage` says that a piece which is not the last ends at a page boundary;
  `NextPage` is the arithmetic.  For `LoopWritesAll` the invariant `SoFar` says what the chip holds
  after each turn (`Written`); `PieceCells` shows that the cells which the page program reaches, counted
  around the page, are those of the piece's addresses, counted around the chip.  It rests on the third
  part of `FlashPagesAssumption`: no write is longer than the chip.
* `FlashMemory_proofs`, first part, of `NetParams`: `TornNeverAccepted`, `SetAnswerHonest`, `FieldsInOrder`,
  `BootIsStored`, `StoreTypeCorrect`.  The invariant `PageState` says that the page's checksum word is
  either erased, and then larger than any sum, or that of the last record
  stored, in which case every word is that record's or larger because it was erased.  The sums
  being equal then leaves no room (`EqualSums`).  `Programming` and
  `Mirror` tie the words written so far to the mirror and the request.
* `FlashMemory_proofs`, second part, of `SpiBus`: `LatchIsUsed`, for any chips, sizes, data and addresses and any number
  of moves of the routing: it speaks of what happens until two of them fall into one transaction (`astray`), after which the
  property is false (section 4).  `AstrayStays` lets a step be looked at as one of before.  The invariant `BusOk` says that the bits of the selected chip are those the main loop has put on the
  bus (`Line`) since some bit of its transaction, and since the first unless the routing has moved (`Shown`), and where the pins
  are (`Pins`).  A chip that is routed away from has then heard a beginning of the transaction (`DropOk`), one that is
  selected until NSS goes high has heard an end of it (`EndOk`), whose last eight bits are alike: neither is a
  write enable alone.  Bits left by the main loop can only make a command of an interrupt longer or unheard, and a
  chip that heard `Flash_WriteEnable` hears the command after it (`EnableIs`, `UsedUp`).  For the pages
  of `Flash_WriteNoCheck`, `PagesInTurn` replaces the fold by a row of chips and `PieceIs` shows that no page
  is empty.
* `FlashMemory_proofs`, third part: `BusIsShared`, until then also: every step of `SpiBus` is a step of
  `FlashAccess`, or none, for any chips, sizes, addresses and lengths, and data that keep `SpiBusData`.  This is what
  lets `XvcServer` treat whole driver functions as steps.  The invariant `ShareOk` adds to `BusOk` that cells hold written
  bytes, 255 or mixtures (`Held`; `MixedIsNot` tells these apart), and that a transaction of the main loop which
  nobody came between is followed by its chip (`Followed`): the chip has all its bits and no other,
  and the main loop has sampled what the chip holds (`Sampled`).  Then, function by function: programming is a bitwise and, bit by
  bit (`AndBits`), which is `Burn` of `SpiFlash` (`BurnIs`); three bytes are an address cut to the chip's size
  (`AddressHeard`); a page program reaches the cells after that address (`InOnePage`, `PageCells`); the loop of
  `Flash_WriteNoCheck` programs its pieces one after the other and loses the first one if the chip is busy
  or in the middle of another transaction (`PieceFits`, `PieceFollows`, `TurnStands`, `WriteSeen`); a chip that
  is read answers bit by bit what its cells hold (`MisoReads`, `ReadSeen`, `NextSample`).  `RoutedShare` says that the bits of
  the main loop alone change no chip, `CommandShare` what a command leaves behind, and each action of the bus has a lemma
  (`EarseShared`, `WriteShared`, ... `SckHighShared`) that names the step of `FlashAccess` it is.
* `TcpConn_proofs`: `EsAlwaysOwned`, `TailPending`, `FullWhilePending`, `HandedInOrder`,
  `OnlyAbortsLose`, for any number of slots, any windows, segments and pbufs.  For the first the invariant adds
  to `EsOwned` the types of the fields it speaks of and `ClosedIsMute`: a connection in LAST_ACK has no
  callbacks, so that its end frees nothing.  For the others `InStep` says of each slot that
  its chain holds the last bytes that arrived, as many as the window leaves out (`Stream`), that it waits
  for room (`Full`), and that the commands handed on lie in order (`Ordered`) in what came before them
  (`Within`).  That a segment is cut into pbufs, chained and dealt without loss goes along sequences:
  tlapm cannot use the library's induction theorems, so `Induct` states induction for a set of numbers,
  from the least number of a nonempty set (`Least`), and `FlattenAppend` is what follows for `FlattenSeq`.
* `EthRx_proofs`: `RxTypeCorrect`, `CopiesOwnBuffer`, for rings of any size and with long
  frames.  `TypeOK` and `FrameIsOurs` are inductive together; `StoredOwned` says that the DMA changes only
  buffers it owns.  `RingIsQueue`: of frames that fit a buffer the ring implements `FrameFifo`, step by step
  and for rings of any size.  The invariant `RInv` adds that the handler's descriptors are those from the oldest up to
  the DMA's (`Taken`) and hold whole frames; `UnreadIs` replaces the remainders and the choice in `Unread` by a
  row of frames, which `RowStored` and `RowTaken` make longer and shorter.
* `EthTx_proofs`: `RingContiguous`, `OverwritesFullRing`, `TxTypeCorrect`, for rings of any size and outputs of two
  contexts that cut into each other.  The invariant `Tidy` says of a ring that is not `torn` that its frames are
  in a row (`InRow`), that only one context is inside a handover (`Alone`), that what it has kept of
  `DMATxDescToSet` is still true (`Latched`), and that a descriptor it found free stays free (`Free`).  `Wrap`
  replaces the remainders by differences, which is where the arithmetic is done.
* `XvcSession_proofs`, second part: `StoreSteps` (every step of `XvcSession` is one of `FlashStore`, or none), `AnswersMatch`,
  `NothingLeftOver`, `FlowsKeepTheirChip`, `SessionTypes`, from the hypothesis `Proper`: images are padded, the length an
  erased page pretends to is no multiple of a packet, a send queue takes one answer.  The invariant
  `SInv` says that one host is connected and awaits one answer (`Sole`, `Awaited`), what each
  register holds in each phase (`Registers`), that a read needs no more packets than the server
  counts (`Reading`, whose arithmetic is `Division`, `OnePacketLess` and `NeededLess`), and that the chip the main loop looks at is the
  one being erased, blank once it is idle (`Erasing`).  From it `Silent` follows: commands meet no transaction
  of the main loop, which is why the store needs no `Lost`.
* `SysTime_proofs`: `TimersPunctual`, for any `Word`, period, intervals and turns that satisfy `TurnAssumption`, turns
  much longer than an interval included; `TimeTypeCorrect` needs none of that.  The invariant `Clock` says that `LocalTime` and the copy
  the handler works on are the timer's start plus the ticks since, modulo `Word`; `Elapsed` gets the ticks back
  from the difference, and `Young` bounds them at each place of the main loop.
* `LwipTcp_proofs`: `ConnectionInvariant`, `WindowIsHonest`, `EdgeNeverMovesBack`, `HostStreamHolds`, the receiving
  half of a connection: for every space of sequence numbers, initial number, segment size, window and pattern of faults,
  any number of them.  None of the three properties is inductive, since a segment, an acknowledgement
  and the pcb each name numbers that must fit the others'.  `LwipTcpOk` ties them to the one thing that only
  grows, the host's stream (`Sent`, `Number`): the host has used the numbers up to its own (`HostOk`); what is
  on its way to the server is a SYN, a reset or a part of that stream at its place (`Carries`, `Sound`); every acknowledgement
  names a number that was used (`Knows`, `Heard`); and a pcb that is not closed stands at
  some number `Q` of it (`Alive`), with a window between nothing and `Wnd`, an announced edge that is no
  further than the window and no nearer than an edge `lo` (`Window`), and the units before `Q`
  either given to the callbacks or waiting in the chain (`Stream`).  Numbers are compared modulo `Word`;
  `PlusSum`, `Ordered` and `OpenWindow` get from a comparison of two of them to one of the distances from `HostIss`,
  which is why windows and streams must be shorter than half of them.  Each function of lwIP has a lemma that says what it keeps
  (`OutputFrame`, `RecvedOk`, `TakeDataOk`, `ProcessOk`, ... down to `ServeOk`), and `HostKeeps`, `ServerKeeps`,
  `NetworkKeeps` have a step for each action.  `lo` is free in them: with the edge as it is before the step it
  is `EdgeNeverMovesBack`.

**What is only model-checked.**  Liveness is beyond the prover: `EraseServed`, `ReadEnds`, the fairness of
`StoreImplemented`, `ClosingEnds`, `RaisedHandled`, `Drains`, `Initialises`, `LinkSeen`, `AnswersArrive` and `Ends`.
Of the safety properties the sending half of `LwipTcp` is: `NothingDropped`, `ServerStream`, `AnswersFit` and
`GivesUpLate` are checked for two faults of any kind.  They say nothing of the order on the queues, which is lost
with `Mss = 1`, `SndBuf = 2`, `Wnd = 3`, `HostWnd = 2` and three of `"haste"`, `"lose"`:
an acknowledgement is lost, the host repeats a segment whose acknowledgement field is
old, the server sends beyond the window, the window closes, and the third duplicate acknowledgement moves the head of `unacked`
behind segments of later numbers on `unsent` (`tcp_in.c` 770-806, `tcp_out.c` 827-846).  `NothingDropped` holds there too.

## 6. Abstractions

Data are one or two values, `Blank` and `Junk`; addresses are small; a frame is
its command.  In `XvcServer` a frame that is split, joined or damaged is dropped by the checksum and
changes nothing; `TcpConn` has such frames.  A WRITE's length is that of its data: the code takes it from the frame's `size` field and does not
compare it with what came (`tcpserver.c` 393-397).  PARA_GET and STATE_GET
change no state but the send queue.  A failure of internal flash is in `NetParams`, not
in `XvcServer`, whose WRITE end always stores the length.  SPI chips never fail an erase half way.
A word cut by a power failure counts as not written: for the
checksum word, the only one that can make a page acceptable, a half of it erased
exceeds every sum.  The record's validity words are valid in every record the
program writes and are left out, and so are mask and gateway, which are never set.

`SpiBus`: MOSI and the falling edge are one step, and so are the falling edge and the sample, since
nothing that comes between them can tell.  Chips that are not routed see NSS high.  `SpiBusAssumption` asks
that pages divide a chip and a chip the 2^24 addresses of three bytes, as 256 and the chip's 2^24 do, and that no payload is longer
than a chip (its length is a `uint16`).  The firmware writes any byte; `SpiBusData` takes bytes whose bitwise and is
none of them, so that a cell written twice is told from one written once, which `Junk` stands for in `SpiFlash`.  In `FlashAccess` a status
read may find a chip busy that has become idle meanwhile.

`LwipTcp`: one connection, from its SYN; a SYN for a second is ignored.  The congestion window matters only as
`slow` (one segment after a time-out), as the send buffer is two segments; the retransmission time-out is a
flag (`timer`), duplicate acknowledgements are counted to three, and `snd_buf` may be -1 where the code's
wraps.  A pbuf is a segment.  The time-outs of SYN_RCVD and LAST_ACK and the abort by keep-alive are left
out.  What the main loop writes to a pcb that has gone has no effect.
`tcp_server_struct` closes only from CLOSE_WAIT.  Nagle is off (`tcpserver.c` 366) and segments out of order are
not kept (`TCP_QUEUE_OOSEQ` 0), as configured.
`LwipTcpAssumption` asks that a segment fits the window (`TCP_MSS` and `TCP_WND`, `lwipopts.h` 87 and 97), that two windows are less than
half of the sequence numbers, as lwIP's comparisons need (`tcp.h` 146-149), and that so is a
stream: units are told apart by their numbers, and no image is longer than a chip.

`TcpConn`: the handshake and TIME_WAIT are not states of their own, since no callback runs in
them.  Data after a FIN and errors passed to the receive callback do not come from
a conformant peer or this lwIP.  `tcp_recvbuf` is taken to hold what one deal collects, and
the checksum to accept just one whole command.  A call of
`XVC_Interface` without data has no effect.  What `Poll` does on an `es` that has been freed is not modelled.
`EthRx`: damaged frames are dropped by the MAC (`stm32f107.c` 183-187) and never reach the ring;
the poll demand that wakes the DMA is taken as part of the next arrival.  `EthTx`: what a frame overwritten while it is being sent looks like on
the wire is left open.  `LinkMonitor`: the two waits of `ETH_Init`, for link and
negotiation, are one; a failing register access to the PHY is not modelled.  `SysTime`: no DHCP, which the build leaves out.

## 7. Plan

Done: the core (`SpiFlash`, `XvcServer`, `XvcSession` with `FlashStore`,
`FlashPages`, `NetParams`), the bus (`SpiBus` with `FlashAccess`), connections (`TcpConn`), TCP (`LwipTcp` with `ByteStream`), the rings (`EthRx` with `FrameFifo`,
`EthTx`), time and link (`SysTime`, `LinkMonitor`), and the proofs of section 5.

Next:

1. `XvcSystem`: `TcpConn` with `XvcServer`, so that lost, delayed and joined commands
   meet the globals of the interpreter, and answers that find no room.
2. The parsers (`strToIp`, `strToMac`, `strToPort`) and the serial buffer, as
   functions against a reference definition.
3. Proofs: `NothingDropped` and `ServerStream`, which need an invariant that lives with queues out of order.

## 8. Not modelled

Of lwIP: the lists of pcbs and the search in them, the heap, the memory pools and
the pbuf functions, IP, ARP, ICMP and UDP.  `TcpConn` and `XvcServer` have what the
server sees of slots and pools.  `fpgaStateGet` copies registers into an answer.
Board set-up and the STM32 libraries are register writes and third-party
code whose effect the models use.  `Flash_Write`, `Flash_EraseSector`, `Flash_EraseBlock`, the parsers
and the serial buffer have no caller in the running program.  Other vendored code (SNMP, PPP, sockets, IPv6, DHCP, CMSIS) is
not in the build or never called.
