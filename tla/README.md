# A verification project for uc1-integration

The repository builds the CROSSCON use case 1.1 demo for the LPC55S69: two VMs
on the CROSSCON hypervisor, one of which connects to a server over Wi-Fi and TLS,
takes three challenges from it, has a PUF trusted application (TA) in the other
VM compute the answers, and sends them back. This directory holds TLA+ models of
that program, the TLC runs that check them and theorems that TLAPS proves.

`PROJECT.json` lists the components, runs, mutants, hazards, findings and
theorems, and for each definition the source lines it was written from. Paths
below leave out `src/tls_client/src/`.

## The system

```
   TLS server  <-- TLS over TCP -->  VM: tls_client                    VM: PUF TA
   (external)      frames, ACKs      main.c                            (external)
                                      | recChallenge x3, sendResponse x3
                                      | challenge.c -> transmission.c -> wolfSSL
                                      | challenge_puf
                                      v
                                     pufcaller.c -> crosscon_hv_tee.c --+
                                      ^                                 | shared page,
                                     crosscon_hv_config.c (interrupt) <-+ doorbells
```

| component | state it keeps | operations | what makes it correct |
|---|---|---|---|
| PUF caller, `pufcaller/pufcaller.c` | the caller's buffers, `param[4]`, `session_id`, its place | `challenge_puf`, `call_puf_ta_*`, `cpy_last_result` | the answers handed back are those of this call, for this challenge, in every portion; failures are reported; the session is used and closed as granted |
| TEE driver, `.../crosscon_hv_tee.c` | the message in the shared page | `open_session`, `invoke_func`, `close_session` | the TA reads a whole request, never parts of two |
| IPC handler and page, `.../crosscon_hv_config.{c,h}` | `session_id`, `param[]`, arguments; offsets | `ipc_notify`, `ipc_irq_client_handler` | it stores the reply to the call in progress; portions lie in the page and apart |
| Framing, `common/transmission.c` | scan window, index, bytes read | `recStream`, `readExact`, `waitForAck`, `sendAck` | the first whole frame and nothing else is taken; nothing behind it is read |
| Challenge exchange, `common/challenge.c` | `func_call_t` buffers, place in the exchange | `initFunc`, `recChallenge`, `sendChallenge`, `sendFramedStream` | no portion is skipped, repeated or mixed up; an ACK means received; it ends |
| TLS session, `main.c:72-303` | socket, context, session, buffers, `ret` | set-up, exchange, shutdown, cleanup | no label releases what was not acquired; the result tells the outcome; the session ends |
| Wi-Fi and DHCP, `main.c:307-470`, `src/app`, `src/wifi_app` | connection, address | `connect_to_wifi`, `start_dhcpv4_client`, `wait_for_dhcp` | an address that stays starts the session |
| Echo bots, AT client, `src/echo_bot*`, `src/hello_at`, `check_echo.py` | line buffer, message queue | UART callback, echo loop, the script's write and read | lines come out whole and in order, and are dropped only when the queue is full |
| Build, `src/uc1.sh`, hypervisor configurations | patched sources, images, the board's flash | `build`, `build_puf`, `build_mtls_puf`, `no_hv_zephyr`, `flash` | what is flashed belongs together; VMs and hypervisor agree on pages, entries and memory |
| PUF output converter, `resources/scripts` | block being read | `parse_hex_blocks` | one block for each memref printed |

What is hard in it: the client never waits for the interrupt that answers it but
sleeps for a fixed time, while the interrupt handler changes its globals between
any two of its stores; the page is shared with another VM and written piece by
piece; the TLS stream comes in pieces and may end anywhere, below a protocol in
which neither side has a time limit; and results of many calls are not looked at.
`PROJECT.json` lists these hazards at their lines.

## What is modelled

### The call into the PUF: `PufLayout`, `PufIpc`, `PufIpcInv`, `PufRpc`

`PufIpc` has three parties. The client's main thread (`MainThread`, place `pc`)
goes through `challenge_puf`: `Bind`, then for each call `FillParam`, `Stage`,
the driver's `WriteType`, `WriteArgs`, `WriteParam` (one descriptor per step) and
`Ring`, the sleep that `Wake` ends, and `CopyResult` (one portion per step). The
interrupt handler `ipc_irq_client_handler` may run between any two of these steps;
itself it is atomic, as it is for the thread that it interrupts. `TrustedApp` is
external: it takes the request when it sees the doorbell, executes, refuses or
fails it, and notifies. A doorbell rung twice before it is seen is one doorbell.

Data are 32-byte words: zeros, a portion of a call's challenge, of its answer, or
junk. `PufLayout` has the sizes and offsets of `crosscon_hv_config.h` and says which
words of the page the `memset` of 1024 bytes clears, tears or leaves.

Time is the constant `Prompt`: the calls the TA answers, interrupt included, within
the client's sleep. `Prompt = Call` is what the sleeps count on; with `Prompt = {}`
the TA may take any time, or for ever.

`PufRpc` is the promise to the caller, without page, doorbells or sleeps: one session,
the three functions once each and in order, a function that ran well returns its
result. `PufIpc` implements it under `Prompt = Call` (`RpcSpec`); the mapping reads
"returned" off the buffers. `PufIpcInv` is the inductive invariant.

Assumed: the shared page is zero at boot; the TA is as the client uses it, its
source is in a submodule; stores to the page become visible in program order (both VMs
run on one core, and the page is written through `volatile` pointers).

### Framing: `FrameRx`

`recStream` over a byte stream: `stream` is what the peer writes, `arrived` how much
of it has come, `closed` that no more will. `Scan` is one turn of the search for the
start sequence, with its window `seq_buf`, `idx` and the `memmove`; `ReadPayload` and
`ReadStop` are the two `readExact` calls, taking any number of the bytes present up
to the `Room` they ask for; `ReadExactFails` is the failure `recStream` overlooks
(`readExact` returns 1, the test is `< 0`); `Compare` gives the verdict.

### The exchange: `ChallengeProto`, `Handover`

Both ends run `challenge.c`: the client `recChallenge` three times, `challenge_puf`,
`sendResponse` three times, the server (external, taken to be the complement, giving
up at the first failure) the other way round. One action per write, per unit read,
per acknowledgement and per copy. The connection carries units (a start or stop
sequence, four bytes of payload, an ACK). `initFunc` may fail, which leaves no
buffer and is only logged; `challenge_puf` may answer some functions or none, its
result being ignored, and with a missing buffer it may fault. `Cut` breaks the
connection and loses what is in flight from some point on; later writes fail or
reach nobody. A read that waits may be told of the break (`ReadFails`), later or never:
no receive timeout and no keepalive is set, and the loops at `transmission.c:24`, `:74` and
`:100` have no limit of their own, so that a link lost silently keeps a reader for ever.
The one-second sleeps of `waitASec` order nothing and are left out.

Assumed: four bytes of a payload never equal the start or the stop sequence. For the start
sequence `FrameRx`, whose payloads may contain anything, shows what the frame reader does
about it. For the stop sequence it matters after a lost allocation only, where a portion's
frame is read as an identifier's (`transmission.c:135-141`): a payload with the stop
sequence after its first four bytes would be taken for an identifier. Writes do not block
for ever. The other end's orderly close reaches a reader while the connection is sound. A
unit is dropped whole by `Cut`; `FrameRx` cuts between bytes.

`Handover` is the abstract specification: items are handed over one after the other in
the agreed order. `ChallengeProto` implements it whatever fails (`HandoverSpec`).
`ChallengeInv` is the inductive invariant.

### The whole client: `WifiBringup`, `TlsClient`

`WifiBringup` is `main` up to the session, with its callbacks: `connect_to_wifi` and
`start_dhcpv4_client`, whose results are ignored, and the events of the network, which
connects, refuses, disconnects, gives an address and takes it back. `app` and `wifi_app`
hold the same text and are nothing more. `TlsClient` EXTENDS it and `ChallengeProto` and
adds `test_socket_connection`: one action per call of the set-up and the shutdown, each
of which may fail and then jumps to its `Label`; the exchange, which is `ChallengeProto`'s
steps, the client's and the server's, while `pc = "exchange"`; and the labels. `held` is
what has been acquired and not released, `ret` the result by its kind, `failed` (a
history variable) the call that failed. A lost interface or address breaks the connection,
which may also break by itself; nothing in `main.c` closes the socket then, so the call that
waits is told of it late or never. `OnNetwork` are the places from which only the network
gets the client on: `connect` and `wolfSSL_connect` (`main.c:114`, `:206`) with a server that
says nothing, and the reads of the exchange and the shutdown on a broken connection. All
failures of a call are one value of `ret`. `TlsClientInv` is the inductive invariant.

### Echo bots and AT client: `LineQueue`, `UartEcho`

`LineQueue` is the promise: the lines typed are shown in order, each at most once and as
typed; a line may be dropped, but whole. `UartEcho` models the three programs (`bot`): the
interrupt handler (`serial_cb`, `uart_cb`) takes one character a step out of the UART,
`Put` is `k_msgq_put` with `K_NO_WAIT`, which hands a message to a waiting thread or puts
it into the queue or nowhere; the thread waits for ever (`get`) or polls (`poll`). The host
is somebody typing at any moment or `check_echo.py`, which sends a message as long as a
line may be and reads a line or runs into its time limit; the part of a line it may then
have got counts as no answer, as both differ from the expected one. Input is enabled
(`start`) before the greeting is printed (`greet`), and what is typed before that waits in
the UART: a script that has its port open by then finds the greeting before its first
answer (`greeting`). Characters are their positions in `typed`, so that "this line and no other" can be said; `LineQueueSpec` maps
the message being printed and the queue to the promise's `waiting`. `UartEchoInv` is the
inductive invariant.

### The build: `HvConfigs`, `Uc1Build`

`HvConfigs` holds the five hypervisor configurations as data. `Uc1Build` has the commands
of `uc1.sh` as lists of steps (`Script`), run in any order on one tree. A step patches
sources that stay patched (`update_crypt_addr`, `update_ipc_addr`, `build_puf_vms`, the
header of `build_hv`), builds an image that records what it was built from, or
loads one on the board. Every container call may fail and ends the command where it
is; submodules may be missing; `HV_CONFIG` of `build` is any of the five files, by its name or
the name the usage gives it, or misspelt; the user may copy the overlay of the TLS demo or
remove it at any time between commands, and no command looks for it. A configuration with a
Zephyr VM0 leaves its entry empty under `build`, which builds no such VM, and does not
compile (`Compiles`). `Uc1BuildInv` is the inductive invariant.

Assumed: the environment holds what the usage documents and no `VM0_START`, `VM1_START` or
`VM_NO` of the user's; `ZEPHYR_APP` of `build` is an application that talks to no other VM;
an application without an overlay gets the board's default slot of 160 KiB (`Default`, from
Zephyr, external).

## What the runs check

| run | instance | properties | what it shows |
|---|---|---|---|
| `puf_prompt` | prompt TA; session ids 0, 1, 2; full size of the exchange (3 functions, 4 slots) | `TypeOK`, `IInv`, `FreshResults`, `CopyAfterInterrupt`, `SessionAgreement`, `SessionClosed`, `RpcSpec` | with the timing the code counts on, whatever the TA grants, refuses or fails, the buffers hold this call's answers |
| `puf_slow` | a TA of any speed, session id 1 | `HandleNeverWrong`, `Termination` | the client returns although nobody answers, and never uses an identifier it was not given |
| `puf_slow_copy` | the same | violates `CopyAfterInterrupt` | a TA slower than a sleep: the page is copied before the interrupt |
| `puf_errors` | prompt | violates `ErrorsReported` | a function that failed in the TA counts as success |
| `puf_refusal` | prompt | violates `RefusalStops` | after a refused session the functions are invoked all the same |
| `frame_rx` | sequences and payload of 2 bytes, all streams of up to 7 bytes over start, stop and another byte | `TypeOK`, `FrameVerdict`, `ReadsNoFurther`, `IInv`, `FrameDelivered`, `CloseEnds` | 0 is returned for a whole first frame and nothing else; what `sendFramedStream` writes is found behind anything without a start byte |
| `challenge_proto` | the three functions and four portions of `main.c`, lengths 1, 2 and 3 units | `TypeOK`, `Integrity`, `AckedIsAccepted`, `InStep`, `MutualWaitNeedsLoss`, `IInv`, `HandoverSpec`, `Completion`, `LinkLossEnds` | nothing is skipped, repeated or mixed up after any failure; both sides wait for each other only after a lost allocation; without failures all arrives; a lost connection leaves a side only at its end or in a read that is not told of it |
| `tls_client` | three functions with two portions, one and one, of 2 and 3 units | `ClientTypeOK`, `LabelsHold`, `NothingElseKept`, `ReturnTells`, `SessionEnds`, `Starts` | whichever call fails, and whenever the network is lost: what each way out releases and what it keeps, what the result tells, that the session starts, and that it ends but for silence of the network or the mutual wait |
| `uart_echo` | the three bots, both hosts; messages of 2 characters, a queue of two, 9 characters | `TypeOK`, `Accounted`, `ExpectedResponse`, `LineQueueSpec`, `Echoed` | lines come back in order and whole; none vanishes but at a full queue; the script gets what it expects, or after the greeting always the answer before; what is queued is shown |
| `uart_lf` | the same with CR and LF, 7 characters | violates `UntilLineEnd` | the LF of CR LF begins the next message |
| `uc1_build` | up to three commands, each failing anywhere, submodules and overlay present or not, any configuration | `TypeOK`, `FlashedTogether`, `IpcAgreement`, `VmsFit`, `CryptInside` | a flash that succeeds loads one finished build; VMs and hypervisor agree, with two named exceptions |
| `uc1_crypt` | two commands | violates `CryptInsidePuf` | `build_puf` after `build_mtls_puf` places the PUF's keys outside its VM |

Bounds. `puf_*` are the program's own sizes except that a portion is one or two words;
the type enumeration, whose size the compiler chooses, is 1 byte in one run and 4 in
the other, and the descriptors, functions and slots are all there. Session 0 is among
the identifiers because 0 is also the variable's initial value. In `frame_rx` a stream
of 7 holds a frame of 6 with a byte before or after it, a false start (three start bytes
in a row), a frame cut anywhere and a payload that looks like a sequence; the theorems
below hold for every length. In `challenge_proto` only that an identifier and a portion
have different lengths matters (4 bytes against 32 and 64), and that two portions of a
function differ. `tls_client` drops two portions a function: where a portion stands among
its function's is `challenge_proto`'s question, whether there is another portion, another
function and a loss in any of them is kept. In `uart_echo` a message of `MSG_SIZE - 1 = 2`
characters can be too short, full and overfull, a queue of two can be empty, half and
quite full while the thread polls or prints, and 9 characters are three messages with their
line ends and four lines of one character, one more than queue and printer hold, or a line
far too long; the queue has to hold two messages for `ExpectedResponse`, as the script is
one ahead after the greeting, and holds ten in the code; the UART's two
characters let the handler lag behind the typing. One letter is
enough, as characters are told apart by position, and one line end, as the code treats CR
and LF alike (`uart_lf` has both). In `uc1_build` a command meets what at most two others
left behind: `tree` keeps only the last value of each address, header and overlay, so that
more commands before repeat what two can leave; the third flashes it.

Each property has a mutant: a definition changed the way a plausible bug would change
it (a missing `memmove`, an index one too far, a read that asks for the whole length
again, a portion sent twice, ...), under which the run must fail.

## Fairness

- `puf_prompt`: all parties keep running (`FairSpec`), since `SessionClosed` needs the TA
  to take the last doorbell. `puf_slow`: the client's own thread alone (`ClientSpec`);
  its sleeps end by themselves.
- `frame_rx`: the caller's thread runs and the network delivers what was written. That the
  peer ever closes is not assumed, so `FrameDelivered` and `CloseEnds` name what they
  wait for.
- `challenge_proto`: each side's program runs, except that a read on a broken connection may
  never be told (`Cutoff`). Nothing obliges the connection to break. That breaks are reported
  is a hypothesis of the second half of `LinkLossEnds` (`BreakReported`), no part of
  `FairSpec`: the code sets no `SO_RCVTIMEO` and no keepalive.
- `tls_client`: the client's only thread and the server's program run (`ClientSpec`), except
  where they wait for the network (`OnNetwork`, `Cutoff`). Nothing is assumed of the access
  point, the DHCP server or the connection: `Starts` names the address it waits for,
  `SessionEnds` excepts a fault, the calls of `OnNetwork` and the mutual wait of
  `MutualWaitNeedsLoss`; its second half has the network's answers as a hypothesis
  (`NetworkAnswers`), no part of `ClientSpec`. That the server, once through with the
  exchange, answers the greeting and closes is part of the model of it, which is external.
- `uart_echo`: an interrupt that is pending is handled, and the only thread runs. Nobody is
  obliged to type.
- `uc1_build` has no liveness property: the user may stop at any time (its deadlock at
  `MaxCommands` is none, as `Overlay` stays possible).

No run relies on strong fairness or on fairness between the branches of an action.

## What is proved

The theorems hold for every value of the constants, under the named assumptions only.

- `PufLayoutProofs`: `PortionsDisjoint` (portions of different slots do not overlap and
  stay in the page) and `WipeReach` (what the `memset` clears), for every size of the
  enumeration that `VMS_HEADER_SIZE` allows for.
- `PufIpcProofs`: `TypeCorrect`, `Spec => []TypeOK`, and `HandleCorrect`
  (`HandleNeverWrong`), both for any timing. A late TA leaves the client without a session,
  never with a wrong one: until the client comes to its last call (`Places`), what stands in
  the page for the handler to copy is no identifier or one that is open, and the TA has
  nothing to close (`HandleInv`).
- `PufPromptProofs`, assuming `Prompt = Call`: `PromptInvariant` (`Spec => []IInv`), hence
  `PromptFreshResults`, `PromptCopyAfterInterrupt` and `PromptSessionAgreement`.
  `FreshResults` is not inductive: that the copied words are right needs that the answer is
  in the page while the client copies (`ResultInPage`), hence that the TA worked on this call
  with these descriptors (`Requested`, `Described`) and staged words (`StagedInPage`), hence
  that only one party works on the page at a time (`Turns`), and that the buffers still hold
  the challenge when a call begins (`ChallengeKept`). There is one lemma per conjunct and one
  step per action. `Turns` is where `Prompt` is used: `Wake` finds both doorbells silent.
  `PromptImplementsRpc` is the refinement of `PufRpc`: every store, doorbell and interrupt is
  a step of the sequential call or not seen by the caller.
- `FrameRxProofs`: `Invariant` (`Spec => []IInv`), hence `TypeCorrect`, `VerdictCorrect`
  (`FrameVerdict`) and `NothingBeyond` (`ReadsNoFurther`), for every length of sequences and
  payload and every set of streams. The invariant says what each buffer holds at each
  place: the window is the last bytes read and no start sequence has gone by
  (`Scanning`; `WindowMatches` ties the window to the stream), the payload is a prefix of
  the frame's (`Payload`), and behind it `seq_buf` is either the bytes of a stop sequence
  or, after a cut, still has a start byte (`Stopping`). The last is why the ignored result of
  `readExact` does no harm: it rests on the two sequences sharing no byte (`Distinct`).

- `ChallengeProofs`, for every pattern of `PatternAssumption` (at least one function, of one
  to four portions, each longer than an identifier): `Invariant` (`Spec => []IInv`), hence
  `TypeCorrect`, `NothingMixed` (`Integrity`), `AcksAgree` (`AckedIsAccepted`), `StayInStep`
  (`InStep`), `WaitsNeedLoss` (`MutualWaitNeedsLoss`) and `ImplementsHandover`
  (`HandoverSpec`). None of these is inductive, since what is accepted next depends on where
  the other side is and on what is between them. The invariant is about the two sides
  together. While they agree on the item (`InSync`) they are in one of nine arrangements:
  both at the item, either one gone on to the next while the other has yet to read the
  acknowledgement or to copy, the same where the direction turns, and both through; each says
  exactly what is in the two queues. A client that has lost its place either gave up an item
  on a broken connection (`Derailed`) or has no memory for what the server is about to send
  (`Lost`), and the proof is that nothing is accepted from then on. That is the reason why a
  failed `initFunc` that is only logged never mixes two functions up: an identifier and a
  portion differ in length, so the stop sequence is not where the reader looks for it.
- `TlsClientProofs`, on top of it: `ClientInvariant`, hence `ClientTypeCorrect`,
  `LabelsRight` (`LabelsHold`), `AllReleased` (`NothingElseKept`) and `ResultTells`
  (`ReturnTells`). What is acquired is a function of the place and of the call that failed
  (`Owned`, `Blamed`); the buffers exist only between the exchange and `cleanup` (`Freed`);
  the client's place among its responses and the log of acknowledgements agree (`Progress`),
  which is what `ret` tells (`Told`). The invariant of the exchange is part of it while there
  is a connection, and its lemmas are used for the exchange's steps as they are.
- `Uc1BuildProofs`, for any number of commands: `BuildInvariant`, hence `BuildTypeCorrect`,
  `FlashedAsBuilt` (`FlashedTogether`), `PagesAgree` (`IpcAgreement`), `VmsHaveRoom` (`VmsFit`)
  and `CryptPlaced` (`CryptInside`). The invariant says which step of which script comes next
  (`At`), what the steps before it have left in the tree and in `out` whatever was there when
  the command began (`Progress`), and that a hypervisor in `out` lies beside the VMs of its own
  build, which are what its configuration is for (`Coherent`), as one with a Zephyr VM0
  compiles only with that VM's entry (`NeedsVm0`). `IpcAgreement`, `VmsFit` and `CryptInside`
  speak of the images in `out`: a flash that stops half way leaves images of two builds on the
  board, and `FlashedTogether` is about the flash that succeeds. That the regions of each
  configuration are apart is computed from the addresses (`ConfigsSeparated`).
- `UartEchoProofs`, for messages and UARTs of any size, queues of two or more and any number
  of characters: `UartInvariant`, hence `UartTypeCorrect`, `LinesAccounted` (`Accounted`),
  `EchoExpected` (`ExpectedResponse`) and `EchoImplementsLineQueue` (`LineQueueSpec`).
  `rx_buf` is the line that began at `Begun[Seen]`, cut to its room (`Partial`); each line
  that ended is the next one in the order of screen, printer and queue, or dropped
  (`Counted`); and as long as no answer came late there is at most one message of
  `check_echo.py` on its way, or two once the greeting was taken for an answer, each before
  answered with itself (`Answered`).
  `Begun` is a recursive function of what was typed: the lemmas about it
  (`RecursionExists`, `RecursionPrefix`, `RecursionRange`) are proved by induction in the
  form of a statement about sets (`Induction`), which follows from the well-foundedness of
  the natural numbers.

The invariants of `TlsClientInv`, `Uc1BuildInv` and `UartEchoInv` were also put to TLC on the
instances of the runs of those components before they were proved; they are not kept as
runs, since the theorems say more.

Only model-checked: liveness (`Termination`, `SessionClosed`, `FrameDelivered`, `CloseEnds`,
`Completion`, `LinkLossEnds`, `SessionEnds`, `Starts`, `Echoed`), which is out of this
prover's reach. Every other property of a run that passes is a theorem; some of them
(`FreshResults`, `CopyAfterInterrupt`, `SessionAgreement`, `RpcSpec`) under `Prompt = Call`;
`puf_slow_copy` shows the second to be false without it. No module declares a RECURSIVE operator.

## Findings

1. `pufcaller.c:208` says "Give time to process, wait for interrupt"; the code sleeps and
   copies. A TA that takes longer than a second leaves stale words in the answer
   (`puf_slow_copy`).
2. The TA's verdict on a function is stored in `invoke_func_arg.ret` and never read; the driver
   returns 0. The error branch of `pufcaller.c:209-211` cannot be taken (`puf_errors`).
3. `session_arg.ret` is tested before a reply can have arrived and never written, so
   `pufcaller.c:196-198` does not notice a refusal (`puf_refusal`).
4. `echo_bot/src/main.c:28` says "Read characters from UART until line end is detected"; a
   line end that comes with `rx_buf` empty, as the second of CR LF, is stored as the next
   message's first character (`uart_lf`).
5. `puf_integration_without_wifi.c:70-71` counts on the crypto binaries at 0x70000;
   `build_puf` builds the PUF's VM before it rewrites the linker script (`uc1.sh:344`, `:347`),
   so that after `build_mtls_puf` in the same tree they lie in the other VM's flash
   (`uc1_crypt`).

Met on the way, and named as exceptions in the properties they limit:

- a failed `connect` keeps the socket, a failed `wolfSSL_CTX_new_ex` skips `wolfSSL_Cleanup`
  (`Kept` in `NothingElseKept`; `main` ends next, so that nothing follows from it);
- a failed `sendResponse` returns `WOLFSSL_SUCCESS`, a value no complete session returns,
  which ends with zero: some response was not acknowledged, though the server may have
  taken all of them and the last acknowledgement been lost (`ReturnTells`);
- a server that says nothing, or a link that is lost without a sign, keeps the client in its
  call for ever (`LinkLossEnds`, `SessionEnds`);
- after a lost allocation both sides can wait for each other for ever
  (`MutualWaitNeedsLoss`, `SessionEnds`);
- the RNG that VM0 of the TLS demo owns lies inside the region its VM1 is given for the PUF
  (`Separated`); the RAM of `single_zephyr` ends a page before that of the application built
  for it, and the overlay of the TLS demo, left in the tree, links the PUF's VM of `build_puf`
  into its neighbour, as does `build_mtls_puf` without it (`ForOtherDemo` in `VmsFit`); a misspelt `HV_CONFIG` builds the last configuration again
  (`Complete`);
- one late answer puts every later comparison of `check_echo.py` off by one, and so does the
  greeting, read for the first answer by a script that is there before the board prints it
  (`InTime`, `Behind` in `ExpectedResponse`).

## What is not modelled, and the plan

Not modelled: the demos, which only print; `parse_hex_blocks` of the PUF output converter,
one pass over a saved log whose result nothing in the system reads; the shell wrappers for the
probe; logging and debug dumps; certificate checks, `verifyIgnoreDateError` and
`user_settings.h` (switches of wolfSSL, which is external); the RPI_CBA build; characters a
UART loses by overrun, NUL characters, and the second UART, which is never enabled for
input. External, and modelled only from how the code uses them: wolfSSL, Zephyr, the
hypervisor, the TA, the server, and the tools that `uc1.sh` calls.

What is left:

1. The safety part of what is only model-checked: each liveness property rests on what a
   party that waits is waiting for, and that the one it waits for can move, which are
   invariants of the kind proved above (for `Completion`, that outside the exceptions one
   side always has a step).
2. Lemmas of the proofs that are about sequences and intervals only (`Along` and its
   pieces in `ChallengeProofs`, lines in `UartEchoProofs`), stated once for both.
