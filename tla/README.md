# Formal models of eos1

eos1 is a 32-bit x86 hobby kernel: a boot sector, protected-mode start-up,
interrupt dispatch through two cascaded PICs, a timer, a PS/2 controller and
device manager, and one device driver, for PS/2 keyboards. This directory holds
TLA+ models of the parts that interact, the TLC runs that check them, and
proofs checked with TLAPS. Paths in this file are relative to `src/`.

There is no scheduler. Three kinds of actors run:

- **main**: `kmain` sets up the screen, installs the interrupt gates and
  enables interrupts, initialises the PS/2 controller, installs the keyboard
  driver, and returns to an endless loop;
- **interrupt handlers**: timer, keyboard, mouse. They run with interrupts
  disabled, interrupt main anywhere, and do all the work after start-up;
- **devices**: PICs, PS/2 controller, keyboard. They run in parallel, send
  when they like, and may be slow, silent or wrong.

What is hard here follows from that: main's multi-step updates of tables that
handlers read; a protocol with the keyboard driven by single-byte interrupts;
waits inside handlers for time that does not pass there; and counters, queues
and buffers at their limits. The build has no `-O` (`makefile:20`), so memory
is accessed as the source says.

## Inventory

| component | files | state | operations | interacts with | what makes it correct |
|---|---|---|---|---|---|
| Interrupt dispatch, PIC | `kernel/interrupts/{isrs.c,isr_stubs.s,irqs/irqs.c}`, `drivers/pic/pic.c` | PIC in-service registers, interrupt flag, stack of frames | gates and stubs, `interrupt_handler`, `irq_handler`, `handle_if_spurious`, `pic_send_eoi`, `pic_remap` | calls timer and PS/2 handlers | handlers exclude one another; each interrupt is ended once, at the right PIC; no request is lost |
| Timer | `kernel/interrupts/irqs/timer/timer.c` | `ticks_since_boot`, callback table | `install_intervaled_callback`, `intervaled_callback_update_interval`, `irq0_handler` | main installs, ticks call the echo callbacks; the PS/2 waits read the counter | only complete entries are called, each at its interval, again and again |
| PS/2 port access | `drivers/ps2/ps2.c:187-260,637-661` | controller's two buffers, time-outs | waits, `ps2_send_cmd`, `ps2_send_byte`, `ps2_receive_byte` | main and handlers call it; reads the tick counter | nothing overwritten, bytes reach the device meant, waits end |
| PS/2 initialisation | `drivers/ps2/ps2.c:327-560` | `ps2_devices` | `ps2_init`, `ps2_reset_device`, `ps2_get_device_id` | port access, timer | it ends; every device that passes its tests is identified; nobody else takes the answers it polls for; time-outs are noted at the right device |
| PS/2 device manager | `drivers/ps2/ps2.c:562-622,699-778` | `ps2_devices`, `ps2_device_drivers` | driver installation (main), driver search, device interrupts, two echo callbacks | calls the driver's three functions; called by the dispatch and the timer | only connected drivers are called; every device some driver takes is served; silent devices are reported |
| Keyboard driver, commands | `drivers/ps2/ps2_keyboard/ps2k.c:267-478` | per device a command queue, response count, scancode set | `on_connect`, `send_echo`, `irq_handler`; queue, send, pop; answers of four commands | device manager above, port access below | one command at a time; answers and keys are not mixed up; keys are parsed in the keyboard's set |
| Scancode parser | `drivers/ps2/ps2_keyboard/{ps2k.c:154-253,ps2k_scancodes.c}` | sequence buffer, two flags | `ps2k_parse_byte` | gets what no command claims, calls `declare_keystroke` | keys are declared as struck; recovers from unknown bytes |
| Keystrokes | `drivers/ps2/ps2_keyboard/keys.c` | none | `declare_keystroke` prints | text mode | every keystroke has a line of its own |
| Text mode | `kernel/text_mode.c` | cursor, screen | print, wrap, scroll | called by main and handlers, unprotected | the screen shows what was printed; a disturbed cursor comes back to it |
| Memory primitives | `libc/memmove.s`, `libc/memset.s` | none | copy, fill | text mode, keyboard queue | overlapping copies are right |
| Boot | `boot/mbr.s`, `kernel/kernel_entry.s` | none | loads the kernel, enters protected mode | | the image fits below the loader |
| GDT, IDT, port I/O, paging, build | | constants | | | not modelled |

The hazards of each, at their lines, and the properties that watch them are in
`PROJECT.json`.

## Modules

| module | models | state and actions in the code |
|---|---|---|
| `CommandPipe` | abstract: what the keyboard's command queue promises | `Submit` a batch, the keyboard `Execute`s one command, the driver `Retire`s it |
| `Ps2Keyboard` | the queue in `ps2k.c` and the keyboard behind it | `kbd` is `ps2k_devices`; one action per entry point (`SendEcho`, `Irq`), since entry points run in handlers; queue operators map the record before a call to the one after; `port` (bytes) and `toHost` are the wire; `Execute`, `Reject`, `AskResend` are the keyboard taking one byte |
| `Ps2Keyboard_proofs`, `Ps2Devices_proofs`, `Interrupts_proofs`, `Timer_proofs`, `Ps2Init_proofs`, `Ps2Stack_proofs`, `ScancodeParser_proofs`, `TextMode_proofs` | theorems about the module of that name; `Timer_proofs` also about `Ps2Port`, `TextMode_proofs` about `MemMove` | |
| `Ps2Devices`, `Ps2DevicesMC` | the device manager | `dev` is `ps2_devices`; handlers are atomic actions; `ps2_install_device_driver` is one action per memory access, `pc`, `reg` and `flags` being main's registers |
| `Interrupts` | PICs, CPU flag, stubs, dispatch | `stack` holds the stub frames with the step `interrupt_handler` is at; `Enter` its `cli`, `IrqHandler` the body, `Leave` its `sti`, `Return` the `iret` |
| `ScancodeTables`, `ScancodeParser`, `ScancodeParserMC` | tables and parser | `parser` is the parser's part of `ps2k_device`; `Receive` parses one byte with `ParseByte`, a function of state and byte |
| `Ps2Port` | the waits, sending and receiving | `place` is the place in the call; a wait is the round that ends it; `ibf`, `obf`, `prefixed` are the controller |
| `Ps2Init` | `ps2_init` and the functions it calls | `pc` is main's place and the device it is busy with, `byte` the argument of `ps2_send_byte`; a wait and the access behind it are one action; controller, devices, a user who types and `Irq1` run beside it |
| `Ps2Stack` | `ps2.c` with `ps2k.c` as its driver | `Ps2Devices` and `Ps2Keyboard` by `INSTANCE`; the joint actions are the two callbacks and `DeviceIrq`, where `ps2.c` calls the driver |
| `Keystrokes` | `keys.h`, `keys.c` | pure: the keycodes, their characters, `declare_keystroke` as the pieces it prints |
| `TextMode`, `TextModeMC` | printing and scrolling | `Main` is `print_char` one access to cursor or screen at a time, `reg` the register in between; `Interrupt` is a handler's whole text |
| `MemMove` | `memmove`, `memset` | pure: a copy is the fold of its byte moves, in the order of `rep movsb` |
| `Ticks` | the counter of ticks | `ticks` is `ticks_since_boot`, as `Timer` writes and `Ps2Port` reads it |
| `Timer` | the callback table and the tick | installation is one action per store, in any order within the struct assignment; `Irq0` is a whole tick |

How they fit: `Interrupts` shows that handlers exclude one another, and the
other modules take from it that a handler is one step. `Timer` shows that the
echo callbacks come in turn; `Ps2Devices` takes that. `Ps2Devices` leaves open
what a driver does with a call; `Ps2Keyboard` fills that in, with
`ps2_device_find_driver`'s call of `on_connect` in `Selected`. What
`Ps2Keyboard` hands on, `ScancodeParser` parses. `Ps2Keyboard` appends to the
wire where the code calls `ps2_send_byte`; that call is `Ps2Port`, and its
failures appear as lost bytes (the driver ignores the result).

`Ps2Stack` composes the two: it takes `ps2.c`'s flags and main's installation
from `Ps2Devices`, and the queue, the wire and the keyboard from `Ps2Keyboard`,
and its property `KbdSpec` says that what `ps2.c` does to a driver is what
`Ps2Keyboard` assumes of it; `Ps2Stack_proofs` proves that and carries the theorems
about both over. The installation is one access at a time there too, and comes at
any time: before the first search, as `kmain` does it (`kernel.c:15`), or after it. `Ps2Init` ends where `Ps2Devices` begins; `Ps2Port`
refines the waits that `Ps2Init` takes as one step. `ScancodeParserMC` checks what
`Keystrokes` prints for every key, and `TextMode` uses `MemMove` to scroll.

History variables (`connected`, `elapsed`, `cut`, `since`, `written`, `uids`,
`due`, `behind`, `served`, `declared`, `text`, `disturbed`, `calm`, `stored`, the `from` of a
byte on the wire) are marked; no action of the code
reads them. Definitions named `X_Something` under "Mutation" are faulty variants
of `X` that show that a property can fail; nothing else uses them.

## What is assumed of the environment

- *The query for the scancode set.* `ps2k.c:449` writes it as two bytes, 0xf0 and
  0x00, and reads no answer in between; what it does with the answers
  (`ps2k.c:453`) is right for one acknowledgement and the set. `Ps2Keyboard` has
  both kinds of keyboard. With `Prompt`, each byte may be answered, or not, and the
  keyboard may ask for each to be resent. Without it, a keyboard answers only the
  last of the bytes it finds: what is sent behind a byte at once makes it drop its
  answer to that byte. The safety of keys (`KeysReachParser`, `ParsedInItsSet`,
  `QuietInv`), `KbdSpec` and what `Ps2Stack` says of queue and complaints are of
  every keyboard: `keyboard` checks the first three of a prompt one, and the theorems
  are about both kinds. `StopAndWait`, `RepliesReachCommand`, `ScancodeSetLearned`,
  `PipeSpec`, `EchoAnswered` and `TypingStarts` are of keyboards that are not prompt;
  with a prompt one the answers to the query belong to no command any more, and
  `keyboard_query` shows how (Findings).
- *A queue that is overrun ends the model.* `ps2k.c:338` writes a 16-entry array
  without a check; the 17th command overwrites `waiting_for_response`,
  `current_response_length`, `response` and the first bytes of the next keyboard's
  record. `QueueCommand` sets `overrun` instead, and nothing is modelled from there
  (`Intact`).
- *A call through an empty table entry ends the model* (`wild`).
- *One driver.* The repository installs one, and that never fails. `Ps2Devices` takes
  any sequence of drivers and lets them fail (`Fallible`); `CallsConnected` is about
  one driver (`OneDriver`), since with two it is false (see below, `ps2.c:568`).

## Runs

Every run terminates in seconds to about two minutes. "Violation" runs check one
sentence of a comment or header against the code.

| run | shows | bounds |
|---|---|---|
| `keyboard` | of every keyboard, with losses: the inductive invariant `QuietInv`, no key taken for an answer, none parsed in the wrong set, and a loss stalls the queue until it is overrun | one keyboard; a key byte that is also a set number (2) and one that is not; 5 queued commands (the code's 16 scaled down) hold a query behind its echo and one more, and are overrun; `ResendBound`, `WireBound`: both bytes of the query with answers and a key |
| `keyboard_query` | violation: a command retired before all its responses are in | a prompt keyboard that understands every byte |
| `devices_install` | one driver installed under interrupts, before and after a first search: no unconnected driver called outside the window, no stale flags, nobody revived but by the write-back, devices served, silence reported | keyboards with short and long ids and a mouse, in both ports; a driver that may fail; only the first port interrupts, since the second one's lines are renumbered (Findings) |
| `devices_race` | violation: a call through an empty table entry | the repository's driver, two keyboards |
| `ps2_init` | `ps2_init` ends, working devices are identified, the interrupt handler takes no answer, interrupts are enabled for working ports, time-outs are marked where the code marks the right device | in the first port a keyboard that answers either way round, one that fails, and none; in the second also a mouse; single and dual controllers; failing tests; a controller so slow that time-outs pass; one key: the answers it can be taken for are all different |
| `init_typing` | violation: a port that is said to be disabled sends a key | one keyboard, one key |
| `ps2_stack` | the driver is used as `Ps2Keyboard` says, the queue's bound, no false complaint; not prompt: stop-and-wait, every reply claimed, refinement of `CommandPipe`, echoes answered, typing starts also if no key is ever struck | key byte 2; `Late`: three callbacks unanswered are an echo interval and the next request, a second echo on top of an unanswered one; `ResendBound`, `WireBound` 2: both bytes of the query, an answer and a key. The 16 entries are not filled: that they last for 26 callbacks is `QueueFills`. Prompt keyboards are in `keyboard`, and in the theorems |
| `interrupts_master` | exclusion, master PIC consistent, ticks and keys get through, with spurious interrupts of both PICs and a slave that is never told of an end | timer, keyboard, IRQ 7, mouse; two frames deep: three deep adds nothing, since all frames but the top one are at their `iret` (`HandlersExclude`) |
| `scancodes` | all keys of the real tables, in any order, each with a line of its own; buffer bound, flags and resynchronisation after foreign bytes | the full tables and the code's limit of 10 bytes until the first foreign byte; after it a few keys (`AfterNoise`: keys that exist with and without the prefix, or with only one of the two), and one more foreign byte. The mutant `Resynced_Late` shows that the limit is reached |
| `port_timeouts` | waits with a wrapping counter and a hanging controller; which bytes go to the wrong device | 5 tick values, time-outs of 2 as in the code: every wait can wrap |
| `timer` | publication order, spacing, recurrence | two entries, intervals 2 and 3, one update; 10 tick values, a multiple of 2 and not of 3, so that both kinds of wrap occur |
| `text_mode` | what the screen shows, how far a disturbed store can go, that the cursor recovers; copies and fills in both directions | 2 lines of 2 characters and a byte of 6 values (three lines and less than four, as 256 is of 80 columns): wrapping, scrolling and a byte that wraps around all occur; 6 characters are three lines; copies over all overlaps in 6 cells |

Deadlock is checked except where the system really stops: when the queue is
overrun (`Ps2Keyboard`, `Ps2Stack`), after a wild call (`Ps2Devices`, `Ps2Stack`),
when a controller hangs under a handler (`Ps2Port`), when `ps2_init` has returned
(`Ps2Init`), and in `text_mode`, whose text is bounded.

## Fairness

- `Ps2Devices`: weak for main and the two callbacks (main's loop has no waits,
  the timer ticks).
- `Interrupts`: weak for the CPU's steps, strong for accepting a request (it is
  enabled between any two handlers).
- `ScancodeParser`: bytes arrive, and keys go on being struck;
  resynchronisation needs a next key.
- `Ps2Port`: weak for the caller, the timer and a controller that has not
  hung; strong for the end of a wait, which polls thousands of times per tick.
- `Timer`: weak for the tick.
- `Ps2Init`: weak for main (it polls), for the controller (it takes what it is
  given) and for each device (it sends when its port has a clock and the buffer
  is free). Time-outs, keys and interrupts need not happen.
- `Ps2Stack`: that of `Ps2Devices` for main and the joint actions, weak for
  `DeviceIrq` (a full output buffer keeps its interrupt raised), for the scancode set
  owed (`TellSet`) and for the refusal of an argument without a command (`Reject`);
  strong, byte by byte, for `Execute` (the keyboard does not ask for the same byte to
  be resent for ever); all while there has been no wild call and no overrun.

## Proofs

Every theorem holds for every value of the constants that its module's assumption
admits; the conditions in a statement are explained below.

| module | theorem | states |
|---|---|---|
| `Ps2Keyboard_proofs` | `QuietAlways` | `Spec => []QuietInv` |
| | `KeysAreParsed` | `Spec => []KeysReachParser` |
| | `ParsedInSet` | `Spec => []ParsedInItsSet` |
| | `NoWayBack` | `Spec => StallsForEver` |
| | `Invariance` | `~Prompt => (Spec => []IInv)` |
| | `OneAtATime` | `~Prompt => (Spec => []StopAndWait)` |
| | `RightSet` | `~Prompt => (Spec => []ScancodeSetLearned)` |
| | `AllAnswersClaimed` | `~Prompt /\ ~Lossy => (Spec => []RepliesReachCommand)` |
| | `ImplementsPipe` | `~Prompt /\ ~Lossy => (Spec => Pipe!Spec)` |
| `Ps2Stack_proofs` | `Invariance` | `Spec => []StackInv` |
| | `QueueFills` | `Spec => []QueueBounded` |
| | `NoComplaint` | `Spec => []NoFalseAlarm` |
| | `ImplementsKeyboard` | `Spec => KbdSpec` |
| | `KeysUnderPs2` | `Spec => []...`: `KeysReachParser` and `ParsedInItsSet` of `Ps2Keyboard` |
| | `DriverUnderPs2` | `~Prompt => (Spec => [](StopAndWait /\ RepliesReachCommand /\ ...))`: and `ScancodeSetLearned` of `Ps2Keyboard` |
| | `ImplementsDevices` | `Spec => DevsSteps`: initial states and steps of `Ps2Devices` |
| | `ManagerWithKeyboard` | `Spec => []...`: `CallsConnected` and `NotFoundJustified` of `Ps2Devices` |
| | `TameWithKeyboard` | `Spec => Devs!WildOnlyMoved` |
| `Ps2Devices_proofs` | `ConnectedCalls` | `OneDriver => (Spec => []CallsConnected)` |
| | `NoStaleFlag` | `Spec => []NotFoundJustified` |
| | `TameCalls` | `Spec => WildOnlyMoved` |
| | `GivenUp` | `Spec => RevivedOnlyByWriteBack` |
| `Ps2Init_proofs` | `SetUpInOrder` | `Spec => []Order` |
| | `AnswersAreKept` | `Spec => AnswersKept` |
| | `TimeoutsAreNoted` | `Spec => []TimeoutsNoted` |
| | `DevicesAreIdentified` | `"mouse" \notin FirstDevices => (Spec => []Identified)` |
| | `PortsAreConfigured` | `"mouse" \notin FirstDevices => (Spec => []Configured)` |
| `Interrupts_proofs` | `Exclusion` | `Spec => []HandlersExclude` |
| | `EndedOnce` | `Spec => []MasterInService` |
| `Timer_proofs` | `OnlyCompleteEntries` | `Spec => []Complete` |
| | `CallsAreSpaced` | `Spec => EvenlySpaced` |
| | `BytesArrive` | `PortSpec => []RightDevice` |
| | `NoEarlyTimeout` | `PortSpec => TimeoutsAreReal` |
| `ScancodeParser_proofs` | `BufferSafe` | `Spec => []FlagsExplained` |
| | `DeclaredAsStruck` | `AllRecognised => (Spec => KeysAsStruck)` |
| `TextMode_proofs` | `ScreenShowsText` | `Spec => []ShowsText` |
| | `StoresAreBounded` | `Spec => []StoresBounded` |
| | `TextRecovers` | `ByteRange <= 4 * Width - 2 => (Spec => []Recovers)` |
| | `MemoryIsMoved` | `Spec => []MemoryMoves` |
| | `MemmoveCopies`, `MemsetFills` | `memmove(...) = Moved(...)`, `memset(...) = Filled(...)`, on every memory |

`TypeCorrect`, `DevicesTypes`, `InterruptsTypes`, `TimerTypes`, `PortTypes` and
`ParserTypes` say that the variables keep their types.

- *Keyboard*, for every set of devices, every set of key bytes without the three
  answer codes (`KeyByteAssumption`) and every bound. `TypeOK` is inductive by itself.
  There are two arguments.

  *Every keyboard*, with losses or not (`QuietInv`). A key is told from an answer only
  because, when the query that takes any byte is at the head of the queue, the
  keyboard is silent; that holds because its `DISABLE_SCANNING` went right before it,
  which has to be tracked from the moment the three commands are queued
  (`QueueShape`), through the acknowledgement that may lie behind keys on the wire
  (`Disabling`: nothing else is under way when the bracket is opened, for it is
  opened by `on_connect`), to the query, while which nothing but answers to its bytes
  can come (`Asking`). So what is taken for the set is the set, 0xfa or 0xfe, and
  neither of the last two makes the driver parse anything. `keyboard` checks
  `QuietInv` on the small instance. Behind the query nothing is claimed about the
  order of answers: there is none.

  *A keyboard that is not prompt* (`IInv`): `Silent` (no scanning and no keys once the
  query is at the head, none behind the acknowledgement of its `DISABLE`),
  `Outstanding` (the bytes under way are of the head command; at most one answer under
  way, or the query's two in order). It is the conjunction over devices of a predicate
  on one device's state; each step is brought to one form, of one device (`Happens`),
  and each invariant is shown of that form. With losses
  `AllLearned` holds as well: a set on the wire is the keyboard's. Without them,
  `AcksFirst` adds that an acknowledgement is read before the set, so that every
  answer is claimed; and each step is a `Submit`, `Execute` or `Retire` of `CommandPipe`
  or none: what the driver has queued is split by `HeadExecuted` into what the keyboard
  has yet to do and what it has done, and a request to resend moves nothing across.
- *Stack.* `StackInv` follows the one installation (`Phase`: before it, raising,
  clearing, installed), at any access of which an interrupt may search, connect the
  driver, or make the wild call; bounds the queue by the callbacks that have come since
  it was empty (`Backlog`: each pair of callbacks adds one command at most, so that 16
  commands cannot be exceeded before the 27th callback); and says what became of the
  last request (`Requested`). The flags that main has fetched may be older than those
  it writes them over, the echo flag among them: `declared` is what `send_echo` and the
  driver made of it, and it is that which `Ps2Keyboard` sees. (`NoFalseAlarm` is about
  the flag itself, from the first request on that found no installation under way.)
  `KeysUnderPs2` and `DriverUnderPs2` then take their invariants from
  `Ps2Keyboard_proofs`, of which `KP` is an instance; the `Same...` lemmas say that `KP`
  and `Kbd` are one specification. On the other side, the driver does nothing that
  `Ps2Devices` does not leave open to one (`ImplementsDevices`), so that
  `ManagerWithKeyboard` and `TameWithKeyboard` have theirs from `Ps2Devices_proofs`
  (`DP`), by the invariant `DevicesInv` of that module: `Ps2Devices`' own `Spec` has a
  fairness that the steps alone do not give.
- *Devices*, for every sequence of drivers and with searches at any access. `Room`
  says what the table holds; `Assigned` that a driver's number is ahead of the amount
  in one window only, between its increment and that of the amount (`Moved`): there a
  device that does not search finds the empty entry, or, when a driver was connected to
  another device before, a complete one that was never connected. `Connected` says, with
  one driver, that outside this window a device searches or has its driver; a search in
  the middle of an installation finds nothing then, since there is nothing before the new
  entry. `Justified` says what a cleared flag means: a search that set it again has seen
  the new entry. What an interrupt may do to a device is one predicate, `Kept`.
- *Initialisation*, for all devices that `Behaviour` lists, in any port. `Order` says
  for each place of `ps2_init` what the configuration, the wires and the
  controller's buffers hold as long as no key is struck: the first port's clock is
  off until its interrupt is, and that stays off until the last configuration is
  written, so that `irq1_handler` does not run while main polls. `Noted` needs less
  and holds with keys and time-outs: to whom main sends at each place (`Placed`), and
  that whoever let it wait for the reset is marked, and the first device for its
  identity. `Course` says what main has found out so far, and what is still under way at
  each place: the answer that a device owes (`Pending`), what is left of the one before
  (`Stray`), which the loop that waits for the ack passes over, or nothing (`Lull`). `Learning` is the part up to
  the tests of the ports, `Trying` the reset and identification of each device,
  `Ending` the last configuration. A mouse in the first port is excluded because the
  two theorems are false with one: TLC finds a counterexample to each (see Findings).
- *Interrupts.* Only the innermost interrupt can be in service, and is exactly until
  its EOI (`ServedIsTop`); hence the frames below it are at their `iret`. A spurious
  interrupt of the slave is in service at the master, one of the master's own nowhere.
- *Timer.* `TimerInv` says what the stores of the installation under way have written
  and which slots the identifiers stand for: `update` is called with those only.
  `OnTime` relates the ticks since a call to the counter modulo the interval, without
  a wrap and behind one; the lemmas on remainders are in the module.
- *Port.* The controller holds `0xd4`, or expects the byte behind it, while a call has
  announced one, and behind a call that was cut until the next byte (`InStep`).
  `Counted` bounds what a wait reads off the counter by the ticks that have passed.
- *Parser.* `Explained`, of one state of the parser, holds of what `ParseByte` makes of
  it, for each of the four ways that a byte can go. `DeclaredAsStruck` is about any
  tables that know a stroke by all of its bytes and no key by the first ones only
  (`Recognised`); that the program's tables do is `StrokesRecognised` in
  `ScancodeParserMC`, which `scancodes` evaluates. Then the parser is clean between
  strokes, and in the middle of one holds the bytes that have come (`Midway`).
- *Text mode*, for every size of the screen, every width of a byte that the screen's
  sides fit in, and all texts. What a handler prints, what a copy does and what the
  scrolling loop does are folds over sequences of any length. The library's
  induction cannot be used (it takes an operator), so induction is `UpTo`, about the
  *set* of the numbers that have a property, from the least element that a set of
  numbers has; and a fold is a chain of states each of which comes from the one
  before by one element (`FoldExists`, `FoldRuns`). With that `memmove` copies
  (upwards, what has been written lies below what is still to be read; downwards,
  above), a scroll is `Lines(scr, 1)`, and n of them `Lines(scr, n)`.

  `StoreInv` is why a disturbed store is bounded: between the test of the row and the
  store a handler can change the row, but every character it prints leaves the
  cursor in a line of the screen; only the column is unbounded, and that is a byte.
  `CalmInv` is why the cursor recovers: a call takes one line's width off the column
  and adds one, so that the columns it can be in after n calls (`Reach`) shrink to a
  line in three, if a byte reaches less than four lines far. The code's 256 is below
  `4 * 80 - 2`; with 64 columns it would not be. `TextInv` is why the screen shows the
  text: `Outcome` is what main's call will have printed, from wherever it is;
  no access of main changes it (`OutcomeKept`), and each character puts one on the
  sheet (`ShowsPut`).

Only model-checked:

- liveness (`EchoAnswered`, `Served`, `SilenceReported`, `TickAndKeyServed`,
  `MainReturns`, `CalledAgain`, `Resynchronises`, `InitEnds`, `TypingStarts`), which is
  out of TLAPS's reach, as is the fairness half of `PipeSpec`;
- `LinesTellKeys`, which is about the program's tables as they are.

## Findings

Each has a run whose counterexample shows it; `PROJECT.json` quotes code and
comment.

- `ps2.c:567`: a wild call when an interrupt hits the installation of a driver
  (`devices_race`), between the increment of a device's number and that of the amount.
  It needs a device that no one has searched a driver for yet, which is what `kmain`
  leaves unless a tick or a key comes between `ps2_init` and the installation.
  `WildOnlyMoved` says that there is no other way to one.
- `ps2k.c:453`: a keyboard that acknowledges both bytes of the query has its second
  acknowledgement taken for the set (`keyboard_query`): the driver stores 0xf9, for which
  `ps2k_parse_byte` has no case, and no key is ever declared. The set itself is parsed as
  a scancode, and dropped for the same reason. `ParsedInItsSet` says that nothing worse
  happens: no keyboard is parsed in another's set.
- `ps2.c:439`: the first port is enabled again before the tests that it was
  disabled for, and a key is taken for the answer to the self test
  (`init_typing`). A key at other moments is taken for a port's result, a reset
  answer or the configuration, which is then written back; what `ps2_init` shows
  about the outcome is therefore about runs in which nobody types.

Divergences met on the way, which the models follow and no run is devoted to:

- `ps2k.c:338` writes the command queue without a check: `QueueBounded` gives its
  length by the callbacks that the keyboard lets pass, and it can be overrun from the
  27th on; a keyboard that lost an answer (`StallsForEver`) never gets
  out of that, `ps2k.c:10` asks for it;
- `irqs.c:15` numbers the slave's interrupts from 0 to 7: `pic_send_eoi` never ends one
  at the slave, which `pic.c:35` means to do, so that it is blocked after its first one
  (the model's `isrS`), and the mouse's is handled as IRQ 4;
- `ps2k.c:193` looks single bytes up before it tries the matching list, so Pause is
  declared as Left Ctrl and Num Lock; the struck keys of `scancodes` leave it out;
- `ps2.c:229` counts ticks, which stand still in interrupt handlers, where the
  driver sends, so that a wait for a controller that hangs does not end there, against
  `ps2.c:109`: `MainReturns` is about calls from main;
- `ps2.c:377` marks the first device when the second one is asked for its identity and
  times out, against `ps2.c:513`; `TimeoutsNoted` says which marks are right;
- `ps2.c:203` waits for a byte with the wrong status bit. The bytes behind a reset
  are then not flushed and the second byte of an id practically never read, so
  that keyboards are found by the first byte of their id. A mouse in the first
  port leaves the third byte of its reset answer to the second device, which is
  then rejected; a byte of its own answer can then be taken for the configuration, which
  is written back. The instances of `Ps2Init` have no mouse there, and
  `DevicesAreIdentified` and `PortsAreConfigured` exclude one;
- `ps2.c:646`: a time-out behind `0xd4` leaves the controller expecting a byte
  for device 1, and the next one for device 0 goes there; `RightDevice` says that no more
  than one does;
- `ps2.c:568`: with a second driver, a device that another one was connected to calls the
  new one, in the window of `devices_race`. The repository installs one driver;
- `ps2.c:573`: clearing one flag writes all eight back, and revives a device that its
  driver gave up meanwhile; `RevivedOnlyByWriteBack` says that nothing else does. The
  repository's driver never gives one up;
- `ps2.c:732` complains of devices that were never asked for an echo, an absent
  second device included; `NoFalseAlarm` starts with the first request that found
  the driver;
- `ps2.c:591` gives a driver for a long id a device with another id that begins
  with the same byte, which `ps2.h:29` does not promise;
- `irqs.c:26` is always false by operator precedence: spurious interrupts are
  ended as real ones;
- `ps2k_scancodes.c:190`: the entry of Volume Up says that it does not exist, and
  `:71` enters the comma key as the dot; `KeysAsStruck` is about the table's keys;
- `timer.c:41`: an offset that is not below the interval is never met, and two
  calls around the wrap of the counter are closer than the interval.

## Not modelled

Exceptions, the vector table's missing last entry, GDT, IDT, port I/O: constants
and straight-line code without a state that a property could be about. The
boot sector: sequential code under the BIOS. Paging: types only. `io.s`: single
instructions. What an overrun of the command queue overwrites, and what the processor
does after a call through an empty entry. The PIC masks, and the printing of 32-bit
and binary numbers and of memory blocks: nothing calls them.

Of what is modelled, these details are left out: colours; which port an id is
printed for at the end of `ps2_init`; the mouse's bytes while `ps2_init` runs (the
second port's interrupt is off then, and the mouse sends only answers); interrupts
inside the copy of a scroll, which is one step of `TextMode`. `Ps2Init` assumes that
the two ticks of a time-out suffice for a device to send what it has (`Settled`).

## Plan

Done: all components whose state changes, their composition, and the proofs of every
safety property but those listed under "Only model-checked".
