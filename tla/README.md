# A TLA+ model of njuos

njuos is a teaching kernel for one x86 CPU, built as a microkernel: everything
above the scheduler, the semaphores and the message boxes is a kernel thread
(*server* or *driver*) that receives requests and sends answers.  This directory
models the kernel in TLA+, checks the models with TLC on small instances, and
proves the central results with TLAPS for every instance.

Contents: [inventory](#inventory) · [modules](#modules-and-the-code) ·
[runs](#runs) · [bounds](#bounds) · [fairness](#fairness) · [proofs](#proofs) ·
[disagreements found](#where-the-code-disagrees-with-its-comments) ·
[not modelled](#what-is-not-modelled) · [plan](#plan)

## Inventory

Paths are relative to `src/src/kernel/` of the repository unless they begin with
`src/`.

| component | state | operations | correct when |
|---|---|---|---|
| lists (`src/include/adt/list.h`) | next/prev pointers | add before/after, delete | a node is in one list, once |
| scheduler and PCB lists (`process/sleep.c`, `schedule.c`, `util.c`) | ready ring headed by the idle context, `wait_head`, `free_pcb`, `current`, `pre_current` | `sleep`, `wakeup`, `schedule`, `lock`/`unlock`, `create_kthread`, `wrap` | no PCB in two lists or in none; idle only when nothing is ready |
| semaphores and messages (`process/semaphore.c`, `message.c`) | per PCB `MSG_NUM` nodes, a queue, `any_sem`, one `pid_sem` per possible sender | `P`, `V`, `send`, `receive`, `init_msg` | two semaphores per message agree with the queue, no wakeup is lost, assertions hold |
| interrupts (`irq/irq_handle.c`) | the trap frame of `current` | dispatch, system calls, exceptions, reschedule | a fault in a process does not stop the kernel |
| process manager (`manager_server/pcb_manager.c`) | `ppid`, `is_used`, `parent_wait` per PCB | create, fork, exec, exit, waitpid | acts on processes that are asleep; every request is answered; a waiting parent is woken |
| memory manager (`manager_server/memory_manager.c`) | page bitmap, page tables | create space, copy for fork, exec, exit | frames are accounted for and private; programs are loaded as linked |
| copies between address spaces (`src/src/lib/kcpy.c`) | none | copy in, copy out, string length | exactly the bytes of the buffer |
| timer driver (`drivers/timer/timer.c`) | delta queue of sleepers, pool of nodes, clock | add, tick | each sleeper is woken in its second |
| terminal driver (`drivers/tty/`) | per console a line buffer, a ring of cooked bytes, kept reads | keys, reads, writes | the reader gets the lines as edited, each byte once |
| disk driver (`drivers/ide/`) | direct-mapped write-back cache, drive | read, write, write-back, interrupts | reads see writes, eviction loses nothing, requests complete |
| RAM disk (`drivers/ramdisk/`) | the bytes of the disk | read, write | every request answered, bytes kept |
| file server (`file_system/`) | descriptors, open-file entries, vnodes, inode and block bitmaps, directories | open, close, read, write, seek, dup, create, delete, mkdir, rmdir, ls, cd; for the process manager: descriptors at create, fork and exit | counts agree with what is open; the directories are a tree; every block is in one file or free; a file is the bytes written to it |
| device registry (`drivers/hal.c`) | name to driver and sub-id | register, `dev_rw` | filled once at boot |
| system calls (`system_call/`) | none | one request per call | the caller sleeps until the answer |
| boot loader, segments, kernel page table, `printk` | hardware tables | straight-line code at boot | out of scope |
| shell and user programs (`src/shell`, `src/program_file`) | user memory | any system calls | out of scope |

**How the parts interact.**  A client sends a message and receives from the
server: process → process manager → memory manager → file server → RAM disk or
`ttyd`.  Two drivers answer later than they receive (a read without a line, a
sleep), and then from, or because of, an interrupt handler.  The process manager
also acts directly on other threads' PCBs: it copies stacks, resets boxes, moves
PCBs between lists.  Interrupt handlers send messages signed `MSG_HARD_INTR` or,
for the timer, with the timer thread's pid.

**What is hard.**  `send()` runs inside interrupt handlers; each message is
counted twice; `fork`, `exec` and `exit` rest on the caller being asleep; servers
wait for each other; PCB numbers are reused; several pools have no check for
being empty; frames, blocks, cache slots and buffers are reused with their old
content; open files, vnodes and inodes on disk are three copies of one thing; four
routines compute the place of a byte of a file independently.
`PROJECT.json` lists these hazards with their lines and the properties for them.

**Interrupts and atomicity.**  `lock()` executes `cli`; `unlock()` executes `sti`
only if the interrupt flag is already set, which after a `cli` it is not.  A
kernel thread that has once called `lock()` therefore runs with interrupts
disabled until it sleeps.  So the steps of `Kernel` are stretches of code between
two places where a thread can lose the CPU, and an interrupt arrives only in the
idle loop, in user mode, or in a thread that has not called `lock()` yet.
`Kernel` allows all three; `Services` leaves out the last one (the handful of
instructions before the first `receive()` of a new kernel thread).

## Modules and the code

`PROJECT.json` maps every definition to its lines.

| module | models | notes |
|---|---|---|
| `Lists` | `list.h` | circular lists as sequences: the ring is a sequence whose first element is the head |
| `Kernel` | scheduler, PCB lists, semaphores, messages, interrupt entry and exit | open: any thread sends to any and receives from any; one action per primitive, `receive()` in three steps (first `P`, second `P`, taking the message) because a thread may sleep in the first two |
| `Mailbox` | abstract: one box per thread, oldest matching message first, each once | `Kernel` implements it |
| `Services` | programs of the servers, drivers, gettys, system calls and interrupt handlers, over `Kernel` | a thread's program is the sequence of sends, receives and local operations still to do |
| `System` | the operations of the process manager; `Services` closed to one specification | from the state `init_proc()` leaves to processes that fork, exec, wait and exit |
| `Timer` | `timer.c` with its loops node by node | `left` holds, independently, the seconds each sleeper still has |
| `Ide` | `ide.c`, `cache.c`, `disk.c` | `ideal` holds, independently, the bytes last written |
| `Console`, `LineEditor` | line editing and the cooked ring of `console.c`; abstract: a line with a cursor, a byte stream | `Console` implements `LineEditor` |
| `Paging` | page-table walk, `physical_addr()` | |
| `Memory`, `AddressSpaces` | frames, page tables and the four requests of `memory_manager.c`, and the arguments `exec()` carries from the old image to the new one with the loops of `kcpy.c`; abstract: a private memory per process | `Memory` implements `AddressSpaces` |
| `FileData`, `PlainFiles` | blocks, bitmap and the two index levels in use of `fm_syscall.c`: reading, writing block by block, cutting, removing a directory entry; abstract: a file is a sequence of bytes | `FileData` implements `PlainFiles` |
| `Directories` | inode numbers and the tree: lookup, create, mkdir, delete, rmdir | operators on the state of `FileServer` |
| `FileServer`, `OpenFiles` | descriptors, open-file entries, vnodes; every call of a process and of the process manager; abstract: files, offsets, sharing | `FileServer` implements `OpenFiles` |
| `ListsProofs`, `SystemProofs`, `DriverProofs`, `ConsoleProofs`, `MemoryProofs`, `AddressSpaceProofs`, `FileServerProofs`, `FileDataProofs` | proofs | see below; those of `Kernel` are the first part of `SystemProofs`, those of `Timer` and `Ide` are in `DriverProofs` |
| `MC*` | instances for TLC | |

Abstractions worth knowing:

* `wait_head` is a set (its order is never read); `pre_current` is `current`
  between steps.
* In `Services` a request to the file server that touches files is one request to
  the RAM disk; the call `"closed"` stands for `lseek()` and `dup()` of a
  descriptor that is not open, which the server drops without an answer.
* The file server does one request at a time and is asked for one thing at a time, so
  its inside is modelled apart from `System`: `FileServer` has one action per request
  and takes the content of a file as a sequence, `FileData` has the blocks behind that
  sequence, a write being one action per block and index block.
* `FileServer` takes every call the code takes.  The kinds of calls that the code gets
  wrong are left out of a run by the constant `Bounds`: `"open target"` (`dup()` and
  `dup2()` onto a descriptor that is open), `"leftovers"` (`fork()` into a PCB with
  descriptors of an earlier process that the parent does not have), `"in use"`
  (removing what is open or somebody's current directory); and by `Behind`, the names
  that may stand behind the `NUL` of a path to remove.  For each of the four there
  is a configuration without it, which shows what goes wrong.
* Outside `FileServer` for good are calls whose result depends on memory nobody has
  written: writes that begin behind the end of a file (`Inside`), paths through a plain
  file (`Walkable`), opening a directory (`FilePaths`).  Where the code turns for ever
  (no number or descriptor free, a name behind the first seven of its directory,
  `CHUNK`) the action is not enabled.  `close()` of a descriptor that is not open counts
  down the word at the place of `count` in an entry at address 0; in the model the tables
  stay as they are and `min_fd` is lowered.  That the word becomes zero, and the entry at 0
  is put on the free list, is left out: it takes as many such calls as the word is large.
* Names are compared as they are; a path is a sequence of names.  The `copy_to_kernel()`
  that fetches it is in `Memory`.
* In `FileData` `GiveBackFrom` bounds from where on blocks are given back: the code
  is right from the end of the direct blocks on, see `file_release`.
* In `Services` each console has one reader, as in the code: the file server for
  the first terminal, a getty for each other.  Which sleepers are due is open
  there; `Timer` has the arithmetic.
* The disk driver is modelled alone (`Ide`): nothing but the driver's own tests
  uses it while the file server works on the RAM disk.
* `FAULT_PID` is the 11 of `irq_handle()`.  The code creates eleven kernel threads
  (timer 0, ttyd 1, three gettys 2–4, disk 5, RAM disk 6, file server 7, memory 8,
  process manager 9, `create_shell` 10), so the shell is pid 11.  The
  configurations have seven or eight threads and a limit to go with them (see bounds).
* In `Memory` the process manager's promise that the process concerned is asleep is
  taken from `System` (`RequesterAsleep`).  Both mappings of a kernel table, low
  and at `KOFFSET`, are made; processes can write through the second, whose
  `user_supervisor` flag is left set.  Which addresses they write to is the constant
  `WriteAddrs`; other page flags are left out.  `exec()` is called with any address.
  What memory holds at the start is the constant `Boot`.
* `exec()` copies the argument string into `buf[256]` without looking at its length.
  `ARG_BUF` is the room there; a copy that goes over it sets `halted` (`Overrun`), since
  what follows depends on the layout of the stack.  The file name, copied into
  `file_name[256]` in the same way, stands for the choice of a program.
* `create_stack_page()` does not clear the frames of the stack.  `AddressSpaces` has
  that: a program that is loaded finds anything in the pages of its stack, the bytes of other
  processes too, and zeros or the bytes of its file in all others.
* A read that comes to the end of a file in the second level goes on to `index[14]`
  (`PastEnd` in `FileData`): what it finds there is any offset, so either the RAM disk's
  assertion fails (`ReadHalts`) or `index_block1` gets words from somewhere (`Junk`).
* Several modules have a variable `halted` (`exhausted` in `Timer`): an assertion or
  panic of the code, or the use of a list head as an element.  Nothing happens after it.

Definitions introduced by a comment `Mutant:` are wrong variants of the one that
follows.  No specification uses them; putting one in place of the original shows
that the property named with it in `PROJECT.json` can fail.

## Runs

`tlc -config X.cfg M` for each run of `PROJECT.json`.

| run | question | result |
|---|---|---|
| `kernel` | Do lists, semaphores and queues stay consistent under every interleaving of sends, receives, interrupts, fork, exec, exit and thread end? Do they implement `Mailbox`? | holds, 1,058,356 states |
| `processes` | The whole kernel with processes that fork, exec, wait, exit, use files and fault at any moment: is the requester always asleep, is there never an answer nobody waits for, is every request answered, is a waiting parent woken, is there no other stop than `fork()` without a free PCB and a fault in a pid taken for a kernel thread's? | holds, 42,650 states |
| `drivers` | The same with a getty, keyboard and clock interrupts; are readers and sleepers answered if lines are typed and the clock ticks? | holds, 112,429 states |
| `timer` | Is everybody woken in the right second, with every mix of durations, ties and simultaneous expiry? When do nodes run out? | holds, 5,190 states |
| `ide` | Do reads see writes through cache, eviction, write-back and interrupts? Does every request complete? | holds, 165,235 states |
| `ide_writeback` | Is every dirty slot written back in the end? | violated |
| `console` | Does the terminal implement a line editor with a byte stream? | holds, 861,770 states |
| `memory` | Are frames accounted for and private at every step of create, fork, exec and exit? Does every process see its own memory, and the kernel keep its own? Do the arguments of `exec()` arrive, whatever address is passed? When does an assertion of the copy loops fail? Is every request answered with a pool of just enough frames? | holds, 56,187 states |
| `files` | Two processes that open, share, read, write, close, create, remove, fork and exit in any order, within the three `Bounds`: are counts exact, do directories stay a tree, does everybody find the bytes last written? | holds, 192,873 states |
| `files_dup` | `dup()` and `dup2()` onto open descriptors: is there an entry for `open()` while fewer descriptors are open than there are entries? | violated |
| `file_data` | A file and a directory that grow through the index levels and are cut back: is every block in one place or free, and does reading give what was written? | holds, 1,155,713 states |
| `file_release` | The same when blocks are given back from anywhere, as the code does. | violated |

Eight further configurations ask what the runs above leave out; TLC refutes each within
seconds.  They stand here so that the limits of the runs and theorems can be seen, and turn
into runs that hold when the code is repaired.

| configuration (module) | question | what TLC finds |
|---|---|---|
| `KernelExposed` (`MCMemory`) | processes that write at `KOFFSET`: `KernelIntact`? | a process writes a byte of the kernel |
| `ArgsAlign` (`MCMemory`) | is the new address of the argument string a multiple of 4 (`ArgsAligned`)? | not for one of three bytes with its `NUL` |
| `StrlenPages` (`MCMemory`) | does `strlen_user_string()` count the bytes of the string (`StrlenExact`)? | a string that goes on in the next page is counted in the kernel's memory |
| `FileEnd` (`FileData`) | do the assertions of the RAM disk hold (`OnTheDisk`)? | a read over the end of a file in the second level asks for `index[14]` |
| `FilesFork` (`MCFileServer`) | `fork()` into a PCB with descriptors left: `CountsExact`? | fork, open in one of the two, which exits; the other forks: the new child has the descriptor of the one that is gone, on a free entry |
| `FilesDelete` (`MCFileServer`) | removing what is in use: `TreeSound`? | mkdir d, chdir d, rmdir /d, create a: a is named only inside itself |
| `FilesReuse` (`MCFileServer`) | removing an open file: `ImplementsOpenFiles`? | open a twice, delete a, create a: the new file is the old one's vnode |
| `FilesBehind` (`MCFileServer`) | a name behind the path of `rmdir()`: `TreeSound`? | with `..` behind it the root is deleted |

### Bounds

* `kernel`: two PCBs, two message nodes each, two message bodies.  One PCB starts
  as a kernel thread, the other is taken, placed, run, restarted and released; an
  interrupt handler may sign as hardware or as the thread.  Two senders and a box
  that can fill are what the semaphore protocol depends on; the proofs remove the
  bound.
* `processes`: six servers, `create_shell` and one free PCB; when
  `create_shell` has returned its PCB is the second one processes can have, so
  PCBs are reused without end.  `MSG_NUM = 3`: no box holds more here.  Both PCBs may
  fault, at any moment in user mode.  `FAULT_PID = 6`, the pid of the PCB of
  `create_shell`: a fault there is a panic, one in the other PCB makes its process exit.  In
  the code the limit is one higher, so that the shell panics, too; with two PCBs there would
  be no process left whose fault it contains.  `StopsAreExplained` has any limit and any
  set of faulting processes.
* `drivers`: one process that reads lines, sleeps and forks, one getty; one unread line
  per console (`MaxLines`) and room for one kept read (`RSTK_SZ`), the least with
  which keeping a read and finding a line both happen.
* `timer`: three sleepers, durations -1 to 3, two ticks a second, four nodes:
  inserting in front, between, behind and at equal deadlines, several expiring at
  once, and the pool running dry.
* `ide`: three sectors, two of which share a slot, requests of up to two bytes, two
  messages in the box (`MaxBox`), one client.
* `console`: a line of three bytes and a ring of four, two characters, reads of 0,
  1, 2 and 9 bytes: both buffers fill, the ring wraps, reads end before, at and
  behind the end of a line.
* `memory`: two processes and three programs (two segments that share a page; one
  that crosses into a second page table, with an empty one; one that fills its page) and
  14 frames, exactly what two processes of the larger program need; four requests; no
  frame is clear at the start, and the bytes of the kernel are not zeros either (but for
  one, at which `strlen_user_string()` can stop).  Processes write one address that
  every program has (`KernelExposed`: and one at `KOFFSET`).  `exec()` is called with
  the address of a string that fits just in three bytes (`ARG_BUF`) and is one byte too
  long after a write, of one that ends where the memory of the program ends or goes on
  in the next page, and with an address that is not mapped.
* `files`: two PCBs with three descriptors, one of them the terminal's, three vnodes
  (one a terminal's), four open-file entries, five inode numbers; a file of the
  current directory and one in a directory `d`; files of up to two bytes; seven calls,
  enough to open, fork, write through both processes, close, exit and open again, and
  for vnodes, entries, inode numbers and PCBs to be reused.  `files_dup` and the
  other `Files...` configurations have the same or fewer processes, files and entries and
  one bound less.
* `file_data`: blocks of two bytes, one direct block, two numbers in an index block:
  files of up to 12 bytes reach the second table of the second level.  Entries of
  three bytes lie across blocks.  Eleven blocks, so that the disk fills; four
  operations, two values of a byte, so that an overwritten byte is told from an old one;
  after a read over the end `index_block1` has zeros.  `FileEnd` has the same.

### Fairness

* `processes`: weak fairness of the next step of the CPU (`CpuRuns`): the kernel
  runs on, the idle loop and user code are interrupted by the clock.
* `drivers`: in addition strong fairness for the outside world
  (`WorldGoesOn`): the tick on which a given sleeper is due comes, and so does a
  line on every console.  Strong, because interrupts are only taken when the CPU
  allows them and the controller holds them until then.
* `timer`: weak fairness of the clock and of the two loops.
* `ide`: weak fairness of the driver thread (round-robin scheduling), strong
  fairness of the drive's and the clock's interrupt (held by the controller).
* `memory`: weak fairness of the thread that serves the request.

No fairness is assumed of what users or processes ask for.

`CHECK_DEADLOCK FALSE` is given where the system may stop: the kernel halts when
`fork()` runs out of PCBs or a process may simply do nothing more (`System`),
states in which the code has stopped (`Timer`, `Console`), the bound on requests (`Memory`,
`FileServer`), a full disk (`FileData`), all threads gone in the open `Kernel`.  `Ide` is
checked for deadlock.

## Proofs

All for every value of the constants that satisfies the modules' assumptions:
any number of PCBs, message nodes, message bodies, boot threads, gettys and processes
above them; any sleepers,
durations, HZ and number of timer nodes; any disk, sector size, cache, box and
clients of the disk driver; any line and ring of a console; any page size that is a
multiple of four, page tables, pool of frames, programs and arguments of `exec()`; any
block size, number of direct blocks, index blocks, disk, files and directories; any
number of descriptors, open-file entries and vnodes of the file server.

| theorem | statement |
|---|---|
| `TypeCorrect`, `PcbsStayInOneList`, `NeverIdleTooSoon` (`SystemProofs`) | `Spec => []TypeOK`, `[]PcbInOneList`, `IdleOnlyWhenNothingReady` |
| `TokensAgree`, `VNeverAsserts`, `WakeupsAreNotLost`, `ReceivesComplete` (`SystemProofs`) | the four box invariants of `Kernel` |
| `KernelImplementsMailbox` (`SystemProofs`) | `Spec => Box!MSpec` |
| `RequestsFollowProtocol`, `RequestersSleep`, `WaitingParentsSleep`, `AnswersAreAwaited` (`SystemProofs`) | `SSpec => []ProtoInv`, `[]RequesterAsleep`, `[]WaitingParentAsleep`, `[]NoStrayAnswer` |
| `StopsAreExplained` (`SystemProofs`) | if boxes have at least two nodes per PCB: `SSpec => []StopsByFaultOrOutOfPcbs` |
| `NoAssertionFails` (`SystemProofs`) | if, besides, only processes with pids above `FAULT_PID` fault: `SSpec => []StopsOnlyOutOfPcbs` |
| `TimerTypeCorrect`, `DeltasStayExact`, `NobodyOversleeps`, `NobodyWakesEarly`, `LeaksExhaustNodes` (`DriverProofs`) | the four invariants and the action property of `Timer` |
| `IdeInvariant`, `NoByteLost`, `CleanSlotsDropped`, `NoInterruptLeaks`, `WritebackComplete` (`DriverProofs`) | `ISpec => []IdeInv`, `[]ReadsSeeWrites`, `[]CleanSlotsAgree`, `[]NoLeakingInterrupt`, `WritebackCleans` |
| `ConsoleHolds`, `LineStaysInside`, `ConsoleImplementsLineEditor` (`ConsoleProofs`) | `CSpec => []ConsoleInv`, `[]LineEnds`, and the safety part of `LineEditor` through the mapping the run uses |
| `MemoryHolds`, `PagesStayAccounted`, `FramesAreNotShared` (`MemoryProofs`) | `MSpec => []MemoryInv`, `[]PagesAccounted`, `[]FramesNotShared` |
| `CopiesHold`, `KernelStaysIntact`, `StopsPastTheEnd` (`MemoryProofs`) | if `UserWrites`: `MSpec => []CopyInv`, `[]KernelIntact`, `[]StopsOnlyPastTheEnd` |
| `ArgsHold`, `ArgumentsArrive` (`MemoryProofs`) | if `UserWrites`: `MSpec => []ArgInv`, `[]ArgsArrive` |
| `MemoryIsPrivate` (`AddressSpaceProofs`) | if `UserWrites`: `MSpec => PrivateMemory`: `Memory` implements `AddressSpaces` |
| `CountsStayExact` (`FileServerProofs`) | if `Careful`: `SSpec => []CountsExact` |
| `BlocksHold`, `BlocksStayAccounted`, `FilesArePlain` (`FileDataProofs`) | if `GiveBackFrom >= level_end0`: `DSpec => []DataInv`, `[]BlocksAccounted`, `Bytewise!FSpec` |

Three hypotheses are about how processes use the kernel, and for each a configuration shows
that the statement is false without it: `UserWrites`, no process writes to the memory of the
kernel at `KOFFSET` (`KernelExposed`); `Careful`, `dup()` and `dup2()` onto closed
descriptors and no descriptors left in the PCB of a child (`files_dup`, `FilesFork`);
`GiveBackFrom >= level_end0` (`file_release`).

*The lists.*  `PcbInOneList` with the types is inductive once what `Without`,
`AddBefore`, `NextOf` and `PrevOf` do to membership, distinctness and the first
element is known: that is `ListsProofs`.  `schedule()` goes to the successor of
`pre_current`, and to the head only to skip it, so it reaches the idle context
only in a ring of one element.

*The boxes.*  None of the four box invariants is inductive alone: that `P()` does
not block needs the token to be positive, which needs it to count messages, which
needs each thread to be at a point of its code that agrees with the list it is in.
`BoxOK` is their conjunction with that agreement (a thread in `wait` is between the
two `P()` or not started; a PCB that is free or in the manager's hands is blocked
nowhere).  The count of messages from a source when one is appended or removed
comes from `ListsProofs`.

*The refinement.*  Under `BoxOK` every step of `Kernel` is a step of `Mailbox` or
leaves `box` and `asking` alone: sends deposit, the first `P` asks, taking a
message obtains the oldest match (`Found`), a new or restarted process renews.

*The requests.*  A request is in one place at a time: in the box of the server, in its
hands (`job`), kept by it (a read without a line, a sleeper, a `waitpid()`), on its way
back in the program of the server, or in the box of the thread that made it; as long
as it is anywhere, that thread is in `receive()` from that server.  `ProtoInv` says this
for every pair of threads (`Pair`) and it is inductive together with: every program is a
suffix of one the code has (`Prog`), servers ask each other along `CanCall`, which has no
cycle, so a server in the middle of a request is asked again but does not take the
request up; and one CPU (`RunsAlone`): between the `send()` of a request and the first
`P()` of the `receive()` for its answer nobody else runs.  A system step is a step of
`Kernel` too, so the invariant of the boxes is that of `Kernel`.  The assumptions
on the constants are those of the start-up code: the servers are different threads, and
servers, gettys and `create_shell` are created at boot.

*The boxes do not overflow.*  `send()` takes a node without looking.  A box holds at most
one message from each thread, a request or an answer, by `ProtoInv`; what remains are the
messages of the keyboard and the clock to `ttyd`.  `TurnInv` bounds them: the interrupt
messages in its box and the turns of the ring until `ttyd` runs are together at most the
number of PCBs.  `wakeup()` puts `ttyd` into the ring, every interrupt ends in
`schedule()`, which goes on to the next in the ring, and `ttyd` runs with interrupts off
until its box is empty and it sleeps.  So `2 * Cardinality(Threads) <= MSG_NUM` is enough;
`src/include/process.h` has 50 PCBs and 100 nodes, exactly that.

*The timer.*  `TimerInv` adds to the properties that no process is in the queue
twice, that deadlines do not decrease along the queue, that while a node is being
inserted its remaining seconds are the distance from the deadline of the node
before `ptr`, and that nodes in the queue, free nodes and nodes lost to requests
with `sec <= 0` add up to `NODES`.

*The disk.*  That a fill or an eviction loses nothing depends on what the drive was
doing when its interrupt came: `IdeInv` says for each wait which command can be
under way and that, once it is over, the slot it was for agrees with the disk
(`Transfers`).  With that no second `IDE_READY` can be in the box, every dirty slot
is in use, the slots `cache_writeback()` has passed are clean and the bytes collected
by a read are as many as are done.  That two offsets of one sector are at different
places of its slot is arithmetic (`SamePlace`).

*The console.*  `get_cooked()` copies up to a `'\0'` and looks at nothing else to know
where it is; that it stops inside what has been written is `WholeLines`: the bytes in
the ring end with a `'\0'`.  With it goes arithmetic modulo the length of the ring (the
bytes between `f` and `r`, wherever the ring wraps), and that a read waits only while
the ring is empty, so that the line that ends the wait is the one handed out.  Under
this invariant every action is a step of `LineEditor`: the line in front of and behind
the cursor, and the ring read as a stream.

*The memory manager.*  `MemoryInv` says what the bitmap, the directories and the tables
have to do with each other: the places of the tables hold the marked frames, each
frame in one place (`Exact`); every process but the one being built has the kernel
(`Whole`); and the steps left of a request are a sequence the code can be in
(`TodoOK`) whose next step finds what it needs (`Ready`): no table yet where one is
put, nothing mapped above the next page of a segment but the stack.  The last needs
that the segments of a program lie one above the other, between the kernel and the
table of the stack (`ProgramAssumption`): `load_segment()` makes a new table whenever
a page is the first of one, without looking whether there is one already.

*The copies.*  `CopyInv` adds what each step relies on: the pages made so far reach to
where a copy goes (`Prepared`), and while an argument string that ends in its page is being
fetched, that it is still in the old image and what has been fetched is its beginning
(`Fetching`).  For such a string `strlen_user_string()` never leaves the page, so nothing is
supposed of what memory holds at the start.  Any other address, unmapped or of a string
that goes on, can fail an assertion or overrun `buf[]`, but only while it is fetched: what
is in `buf[]` afterwards has an end inside it (`TempOK`), whatever it is, and its copy to
the new stack finds its pages.  The memory of the kernel is what it was at the start
(`KernelBoot`) but for the three bytes `exec()` may put above the stack, which are the first
of physical memory.

*The arguments.*  `ArgInv` follows the string of an `exec()` through the request: in the
kernel until the arguments are placed (`Kept`), then the part in front of the address
the copy has reached is on the stack and the rest is what is still to be copied
(`Placing`), in the end all of it (`Arrived`).  A turn of the copy changes one page and
no byte in front of it, because two pages of one process never share a frame; nobody
else's write reaches it, because two processes do not (`Exact` again).

*The private memories.*  `Memory` implements `AddressSpaces`.  The refinement mapping
shows the memory of a process only while it is complete, so a whole `load_program()` or
`copy_process()` has to be one abstract step, taken by its last turn; `ImageInv` carries
what the turns before have done.  While a program is loaded (`Loading`), its pages hold
the bytes of the file in front of the address reached and zeros behind it (`Filled`), what
has been copied is inside pages that are there (`Reached`), and what is left to copy is
the rest of the segment (`Reads`); segments are loaded in order and do not overlap, so
they never disturb one another.  While a parent is copied (`Copying`), every page in front
of the entry in hand is the same in both; that remains so because the parent waits for
the answer and cannot write (`Planned`).  Steps of a request and writes of other processes
leave what the rest sees alone (`OthersSame`, `WriteView`), because no frame is in two
places.  A complete memory has a stack (`HasStack`), so taking it away is never a
stutter.

*The counts of open files.*  `CountsInv` has the counts of `CountsExact` with what they
need: the free lists and the list of active vnodes hold what they should once each
(`Listed`), every descriptor leads to an entry or nowhere, every entry in use to a vnode.
`fm_exit_file()` is a loop, and between two of its turns some descriptors of the process
count and some do not, though the pointers are all still there.  So the parts of the
invariant are stated for a set `D` of descriptors that count (`Counts`): closing takes one
out of `D`, opening and `dup()` put one in, `fork()` puts in those of the child, and the
invariant is the case where `D` is the descriptors of the running processes.  The turns of
`fm_exit_file()`, `init_fd_table()` and `_create_dir()` are counted with a set of
numbers that has 0 and with each number the next (`UpTo`).  The only assumptions are that
there are finitely many PCBs, at least as many vnodes and descriptors as terminals, and
that a path is a sequence of names (`FileAssumption`); with `Careful`, nothing is supposed of
what is removed or stands behind a path.  Deleting an open file leaves its vnode and counts
alone.

*The blocks of a file.*  A slot is a place for a block in the index of a file: named in
the inode, in an index block of the first or of the second level, or that of an index
block.  `DataInv` says that the slots a file holds and the marked blocks are in
one-to-one correspondence (`Exact`) after every step, also in the middle of
`write_data()`, where an index block is held a step before the first block it names
and what it names is in memory only.  For that it needs to know what
`write_data()` will put back: an index block in memory that is not marked as changed is
the one on disk or names nothing yet (`JobOK`).  An answer to a read leaves `index_block1` with anything in it (`PastEnd`), so nothing is
supposed of it between operations: every write fetches it again.  The rest is arithmetic: the four loops
of `write_data()`, the three of `release_block()` and the reader compute the same slot
for an offset, whatever the sizes.  The hypothesis `GiveBackFrom >= level_end0` of the
three theorems is the part of `release_block()` that is right; below `level_end0` the
statement is false, as `file_release` shows.

*The bytes of a file.*  Under `DataInv` a byte of a file is in one slot (`OneSlot`) and
no byte of the disk is two bytes of files (`OneByte`).  So a turn of `write_data()`,
which puts bytes into the block of one slot, appends to its file and changes no byte of
any (`TurnContent`); the last entry of a directory goes over the removed one and
nowhere else (`RemoveContent`); and a step that moves an index block between memory and
disk moves no block of a file (`Kept`), so that the file is the same.  Reading finds the
block that writing chose (`ReadAt`).

Only model-checked: liveness (fairness and `ENABLED` are beyond the proof system); and, of
`FileServer`, `TreeSound` and that it implements `OpenFiles`.  `TreeSound` says that every number is reached by exactly one
path; that removing a directory removes all that is below it and nothing else is a fact
about paths of every length, an induction over data.

## Where the code disagrees with its comments

The first three have runs that show them and entries under `findings` in `PROJECT.json`.

1. `ide_writeback`: the wait for the drive throws `IDE_WRITEBACK` messages away, so
   a dirty slot need not be written back (`writeback cache for every 1 second`).
2. `file_release`: `release_block()` (`//return block`, `//we need trunc file`) moves
   its offset behind the direct blocks before it gives any back.  Files of up to
   twelve blocks never return a block, and `index[12]` is marked idle even where it
   was never set; after enough deletions `get_free_block()` spins for ever.
3. `files_dup`: `dup()` uses `min_fd` without looking, `dup2()` onto an open descriptor
   releases the source instead of the target: entries are lost, until `open()` fails
   `assert(!list_empty(&free_open_file_list))`.

These have a configuration that shows them:

4. `KernelExposed`: `create_kernel_dir()` (`user process shouldn't visit kernel space`)
   restricts the low mapping of the kernel and not the one at `KOFFSET`.
5. `ArgsAlign`: `(stack_base - args_len) ^ 0x3` (`align to 4`) flips the low bits instead
   of clearing them: the string is misaligned, and for lengths that are 2 or 3 modulo 4
   its end goes to the first bytes of physical memory, through the kernel's mapping;
   `KernelIntact` says it is never more than that.
6. `StrlenPages`: `strlen_user_string()` (`//include '\0'`) continues a string that
   crosses a page at an address made from the offset only, in the memory of the kernel, and
   counts until there is a `NUL` there.
7. `FileEnd`: `read_data()` tests `file_offset > inode->size` before the third level and
   goes on to `index[14]` at the end of a file in the second; `read_ram()` has
   `assert(m->offset + m->len < RAMDISK_SIZE)`.
8. `FilesFork`: `fm_exit_file()` (`when process stoped, send exit_file to file system`)
   leaves the pointers in `fd_table` and `copy_fd_table()` those that the parent does not
   have: a child in a reused PCB has descriptors nobody counted.  The shell's `cat` leaves
   its file open.
9. `FilesDelete`, `FilesReuse`: `_delete_file()` does not look whether what it removes is
   open or a current directory.  The number goes to the next file (`flag == 1 means we can
   create file`): in the first case it is named only inside itself, in the second it has the
   content of the deleted file.
10. `FilesBehind`: `_delete_file()` has no return after removing the name and goes on with
   what stands behind the path; with `..` there `rmdir()` deletes the root (`shouldn't
   delete "." and ".."`).

Seen while modelling, and part of the models as they are:

* `irq_handle()` takes pids above 11 for user processes (`// user process fault`).  The
  shell is pid 11, and a process the shell forks can be in the PCB of `create_shell`, pid
  10: a fault in one of them is a panic of the kernel.  `StopsByFaultOrOutOfPcbs` has that
  as one of the two ways to stop.
* `ppid` is not cleared when a parent exits.  After PCBs have been reused `waitpid()`
  accepts pids that are not children (`//indicate no valid pid`), and two processes
  can wait for each other for ever.  What holds is `WaitingParentAsleep` and
  `NoStrayAnswer`.
* `copy_from_kernel()` and `copy_to_kernel()` look up the page after the last chunk
  even when nothing is left, so a buffer that ends with its page and has nothing
  mapped behind fails `assert(ptable[ptable_idx].present)`: `StopsOnlyPastTheEnd`.  The same
  assertion fails for any pointer of a process that is not mapped.
* `exec()` copies strings of any length into `buf[256]` and `file_name[256]`, and takes the
  `strlen()` of what it finds there.
* The frames of a new stack have the bytes of the process that had them before.
* `remove_inode_from_dir()` adds `readed_len` to its offset after counting it down to
  zero: for a name behind the first seven entries it reads the same seven for ever.
* `close()` of a descriptor that is not open counts down a word at a low address.
* The terminals' vnodes have index 0, the root's, so opening `.` in the root gives a
  terminal; an open directory is written back at its last close without the entries
  made meanwhile.
* `create()`, `delete_file()`, `mkdir()` and `rmdir()` answer 0 whatever happened,
  though `src/shell/shell.c` has messages for the other case.

## What is not modelled

* Hardware set-up: boot loader, segment and interrupt descriptor tables, the PIC,
  the kernel page table, serial output.
* Registers and stacks.  `sleep()` and `wrap()` give up the CPU with `int $0x80`,
  the system-call vector; that `eax` holds no call number then is below this level.
* Screen, banner, modifier keys, switching consoles (F1–F6) and reboot (F12).
* The calendar of the timer, which only the banner reads.
* `sbrk()` of the memory manager: no system call sends `SBRK`.
* Of the file server: `lsdir` (it changes nothing); the third index level (with 12
  direct blocks, 64 numbers in an index block and 4096 blocks the disk is full before
  it is reached: `BlockAssumption`); uninitialised index entries, which are the value
  `None` in `FileData`.
* `memory_manager.c` from line 440 on: commented-out code.  `kvm.c`: tables filled
  once at boot.  `src/shell/shell.c`: parsing of command lines; its system calls are
  the `UserCalls` of `System`.
* `process/first_program.h` and `process/shell.h`, 35,422 of the repository's lines:
  the bytes of compiled programs as C arrays.

## Plan

Done: `Kernel`, `Services`/`System`, `Timer`, `Ide`, `Console`, `Memory`, `FileData` and
the counts of `FileServer` with their proofs; `Directories`.

What is worth doing next:

1. A theorem: that `FileServer` implements `OpenFiles` (`CountsInv` is the ground for it;
   it needs `TreeSound`).
2. When the code behind one of the refuted configurations is repaired: drop the bound or
   hypothesis that belongs to it, and move its property to the run that passes.
3. The screen of `console.c` against the line it shows.
