# NachOS: models and proofs

The repository is a course collection; its largest system, and the one with most
concurrency, is the operating system of `nachos/code`. Beside it are programs of
several courses, some of which are several processes as well. This directory holds
TLA+ models of them, the TLC configurations that check them, and proofs that TLAPS
checks. Everything is translated from the source; file names below are relative to
`nachos/code` unless they begin with `unix/` or `cn/`.

## 1. Inventory

| part | state it keeps | operations | interacts by | what makes it correct |
|---|---|---|---|---|
| Threads and scheduler (`threads/thread.cc`, `scheduler.cc`) | `currentThread`, `status`, `readyList`, `threadToBeDestroyed` | Fork, Yield, Sleep, Finish, ReadyToRun, FindNextToRun, Run | context switches; called by semaphores and by the timer | statuses, ready list and current thread agree at each switch; nobody ready starves; stacks are freed once, and not while in use |
| Semaphore (`threads/synch.cc`) | `value`, `queue` | P, V | puts threads to sleep and makes them ready; V also from interrupt handlers | P and V look indivisible; no wakeup is lost |
| Lock (`synch.cc`) | `Sema`, `threadHoldLock` | Acquire, Release | a semaphore | mutual exclusion, the holder is known, the lock is granted again and again |
| Condition (`synch.cc`) | `Sema`, `blockNum` | Wait, Signal, Broadcast | a semaphore and the monitor's lock | no signal is lost between releasing and sleeping |
| SynchList, BoundedBuffer, Table, DLList (`threads/`) | a list, a ring, an array, a linked list | Append/Remove/Mapcar, Write/Read, Alloc/Release/Get, sorted insertion and removal | one lock, one or two conditions | FIFO order, one taker per item, counters agree, nobody sleeps beside what it waits for |
| Interrupt simulation and timer (`threads/interrupt.cc`, `machine/timer.cc`) | simulated time, the list of pending events, level, status, `yieldOnReturn` | SetLevel, OneTick, Idle, Schedule, CheckIfDue, Halt | calls handlers; makes the interrupted thread yield | handlers in order of time, one preemption per expiry, halting exactly when nothing can happen |
| SynchDisk and Disk (`filesys/synchdisk.cc`, `machine/disk.cc`) | `active`, head position, the disk file; lock and semaphore | ReadSector, WriteSector, RequestDone | an interrupt some ticks later | one request at a time, each completion wakes its own caller, every call returns |
| Console (`machine/console.cc`, `userprog/progtest.cc`) | `putBusy`, `incoming` | GetChar, PutChar, polls | interrupts, two semaphores | one write at a time, no character twice |
| Post office and network (`network/post.cc`, `machine/network.cc`) | mailboxes, `inHdr`/`inbox`, sockets | Send, Receive, PostalDelivery, polls | SynchLists, a worker thread, packets that can be lost | a packet goes to one mailbox once, in order; one send at a time |
| File system (`filesys/*.cc`, `userprog/bitmap.cc`) | directory, free map, headers and data on sectors | Create, Open, Remove, ReadAt, WriteAt | the synchronous disk | no sector has two owners, whatever the interleaving or the crash |
| User programs (`userprog/`, `machine/translate.cc`, `mipssim.cc`) | page table, registers, main memory | StartProcess, Translate, OneInstruction, exceptions, Halt | the kernel's one thread per program; interrupts between instructions | a program cannot tell the simulator from a MIPS; the page table's bits record what it did |
| COFF tools (`bin/`) | a second simulator's memory and registers; the output of a converter | runprogram, system calls; section by section | a file in, the host's calls or a file out | the interpreter is a MIPS too, for what it implements; the converted file is the executable |
| List (`threads/list.cc`) | `first`, `last`, the elements | Append, Prepend, Remove, SortedInsert, SortedRemove, Mapcar | called by all of the above | it is a sequence |
| Thread tests (`threads/threadtest.cc`, `dllist-driver.cc`) | `testnum`, `threadnum`, `oprnum` | Fork of each test's threads and their scripts | use one of the shared classes each | their threads end, or are left for a reason |
| Dining philosophers (`unix/homework/homework_5`) | forks, as files | takeFork, putFork | `open` with `O_EXCL`, `unlink`, `fork` | no fork is held twice or lost, they never all wait |
| Shell (`unix/homework/homework_3`) | `argv`, `rf`, `wf`, the working directory | cd, redirection, fork, execve, waitpid | descriptors and files | each command gets what was typed for it, and no other |
| myfind, timewrite (`unix/homework/homework_1`, `2`, `4`) | counts, descriptors; file offset | recursion over a tree; a loop over buffer sizes | the file system | every file once; the whole input, every time |
| Echo servers and client (`cn/homework/3`) | `recv_msg`, connections, children | accept, recv, send, fork | TCP | everything said comes back, once and in order, from one process |

Hard behaviours: a uniprocessor whose timer may preempt wherever interrupts are
turned on (not only where a thread yields); wakeups that make a thread ready but
do not hand anything over; conditions that remember signals; device interrupts
that come before, while or after their caller sleeps; a timer that re-arms itself
and must not keep a finished machine alive; a stack freed by the next thread;
packets lost between machines that may have stopped; a crash between two sector
writes; delayed loads under interrupts; and halting silently when every thread
sleeps. `PROJECT.json` lists them line by line, with the properties that watch
each.

Outside the models are a second and a third version of Lock and Condition that are
not built (`synch-sem.cc`, `synch-sleep.cc`), the host's interface, the C++ examples,
an HTTP server of a few lines over Python's, and ROS demonstrations.

## 2. Modules

    AbstractSemaphore    AbstractLock     AbstractQueue, AbstractStream
           ^                  ^                        ^
           | implements       | implements             | SynchList and DLList; BoundedBuffer
        Kernel  <--------   Lock  <-- Condition <-- Monitor <-- SynchList, BoundedBuffer,
           ^                  ^           |                       Table, DLList  <-- ThreadTest
           |                  |           v implements LSpec
        Interrupt         SynchDisk     Lock
           ^
           |
        Console

    AbstractMail             AbstractFiles
         ^                      ^
         | implements           | implements
    PostOffice <-- MailTest  FileSystem <-- FileTest

    AbstractMIPS                   AbstractList
         ^                              ^
         | implements                   | implements
    Words <-- Machine, Emulator       List      Coff   DiskTime   Homework
                                 (all of these) <-- MCSequential

    Philosophers, Echo, Shell  <-- MCCoursework

Arrows to the left are EXTENDS (so are those from Interrupt, Console and SynchDisk
up): each module adds variables and conjoins its own changes
to the actions of the one below, so that a lock in these models *is* the
kernel's semaphore, with its sleeping, barging and switching.

**Kernel** models `Thread`, `Scheduler`, `Semaphore` and what the interrupt
simulation lets happen between two calls. The variables are the fields and
globals of the same names; `inP[t]` is the semaphore whose `P()` thread t is in,
`pending[s]` counts the device interrupts whose handler will call `s->V()`,
`mode` is `Interrupt::status` (plus "Halted"), `started` tells a thread that
resumes inside `Scheduler::Run` from one that begins in `ThreadRoot`, and
`deleted` says whose destructor has run. A stretch of code with interrupts off
is one step, because on this uniprocessor nothing else can happen. `P()` is three
steps, `PEnter`, `PSleep`, `PTake`, since it sleeps inside its loop; a switch
that `Sleep` must wait for (idling) is `Block` followed by `Dispatch`. `Preempt`
is the yield that `OneTick` makes for the timer, and exists only with `-rs`
(`RandomYield`). `KNext` is the most general client.

**Interrupt** replaces "an interrupt may come" by the list of scheduled
interrupts and the clock (`threads/interrupt.cc`, of which
`machine/interrupt.cc` is an identical copy, and `machine/timer.cc`). An
event's `when` is kept as the time that is left, so that the clock need not grow.
Turning interrupts on is `OneTick`, with its loop of `CheckIfDue`, the put-back of
an event that is not due, and the `Yield` for `yieldOnReturn` at its end; `Idle`
advances the clock to the next event, or halts when only the timer is left.
**Console** adds the device and `ConsoleTest`, beside other threads that use the
disk: three devices and the timer share the list. A call of the disk belongs to one
thread (`caller`) until it is answered, since SynchDisk lets one in at a time.

**Lock** splits `Acquire` at the point where `P()` turns interrupts back on and
the holder is not yet recorded; `Release` is one step, for nothing can interrupt
it before its `V()` ends. **Condition** splits `Wait` into release, call of `P()`,
sleep, return, `blockNum++` with the call of `Acquire`, and its return; and
`Signal` and `Broadcast` around their `V()`.

**Monitor** holds the steps common to the classes made of a lock and conditions
(call, enter, work, wait, signal, leave), with a program counter per thread and
the bound `MaxSignals` on the signals a condition remembers. **SynchList** adds
the list: note the `Yield()` that `Append` makes with the lock held.
**BoundedBuffer** adds the ring with `head`, `tail`, `usedSize`; what each thread
does, and with how many bytes at a time, is chosen at the start (`program`),
because what can be promised depends on the sizes. **Table** has one condition for
the threads that wait for any of its places. **DLList** has the linked elements
themselves, and the yields that `SortedInsert` makes with half of its pointers
set. **ThreadTest** is `ThreadTest()`: an initial state chooses `testnum`,
`threadnum` and the order in which the threads are created, the main thread forks
them, and each runs its script (`DLListTest`, `DLListTest3`, `TableTest`). In tests
4 and 6 the scripts are replaced by threads that call the same operations in any
order. **SynchDisk** is a client of the lock with the disk's `active` flag, the
disk file and the completion interrupt of the kernel.

**PostOffice** has several machines at once, each a UNIX process with its client
threads, its postal worker and two interrupt handlers; they share only the
sockets. Its semaphores, lock and mailboxes are the abstract ones, since other
modules show the code to implement those: a step is the stretch of code between
two calls of them. A packet can be lost at its sender (`chanceToWork`), a machine
can be stopped at any moment, and sending to a machine that is off aborts the
sender. **MailTest** adds the programs: `MailTest` of `nettest.cc`, or clients.

**FileSystem** is `FileSystem`, `Directory`, `FileHeader`, `OpenFile` and `BitMap`:
an operation computes the list `todo` of its sector writes, in the order of the
code, and each write is a step. Since nobody else may use the file system
meanwhile (`filesys.cc:30`), what an operation reads cannot change under it.
`disk` at any moment is what a crash would leave. **FileTest** is the commands
`-cp`, `-p`, `-r`, `-t` and the order of their calls.

**Machine** loads a program and runs it: every case of `OneInstruction`,
`Translate` with the page table and its bits, the delayed load, exceptions, the
system call, and a timer interrupt after any instruction. **Words** is its
arithmetic, for a parametric number of bits to a byte.

**Emulator** is the other simulator, `bin/main.c`, `execute.c` and `system.c`: it
loads a COFF executable, puts its arguments on the stack and runs it without pages,
pending loads or exceptions; what C leaves undefined there ends the model. **Coff**
is `coff2noff.c` and `coff2flat.c`, a section at a time, with what each leaves behind
when it fails. **DiskTime** is the other half of `machine/disk.cc`: the clock goes on
between two requests, and `TimeToSeek`, `ModuloDiff`, `ComputeLatency` with the track
buffer and `UpdateLast` decide when the interrupt comes. **List** is `list.cc` with
its elements as nodes of a heap; the other modules have sequences instead of it, and
`ImplementsList` is what entitles them to. **Homework** has the recursion of the three
versions of myfind as a stack of frames, over trees with links, unreadable files and
hidden names; and the loop of timewrite over the buffer sizes, with its overflow (and
an `lseek()` that does not fail). What -comp prints when `open()` fails for want of
descriptors is arbitrary, and promised by nothing.
**MCSequential** puts all of these into one specification, in which a behaviour
is one of one part: they share nothing, and this is only to check them together.

**Philosophers** is `philosopher.c`: the parent that removes the files an earlier
run left and forks, and the processes that create and unlink the forks' files.
**Echo** is `server.c`, `server1.c` and `client.c` over connections that are two
sequences of bytes, of which `recv()` takes any piece; clients can be interrupted, and
sending to a closed connection is answered by a reset, as in TCP. **Shell** is
`shell.c` with a child process that redirects its own descriptors; a command writes
down its arguments and what it reads. **MCCoursework** lets a behaviour be one of one
of the three.

**AbstractSemaphore**, **AbstractLock**, **AbstractQueue**, **AbstractStream**,
**AbstractMail**, **AbstractFiles**, **AbstractMIPS** and **AbstractList** say what callers rely on,
without schedulers, queues, locks, packets, sectors or pending loads; the detailed
modules instantiate them with refinement mappings (`Semantics`, `Locking`,
`Queue`, `DLLQueue`, `Stream`, `Commands`, `MIPS` and so on). Operators whose comment
begins "Mutant of" are plausible bugs; no specification uses them, and each
property is broken by one of them.

## 3. Runs

| run | what it checks | bounds |
|---|---|---|
| synchdisk | of the kernel: `KConsistent` (types, above all no negative value; statuses, ready list and wait queues; no stack freed while in use), `NoLostWakeup`, refinement of the abstract semaphores, every ready thread gets the CPU; of the disk on top of it: `DConsistent` (types, completions match requests, late returns, current data), nobody left inside, every request answered | 3 threads, 1 sector, 2 contents |
| kernel_carcass | **violated**: a finished thread is deleted or about to be | 3 threads, a lock and a device, no timer |
| condition | `CConsistent` (types, mutual exclusion, known holder, `blockNum` against the remembered signals), `NobodyForgotten` (no lost lock, no lost signal), refinement of the FREE/BUSY lock and its progress | 3 threads, the lock, 1 condition, another semaphore with a device, up to 2 remembered signals |
| condition_broadcast | **violated**: Broadcast wakes all the sleepers | as above, without the other semaphore |
| threadtest | the list and the linked list are queues, the ring is a byte stream; `TConsistent` (types, ring and table counters, a walk along the linked list is safe at every yield); `NobodyStranded` (beside what it waits for, in any of the four classes) | 4 threads, of which 2 or 3 are forked, tests 0, 3, 4, 5, 6; 2 items, a ring of 3 bytes with chunks of 1, of 2 and of both, 2 places, 6 elements, up to 2 remembered signals |
| console | `ConConsistent` (types, each device's events, signals and buffer, no write while busy, events sorted, nothing overdue, no stale yield), the echo is faithful and complete, `TimeServes` (the timer preempts, and a quiet machine halts), the machine halts only when it is quiet | console thread and one other, 2 characters, 1 disk request, tick 1, timer 2, disk 3, console 4 |
| mailtest | mailboxes refine lossy first-in first-out mail; `MConsistent` (types, one send at a time, arrivals announced once); `HaltsInOrder` (nobody mails a halted machine, and a machine that halts has been read); `MailTest` ends when nothing is lost; `NothingHeldUp` (arrivals and sends come to an end) | 2 machines, 2 threads each, 2 mailboxes, 2 messages by the clients |
| filetest | `FConsistent` (types; no sector shared or lost; what is created is found), `FilesKept` (no write touches another file, what is printed is what was copied) | 10 sectors of 3 bytes, 3 directory entries, 2 texts (none, and two sectors with a last transfer cut short), 4 commands |
| sequential | both simulators, in every instruction on pairs of edge values, refine an ideal MIPS (NachOS with interrupts after any instruction); `PartsConsistent` (types, register 0, the page table's bits, the stack of arguments, the links of the lists); `ConvertsFaithfully`; a disk request ends when its sector has passed under the head or was buffered; lists refine sequences; `FilesRight` (`FilesFound` of myfind, `InputWritten` of timewrite) | 2-bit bytes, 4 pages of 16 bytes; 14 object files; 3 tracks of 3 sectors, 30 ticks; 3 elements, 2 keys; 6 trees of up to 11 entries; inputs of up to 8 bytes, 5-bit sizes |
| machine_or | **violated**: the refinement for OR of two different registers | as above, pairs of edge values |
| coff_bss | **violated**: the sections that coff2noff refuses are not contiguous | as above |
| coursework | `Consistent` (types, forks exclusive, files held, no circular wait), somebody eats again and again; the servers echo exactly what was said, clients of server1 come to their end; the shell's commands are executed as typed | 5 philosophers, as in the program; 2 clients, 3 processes, lines of 2 or 3 bytes with a buffer of 3; sessions of 2 to 5 lines |

A property whose name ends in "Consistent", and `NobodyForgotten`, `NobodyStranded`,
`HaltsInOrder`, `TimeServes`, `NothingHeldUp`, `FilesKept` and `FilesRight`, are
conjunctions of named parts; each part is stated and explained where it is defined.
The kernel is checked under its busiest client, the synchronous disk, whose threads
sleep on two semaphores and are woken by each other and by interrupts; `kernel_carcass`
has the clients of a lock.

Why these are enough to show something. Three threads are the least with one
inside, one queued and one barging in, and the least for a forgotten carcass. Two
remembered signals are the least that let two `Wait()`s go by at once. In
threadtest a third forked thread is what makes `DLList::Append` find a list that
is not empty while somebody waits. On a ring of three a two-byte write leaves room
for no other, so that two writers wait after the first, and both writes and reads go
over the end in the middle; with one-byte chunks a second write comes before the
reader that the first has woken, and needs a signal of its own. Two
items (or two different bytes) distinguish FIFO from any other order. One sector is the worst case for the
synchronous disk, since the lock makes calls for different sectors wait for each
other too. The console's times keep the order of `stats.h` at a smaller ratio; the
random delay of the timer ranges over both sides of every other event. Two mail
clients and two messages meet in `sendLock` and in the one-packet buffer. On the
disk of 10 sectors five are left for files, so that it can be full, a file can have
several sectors, and sectors and directory entries are used again; the directory
takes two sectors and one of its entries lies across them; two names are the same
after the cut at nine characters. A byte of two bits keeps the proportions of
word, halfword and byte; the edge values are the zeros, ones, sign boundaries and
alternating patterns. Three tracks are the least with a seek of more than one, and
30 ticks are more than three turns of the disk. Three
list elements are the least with one between two others, and two keys give equal
ones. The object files have each kind of section, in order and out of order, empty,
doubled and apart, and each thing that is refused. A buffer of 3 for lines of 2 and 3
makes `recv()` take a part of a line, exactly a line that leaves no terminator, and a
line with the beginning of the next; three processes let a child that has gone back to
`accept()` compete with its parent. The shell meets every pair of kinds of lines, since
what is left over can come only from the line before. The philosophers' run is the
program's own size.

`MaxValue`, `MaxSignals`, `MaxPending`, `MaxTyped`, `MaxRequests`, `MaxPosts`,
`MaxCommands`, `MaxNodes`, `LastTerminal`, `Deepest` and
`OpenMax` (the last two a process's own limits) are the only bounds on counters; in the monitors the
bound stands in the guard of a *call*, so that no operation in progress is cut off
by it. The clock of DiskTime ends at
`LastTick`. Deadlock checking is off because a machine that halts, and a program that
ends, stops. Symmetry is used
in threadtest, which has no liveness property: over two threads that have the same
part and over the items.

What the runs do not claim, because the code does not do it:

* `NoStrandedThread` of the buffer is stated for programs in which all the threads that
  have been forked use a single size (in the run: two bytes, where the ring has room
  for one chunk, and one byte, where it has room for three). With mixed sizes a
  `Signal` can wake a reader that needs two bytes when one is there, and a reader that
  needs one sleeps on.
* `NoStrandedReleaser` of the table is stated for one releasing thread. There is one
  condition for all places: with two, the signal of `Alloc` can wake the one whose
  place is still empty, which goes back to sleep.
* In `DLListTest3` a `SortedInsert` that does not put its element at the end returns
  with the lock held, and every other thread is left in `Acquire`. `WalkSafe` speaks
  of the list they leave, `NoStrandedDLRemover` of test 0, where threads append and
  remove.
* `MailTest` waits for ever when a packet is lost: there are no retries, and
  `MailTestCompletes` assumes that none is; `HaltsInOrder` does not.
* The files that are copied fit their headers: `Allocate` does not compare their size
  with `MaxFileSize`, and a larger one is outside the model, which has no `NumDirect`:
  what is proved of any texts is true of the code for those that a header can hold.
  `PerformanceTest` creates a file of length 0, and as files do not grow its writes
  write nothing. Data sectors are not cleared when they are given to a new file.
* File handles are not used after their file is removed; the commands do not.
* Instruction words are not read or written as data; exceptions do not return
  (`exception.cc` halts or asserts); `LWL`, `LWR`, `SWL` and `SWR` reach memory only
  at aligned addresses, because `Translate` refuses the others. In `sequential` the
  operands of OR are equal and those of SRL are not negative (`SRL` shifts an `int`,
  `mipssim.cc:445-455`, and so brings in the sign). A quotient that overflows stops
  the host process, and is modelled so.
* The interpreter in `bin/` does not notice overflows and misaligned addresses, and its
  logical instructions sign-extend their immediates, so the programs it is given have
  no such cases, and no negative immediates there; `SWL` and `SWR`, which end it with a message, are missing too.
* `ConvertsFaithfully` is for executables linked at address 0 without gaps and with one
  section of each name, the convention both converters state, and for coff2flat with
  the sections in the order of their addresses.
* `FilesFound` is for trees that need no more descriptors than a process has (`-comp`
  closes none), without empty directories for `-comp` and `-name` (`ret` is not set),
  and for glob without hidden files (the second pattern is of the wrong directory).
* Only clients of server1 are promised an end. When a client of server.c goes without
  "bye", `recv()` returns 0 for ever and the server echoes nothing to nobody; the next
  client waits. A line that fills `recv_msg` may come back with what follows it in
  memory: `EchoesExact` takes one byte of it for `Junk`, and leaves it out.
* The shell does not look at the end of its input, but executes the last line's first
  word again and again (up to `LastTerminal` lines of output); an empty line crashes it.
  Both are in the model, and `CommandAsTyped` holds of what is executed.

### Fairness

The simulated CPU never stops by itself (weak fairness of the whole next-state
relation). With `-rs` the timer re-arms itself at each expiry (`timer.cc:61-70`), so
a thread that keeps turning interrupts on is preempted again and again: strong
fairness of `Preempt`. `Console` does not assume this but shows it
(`TimerPreempts`), from the clock; it assumes only that the random delay of the
timer is not for ever the shortest one, at which a thread comes out of its yield
only to be preempted again. `CFairSpec` needs no more: `LockProgress` lets a thread
stay in its critical section for ever. `DFairSpec` adds that the disk interrupts and that a thread which is given the CPU again
and again executes the next statement of its call. No fairness is assumed of who
gets a lock: `V()` does not hand it over, and one thread may be overtaken for ever,
which is why `LockProgress` speaks of some thread and not of each. `MFairSpec`: each
machine is started, polls, ends its sends and runs its threads (weak fairness of
each); nothing of what is lost. `CourseSpec`: the host runs every process, and users type
on (weak fairness of each philosopher, client and server process); not that a fork
is free when its process looks, which is why `SomebodyEats` speaks of somebody, and
not that a user is patient. The simulators, the file commands, the thread tests, the
shell and the other sequential programs have safety properties only.

### What the four violated properties show

* `thread.cc:132-136` says that `Scheduler::Run` will call the destructor of a
  finished thread. A thread that runs for the first time starts in `ThreadRoot`,
  not behind the `SWITCH` in `Run`; if it finishes before any thread resumes in
  `Run`, its `Finish` overwrites `threadToBeDestroyed`, and the first thread's
  stack is never freed.
* `synch.h:97` says that `Broadcast` wakes all waiting threads. `blockNum` is
  incremented after the wait, so it is never positive at rest (`BlockNumBalance`),
  and `Broadcast` returns with the threads still asleep, or, when signals are
  remembered (`blockNum` negative), posts on and on.
* `mipssim.cc:376` computes `registers[rs] | registers[rs]`: `OR` ignores its second
  operand, although `machine.h:96` promises a program that it cannot tell the
  simulator from the real hardware.
* `coff2noff.c:200-202` says that `.bss` and `.sbss` must be contiguous if both are
  there. The test refuses them exactly if they are, in this order, and adds up the
  sizes of those that are apart.

Smaller disagreements with comments need no run: a `Signal` with nobody waiting
stays in the semaphore's value, although a condition variable "does not have a
value" (`synch.h:87-88`), and `Wait` releases the lock and sleeps in two steps, not
atomically (127-129). The first is what makes the second harmless, and
`NoSignalLost` states the net effect. And `main.cc:38` names the option of the
network's reliability `-n`, while `system.cc:120` reads `-l`.

## 4. Proofs

All are for any finite set of threads, any semaphores and any bounds.

* `KernelProofs`: `Typing`, `QueuesExact` (together `KernelIsConsistent`),
  `WakeupsAreNotLost`, `CarcassesAreUnused`, `SemaphoresImplemented`,
  `HaltedSleepersAreDue`. The queue theorem is an inductive invariant: besides
  `ReadyListExact` and `WaitQueuesExact` it needs that a thread inside `P()` with
  interrupts off is the current one and that started and finished threads are on no
  list. `NoLostWakeup` is inductive relative to it: a `V()` that finds a sleeper adds
  one to the value and one to the threads that will test it. `AtRest` says that a
  halted machine has nothing ready, nothing current and no interrupt to come; with
  `NoLostWakeup` this gives `HaltedSleepersAreDue`: whoever is left in `P()` then has
  a semaphore of value 0. The modules above use it for what a halt may leave. The
  lemmas `AppendFresh`, `TailFresh` and `EmptyFresh` say what queue operations do to
  the set of members and to distinctness.
* `LockProofs`: `LockIsKernelClient` (every lock step is a kernel step, so the
  kernel's theorems hold of it), `LockInvariant` (the value of `mutex` plus the
  number inside is one, stated without counting: the value is 1 exactly when
  nobody is inside), `LockSafety`, `LockTyping`,
  `LockImplemented`, and `NoLockIsLost`: when the machine halts with threads in
  `Acquire` the value is 0, so by the invariant somebody is inside, asleep.
* `DiskProofs`, first about the synchronous disk: `SynchDiskIsLockClient` (each step is a step of the lock or of
  what its client may do, so mutual exclusion holds of the callers),
  `SynchDiskTyping`, `SynchDiskSafety` (together `SynchDiskIsConsistent`),
  `NoSecondRequest` and `RequestsAreAnswered`. The inductive invariant `SDInv` says
  without counting that the completions posted or to come are one when some thread
  awaits one and none otherwise; with at most one thread between `Enter` and `Return`
  (`OneInside`, from the lock) this gives the equality with the number of waiting
  threads, the idle disk at a return and the unviolated `ASSERT(!active)`.
  `CallersStayAlive` (no thread finishes inside a call) is what
  `RequestsAreAnswered` needs beside it: a halt would leave a caller asleep on the
  completion, which `SDInv` says is posted, or on the lock, which `NoLockIsLost`
  gives to a caller. For any sets of sectors and contents.

  Then about the file system, for any number and size of sectors, any directory, names
  and texts and any number of commands: `FilesStayConsistent`, `OtherFilesAreSpared`,
  `CommandsImplementFiles`, and the last two together as `FilesAreKept`.
  * The inductive invariant `FileInv` (`FileInvariant`) says what is on the disk
    between any two sector writes. The disk is as formatting has left it after n of
    its five writes; or there is a directory t, whole (`Whole`: every file has its
    header and data in sectors of its own, no name is there twice), such that the disk
    holds just t (`Settled`, while data may be written to the file that has been
    made), t and the first n of the four writes of `Create` (`Creating`), or t and the
    first n of the three of `RemoveFile` (`Removing`). `Laid` says how a directory
    and a map lie in their sectors. `AllocateTakesClear` (what `FileHeader::Allocate`
    takes was clear, and each sector once) and `TableOfParts` (what is read back from
    the directory's two sectors) are what the steps rest on. `FilesStayConsistent` follows,
    and also that no sector is lost: when no command is under way the map has
    exactly what the files take.
  * `OtherFilesAreSpared`. A directory entry that lies across the two sectors has,
    between their writes, the sector of the new file and the name that its last file
    had. A file of that name may be there again. It is nevertheless the one that is found,
    for `Directory::Add` takes the first unused entry, so that the name left behind in
    an unused entry is that of no file or of one before it: `OldNames` keeps this, and
    `FoundBetween` says that every other file is found where it was.
  * `CommandsImplementFiles`, the refinement. `ContentsInvariant` says that the part of
    the text that `Copy` has written is on the disk or in a write still to be made, in
    the right bytes of the right sectors (`WriteAtWrites`, which has the clipping, the
    first and the last sector that are written in part, and what was in them
    before), and that `Print` has printed the beginning of the file. So the last step
    of `Copy` is the abstract `CopyIn`, the last of `Print` the abstract `Show`. A file goes
    (`Delete`) with the first write of a directory sector that clears its entry's flag
    (`WriteImplements`), and no other write or step changes a file.
* `ThreadTestProofs`, first about the condition variables: `ConditionIsLockClient`,
  `PhasesAlwaysAgree` (the two program counters fit together), `BlockNumIsBalance`,
  `ConditionTyping`, and `SignalsAreNotLost`, from `HaltedSleepersAreDue`.
  `ConditionIsConsistent` and `NobodyIsForgotten` put these together with what the
  lock's theorems say. Then about the four classes and the tests that use them. In four of
  the five tests a step is one of a monitor's (`MonitorNext`), from which
  `TestsAreConditionClients`: every thread is a client of Condition, and all that is
  proved of it holds (`MonitorsAreKnown` collects this, with what a halt leaves: only
  threads in the `Wait()` of a loop, whose condition has the value 0). The argument
  for each class has the same two parts.
  * What the class keeps. `RingStaysConsistent`: the bytes in use are those from `head`
    on, as many as `usedSize`, and a chunk is written and read whole; from it
    `BufferIsStream`. `TableStaysConsistent`: `used` counts the places that are taken.
    `ListIsQueue`: the list is the abstract queue's contents.
  * What it has promised. `Coming(p, P)` is the number of signals remembered by the
    condition of the loop at p, plus the threads at the points P, which are about to
    signal it, and those at p that are awake. The inductive invariant is that
    what a sleeper waits for (items, elements, room, places) is never more than what
    is coming, so that with nobody awake there is none. It gives `NoRemoverStranded`,
    `NoThreadStranded` (for one chunk size of the threads that have been forked, and
    `ForkedForGood` says that these stay so), `NoReleaserStranded` (for one thread that
    releases) and `NoDLRemoverStranded`: together `NobodyIsStranded`. The hypotheses
    on sizes and on releasing threads are part of the properties: without them a
    signal may reach the wrong one.

  The fifth test calls `SortedInsert()`, which returns with the lock held and whose
  caller asks for it again. `InsertAlwaysKnown` is the lock's invariant for such
  threads, proved from the kernel's steps: the lock is not given twice. The linked
  elements are compared with the sequence that a walk meets: `Linked(s, first, last,
  next)` says that s is that sequence, `WalkMeets` that a walk then meets just that, by
  the least place where it would not (so that no induction over data is needed), and
  `LinkedInserted` and `LinkedTail` what the assignments do to s. `LinkInv` says what a
  thread that yields half way has assigned and may rely on. `WalksAreSafe` and
  `DLListQueues` follow. `TestsAreConsistent` puts the types and counters of all
  classes together.
* `PostOfficeProofs`: `MailTyping`, `SendsAreSeparate`, `ArrivalsAreAnnounced`
  (together `PostOfficesAreConsistent`), for
  any set of machines, threads, mailboxes and messages, whatever is lost or stopped.
  The invariant is a conjunction over the machines: the holders of `sendLock` are the
  threads between `Acquire` and `Release`; `sending` plus `messageSent` is one
  exactly when somebody waits for the end of its send; `messageAvailable` and the
  worker together are one exactly when a packet is buffered; and what `MailTest` is
  about to answer is mail (`AnswerInv`), which the type of the answer needs.

  `MailIsDelivered`: they refine the mailboxes of `AbstractMail`. What is on its way
  to a machine (`Incoming`) is a sequence: the worker's hand, the buffer, the socket.
  The device and the worker pass its oldest packet on and change the sequence for no
  mailbox, because the oldest packet for one is the oldest of those for it
  (`ForBoxOfHead`); a send adds to its end (`ForBoxOfAppend`), a read takes from its
  front, a machine that stops drops its own. The two lemmas are about a recursive
  function, whose values are compared at the least place where they would differ.

  `MailTestHaltsInOrder`, when the command lines name each other (`Paired`, nettest.cc:
  6-8). `HaltInv` follows the five statements of `MailTest` and all mail held for a
  machine: it is from the other one, and mail in box 1 means that the other has sent
  its acknowledgement. So a machine that halts has been read, and one that has still
  to send finds the other on: had that one halted, it would have the acknowledgement.
  Without `Paired`, one that two others name may halt before the second mails it.
* `ConsoleProofs`, about Interrupt and Console with any number of threads, any times
  and anything typed: `ConsoleIsConsistent`, `EchoIsFaithful`, `HaltsOnlyWhenQuiet`.
  * The list. What `List::SortedInsert` returns is the old list with the event put in
    at one place (`IsInsertion`, from the least place of a greater key), so that a
    sorted list stays sorted and the events of the other types stay as many
    (`InsertArms`). `Armed(list, type, b)` says without counting that a type has one
    event on the list or none; insertion, lapse of time and removal of the first event
    (`ScheduledArms`, `ElapseArms`, `TailArms`) carry it, and so does the put-back of
    `CheckIfDue`, which leaves overdue at most a lone timer (`PutBackArms`).
  * The invariant `ConInv` relates each device to its event (`Arms`), what the
    simulation is doing to the threads and the mode (`InService`), each `P()` to the
    one thread that may be in it (`Callers`), sleep to a value of 0 (`Sleepers`), and
    values and pending interrupts to the place of the program and the state of the
    device (`Balance`). When the machine halts by itself, only the timer is armed; so
    no character is on its way, `ConsoleTest` is not running, no request is open, and a
    thread asleep in the `P()` of the disk would find a unit there.
  * Kernel's types and queues are kept because each change of the kernel's variables
    is a step of Kernel or the `V()` of a handler (`StepKeepsTypes`,
    `StepKeepsQueues`, `VKeepsTypes`, `VKeepsQueues` of `KernelProofs`).

  `Callers` needs that a thread which waits for the disk has made a request.
* `PartsProofs`, about class List, the echo servers, the converters of COFF files and
  timewrite, which have only the lemmas about sequences in common, and about the times
  of the disk.
  * The list, for any items, keys and number of elements: `ListInvariant`,
    `ListStaysWellFormed`, `ListIsSequence`. As for DLList, `Linked(s, first, last,
    heap)` says that s is the sequence of the linked elements; `VisitedIs` shows that
    the walk of `Mapcar` and `SortedInsert` meets just s. Its recursive function is
    compared with the prefixes of s at the least place where they would differ. An
    operation that links an element does so at one place (`Links`), whichever of the
    four assignments of `list.cc` it makes, and `LinkedInserted` says that the sequence is then s
    with the element put in there. So `Append` adds at the back, `Prepend` in front,
    `SortedInsert` after every item of no larger key and before one of a larger, and
    `Remove` takes the first: the steps of `AbstractList`.
  * The echo servers, for any clients, scripts, processes and size of `recv_msg`:
    `EchoInvariant` and `EchoesStayExact`. The inductive invariant `EchoInv` has,
    beside what `EchoesExact` says of each connection, that a process is with at most one client
    and a client with at most one process, exactly when the connection is open
    (`OnePerConnection`), and that a client without a connection has said nothing
    (`NothingBefore`). `FlattenGrows`, `WithoutJunkGrows` and `WithoutJunkOfMessage`
    say how the two recursive functions of the property grow with what is sent;
    `PartsAfter`, that the pieces of `recv()` put together are the whole.
    `ClientRecv` and `ServerRecv` then only move the boundary in the equality, and
    `ClientSend` adds the same line to both sides.
  * The disk, for any number of tracks and sectors and any times of rotation and seek:
    `DiskTimeInvariant` and `EveryRequestIsServed`. The code divides times by the
    rotation and subtracts sectors around the track; `NextFullIs` says that what
    `TimeToSeek` adds leads to the next full sector, `ModuloDiffIs` that no smaller
    turn brings the sector under the head, and `FirstUnderHead` puts the two together.
    That a read which `ComputeLatency` takes from the track buffer passed under the
    head before now is `Buffered`: it needs that the head came to the track at a full
    sector, and not later than now, which is `DiskTimeInv`. A seek sets `bufferInit` to a
    moment to come, but one that has come when the next request can be made.
  * The converters, for any executables of any sizes: `CoffInvariant` and
    `ConvertersAreFaithful`. The inductive invariant `CoffInv` says what the first d
    sections have made of the output when d have been copied: each segment of the NOFF
    header is the one section of its names, with its bytes where the header says
    (`HeaderIs`); every byte of the flat file is the one that a section has for that
    address (`FlatIs`), and `top` is the largest end (`TopIs`). One section more
    changes nothing that was written (`InFileMore`), and in coff2flat it begins
    where the file ends (`NextBegins`): an address between the two would be in a section
    already copied or, because of the order, in none, and there are no gaps. At the end
    `NoffSpaceIs` counts the addresses of the four kinds of sections, which are disjoint
    and leave no gap, so that the segments are as long as the memory; `NoffByteIs` and
    `FlatIsMemory` compare every byte. One section of each name is needed because the
    segment of a second `.text` would replace that of the first.
  * timewrite, for any input, old contents of the file, first size and range of `int`:
    `TimeWriteInvariant` and `InputIsWritten` (`InputWritten`, the part of `FilesRight`
    about it). The inductive invariant `TimeWriteInv` says that the file has the first m
    bytes of the input and behind them what it had before (`HasInput`), for an m that is
    at least the offset or all of it: an earlier round, or a piece that was cut short,
    may have written more. In a round the offset is `cnt * buffersize`, and only the
    last piece reached the end, which gives the number of pieces (`RemainderIs`).
    `PutPiece` says what one `write()` does to the file. `NoOverflow` needs that the
    input is at most half of the range of `int`, as `BUFFERSIZE` is: the offset at
    which a piece begins is less than the length of the input and, but for the first
    piece, no less than the size that is added.
* The proofs at the end of `Philosophers`: `Typing`, `ForksAreExclusive`, `NoForkIsLost`,
  `PhilosophersAreConsistent`, `NeverAllWaiting`, for any N > 1. Philosopher i
  takes fork i + 1 first, and the last one, in the other order, fork N - 1. If all
  waited, each fork in use would be somebody's first one; fork 0 is nobody's, so it is
  free, and philosopher 0 waits for fork 1. That is somebody's first fork only if
  N = 2, and its holder waits for fork 0, which is free.

The assumptions are those named in the modules (`KernelAssumption`,
`LockAssumption`, `ConditionAssumption`, `MonitorAssumption`, `SynchListAssumption`,
`BoundedBufferAssumption`, `TableAssumption`, `DLListAssumption`,
`ThreadTestAssumption`, `SynchDiskAssumption`, `InterruptAssumption`,
`ConsoleAssumption`, `FileSystemAssumption`, `FileTestAssumption`, `PostOfficeAssumption`,
`MailTestAssumption`, `ListAssumption`, `EchoAssumption`, `DiskTimeAssumption`,
`CoffAssumption`, `TimeWriteAssumption`, `NAssumption`), and TLC evaluates them in every run. They fix
types, tell `NULL` from threads, semaphores and elements, and give the lock its one
unit; none bounds a number of threads, items, bytes or places
from above. `FileSystemAssumption` asks for the five sectors that formatting takes, a
map of one sector and a directory of two, as in `filesys.cc`.

Only model-checked: every liveness property, which is out of the prover's reach;
both simulators, whose words need `Bitwise`, which
the prover cannot use; the shell (`CommandAsTyped`); and myfind (`FilesFound`), whose
nesting is as deep as its tree.

## 5. Not modelled

* Memory and stacks: allocation, overflow checks, and what the host does with a
  pointer after `delete`. The assembly of the context switch and the calls of the
  host's UNIX (`switch.s`, `sysdep.cc`) are register moves and I/O.
* The disk's latency together with the rest of the system: `DiskTime` has it alone,
  in `SynchDisk` an interrupt comes at any later time, in `Console` after a fixed one.
* `synch-sem.cc` and `synch-sleep.cc`, which no Makefile builds.
* `Prepend`, `SortedRemove` of DLList, which nothing calls (the latter returns with
  the lock held when the key is absent), and `ShowList`, `Print`, `getUsed` and the command `List`,
  which read, some without a lock, and only print. The tests whose bodies are
  commented out, and the parsing of arguments.
* The character whose value is `EOF` (0xff) is not typed at the console.
* `Get` and `getSize` of Table; the place past the end that `Alloc` would look at with
  more allocations than places, which `TableTest` with two threads cannot make.
* The TLB, which the Makefiles do not build; the debugger; the byte swapping of
  big-endian hosts; the stub file system that calls UNIX.
* Tracing and disassembly in `bin/`, and the statistics of its simulator; the user-level
  test programs; the C++ examples; percentages, times and path lengths in the course
  programs; the HTTP server, a subclass of Python's whose own two methods have names
  that nothing calls; the ROS workspace, whose logic is in the middleware, and
  generated files.

## 6. Plan

What is left, in this order:

1. Proofs: the shell and myfind.
2. `DiskTime` in place of the fixed time of `Console`.
3. The unbuilt variants of Lock and Condition against `AbstractLock`, if they come
   to be used, and `SortedRemove` when a test calls it.
