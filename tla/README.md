# A verification development for the bare-metal Raspberry Pi 3 kernel

The repository is a small kernel for the Raspberry Pi 3, built up lab by lab: it boots, reads its
device tree and an initial ramdisk, sets up a page allocator and a chunk allocator, and runs a
shell on the UART. From the shell a user allocates and frees memory, makes threads, starts a timer
that preempts them, forks, sends signals and tries a small file system. This directory holds TLA+
modules of its core, TLC configurations that check them on small instances, and proofs that TLAPS
checks for every value of the constants. Paths such as `src/src/buddy.c` are relative to the
directory above this one.

## Inventory

| Component | State | Operations | Talks to | Modelled in |
|---|---|---|---|---|
| Page frame allocator, `buddy.c` 1-252 | The Array (value and usage of 65536 pages), 17 frame lists | `init_page_array`, `init_frame_list`, `alloc_page`, `free_pages` | shell, chunk allocator, `create_thread`, `__exec` | `Buddy`, `PageAllocator` |
| Chunk allocator, `buddy.c` 254-397 | `par_array` and `par_list` of partitioned pages, a mask and a count each | `allocate_dynamic_memory`, `free_dynamic_memory` | shell, page allocator | `DynMem` |
| Scheduler and threads, `thread.c`, `context.S`, `irq.c`, `exception.S` | run queue (linked list), status of threads, saved contexts, interrupt mask, core timer | `create_thread`, `schedule`, `idle`, `foo`, the timer interrupt, `_switch_to` | shell, interrupts, page allocator, system calls | `Sched`, `RoundRobin` |
| System calls, `syscall.c`, `exception.S`, `context.S` | trap frames, kernel stacks and contexts, signal flags | get_pid, uartread, uartwrite, exec, fork, exit, mbox_call, kill, signal, sigreturn | threads, page allocator, ramdisk | `Process`, `Processes` |
| Heap, `utils.c` 4-21 | `malloc_addr` | `simple_malloc` | everybody | no |
| Timer queue, `time.c` | ring of ten timers | `enqueue_timer`, `insert_timer`, `pop_timer`, `timeout` | shell, core timer | no |
| Interrupt tasks, `irq.c` 15-84 | ring of ten tasks with priorities | `enqueue_task`, `process_task`, `pop_task` | nobody calls them | no |
| UART, `uart.c`, `queue.c`, `irq.c` 122-156 | the receiver; two rings of characters | `uart_getc`, `uart_flush`; `uart_send_async`, `uart_getc_async`, `uart_irq_handler` | shell; the rings nobody | the polled receiver, in `Console` |
| VFS and tmpfs, `vfs.c`, `tmpfs.c` | tree of vnodes, directory entries, file data, positions of open files | `vfs_mkdir`, `vfs_mount`, `vfs_lookup`, `vfs_open`, `vfs_read`, `vfs_write`, `vfs_close`, `mount_initramfs` | heap, shell, ramdisk | `Tmpfs`, `Initramfs` |
| Ramdisk, `initrd.c` | the address of the archive | the walk, `get_cpio_file`, `get_cpio_file_len` | tmpfs, `__exec`, shell | `Cpio` |
| Shell, `shell.c` | the line being edited | `shell_input`, the commands | all of the above | `Console`, `LineEditor`; its commands, as calls |
| Startup allocator, `buddy.c` 399-522 | as the page allocator | `startup_allocator`, `init_startup_array`, `init_startup_list`, `merge_page` | nobody calls it | `Startup` |
| Device tree, loader, mailbox, reboot, boot code, `sprintf.c` | none, or one address | parsers and device access | | no |

What is hard in each, and what makes it correct:

* **Page allocator.** Long sequences of splits and merges must keep two books of the same facts,
  The Array and the lists, in step. Correct: the blocks cut the memory up, none lost and none
  handed out twice; the lists hold exactly the free blocks; every call returns; a free block is
  found while there is one.
* **Chunk allocator.** Two books again (mask and count), in an integer of a certain width, on pages
  found by an address prefix. Correct: no byte is in two chunks, a chunk stays in its page, a freed
  chunk is free.
* **Scheduler.** The one place with real concurrency: the timer interrupt calls `schedule`, which
  writes the links of the list that the interrupted code may be in the middle of writing, and
  nothing masks interrupts. Correct: the run queue is a ring of the threads made and not reaped;
  runnable threads take turns; each ends; the shell comes back only after the last; `idle` reaps
  all that are dead.
* **Startup allocator.** Reserved regions at any place; blocks are merged as the pages are passed.
  Correct: no page wholly in a region is on a list or inside a block, all others are, merged as far as
  possible.
* **System calls.** `fork` copies a stack with frames and return addresses in it and patches it by
  offsets; threads are preempted in their programs, inside system calls and, when they wait for the
  UART, by interrupts above the frame of a call. Correct: every thread is on its own stack, and its
  program, its calls and its results change by its own steps only.
* **Shell.** A line edited in place, with a cursor, in a buffer that keeps earlier lines. Correct:
  the command is the line as edited.
* **Timer queue, task queue, UART rings.** Rings at their limit, sorted rings after a wrap, counters
  shared with an interrupt handler. Hard as code, but nothing that is reached takes anything out.
* **File system and ramdisk.** Lookups that fail half way, full directories, data shared by alias,
  records at aligned addresses. Correct: a path keeps its vnode, open and mkdir find or make the one
  asked for, what is read is what was written to that path, every record of the archive is found.
* **Heap.** Never gives back; returns a string literal when it is full. Correct: objects are
  disjoint and inside the 16 MB.

## Modules

### `PageAllocator` and `Buddy`

`PageAllocator` is the promise to callers: a request is answered with an aligned block that overlaps
nothing still held, or refused, a single page only when every page is held.

`Buddy` is the code. `value` and `usage` are The Array, `frame_list[k]` the list of order k, in the
order of its nodes; `list_add_tail` and `list_del` act on these sequences. `pc` says which loop the
running call is in, and `size`, `target`, `order` and `idx` are the C variables.

| Action | Code |
|---|---|
| `AllocCall`, `SearchFound`, `SearchFailed` | the order of a request and the search for a list that is not empty |
| `Split` | one round of the split loop, with the branches that give up |
| `Take` | the block of the right order is taken and marked |
| `FreeCall`, `FreeUnallocated` | the address to a page, the usage test, the block back on its list |
| `Merge`, `MergeStop` | one round of the merge loop, with `idx` kept as the code keeps it |

`SearchFailed` stands for the search behind the last list, which in the code reads on in memory until
a header does not look like an empty list. What it meets is taken from the layout and not checked:
`init_dynamic_memory` runs right after `init_frame_list`, so `par_array` lies behind `Frame_List`
(17 headers of 24 bytes, nodes of 48), the link of header 17, 19, ... is `max_chunk` of a node, which
is no address, and the loop ends at one of them with an order above 16. (The link of header 18, 20, ...
is the node's own list head, which looks empty, and the loop passes it.)
`free_pages` tests the usage of a page and nothing else. `FreeCall` has that test alone; what callers
must see to is `NotInside`, which `Next` makes a condition of the call: no address inside an
allocated block, be it one that `alloc_page` never returned or a page given back a second time after
it was merged and handed out within a larger block. (The code then takes order -1 and links the page
behind `frame_header[-1]`.) A second free of a page that is free, or that heads another block by
now, is in the model. Addresses are page numbers. A call is not interrupted by another: the timer can interrupt
`alloc_page`, but the threads it lets run (`foo`) call neither function.

### `DynMem`

`par_list` holds a record per partitioned page (`chunk_size`, `chunk_num`, `max_chunk`,
`chunk_mask` as the set of its bits, `base_addr`); `live` is the bag of the chunks that callers hold
and is not in the code. `DmaReuse` and `DmaNewPage` are the two ends of
`allocate_dynamic_memory`, `Fdma` is `free_dynamic_memory` of an address that is typed, held or not.
The size is rounded as the shell rounds it. `atoh` computes what the code computes from the
characters of an address. `alloc_page` is used as `PageAllocator` promises it: a page nobody holds,
or the literal `""`, whose address is a constant outside the page memory.

`atoh` misreads addresses that have a letter in them, as it takes A for 17. `Spec` has the free of any address.
`PlainSpec`, which the run and three theorems use, has the `Fdma` of those only that `ReadRight` admits, the
ones that are read as they were printed; it hands out any, so a chunk whose address has a letter is never
given back.

### `RoundRobin` and `Sched`

`RoundRobin` is the promise to threads: the runnable ones are a queue, the head runs and becomes the
tail, and the boot thread runs to make threads and when none is runnable.

`Sched` is the code. `next` and `prev` are the links of `h_list` and of every `t_list`; `at[c]` is
where thread c is, with the arguments of the list operation it is in; `cur` is `tpidr_el1`; `masked`
is the I bit of DAIF; `in_irq` holds the threads whose saved context lies in the interrupt handler
and which have their interrupts back when they return from it.

| Action | Code |
|---|---|
| `ThreadCommand`, `CreateThread`, `CreateDone` | the shell's `thread` command: five `create_thread(foo)`, then `idle` |
| `TimeCommand` | the `time` command: whatever its argument, it turns the timer on |
| `Add1` to `Add4`, `Del1`, `Del2`, `Unlink` | `__list_add`, `__list_del`, `list_del`: one step per link |
| `Idle` | the loop of `idle` |
| `Schedule`, `ScheduleEmpty`, `Walk`, `Moved`, `Switch` | `schedule` called by a thread, in the steps between which the timer may come |
| `Foo`, `FooReturns` | a turn of `foo`, and its return, which leads to its own start because `lr` holds that address |
| `TimerIrq`, `TimerIrqToBoot`, `TimerIrqLost` | `schedule` called by `irq_handler` |

What is merged into one step: `schedule` in the interrupt handler, because the processor masks
interrupts there; `_switch_to` with its return; the tail of the interrupt handler up to `eret`;
the two reads of `t->prev` in `idle`; the two writes of null at the end of `list_del` with the read of the next
position in `idle` (`Unlink`); `INIT_LIST_HEAD` of the new thread with the read of `h_list.prev`. A thread
that follows a null link or a list that does not lead back goes to the place `wild` and does nothing more. `Path` is what `list_for_each` comes by from `h_list`, `FirstReady` the first
runnable thread of it; the walk of the interrupt, one step, is written with them. The queue of `RoundRobin` is
`Order`: what a walk along `Path` selects (`Selected`) of the runnable threads, and while a thread that was picked is
being moved, that one in front of the others. What `create_thread` does behind `list_add_tail` (file table, signal
fields) touches nothing that `Sched` has. The boot thread's own `Thread` is on no list in `Sched`,
as in the code: `init_run_queue` adds it to a head that is initialised afterwards.

### `Tmpfs`

`node` holds the vnodes with their `tmpfs_data`: a directory has the entries in use, which are the
first ones since nothing is ever removed; a file has the address of its data. `files` are the
opened files with `vnode` and `f_pos`, and `low` is the memory from address 0 on, where all file
data turns out to be. A path is the sequence of names that `strtok` makes of it.

| Definition | Code |
|---|---|
| `Child` | `tmpfs_lookup` |
| `Made` | `tmpfs_create` and `tmpfs_mkdir`, which differ in the type only |
| `VfsMkdir` | `vfs_mkdir`; for a path that exists the name is what is at address 0, as the null `token` says |
| `Reach` | the vnodes that the walk of `vfs_mkdir` comes to |
| `OpenStep`, `OpenSteps`, `VfsOpen` | one round of the loop of `vfs_open`, its rounds, and the whole call |
| `VfsWrite`, `VfsRead`, `UseDirectory` | `tmpfs_write` and `tmpfs_read` of a file, and either of a directory, whose entries are then taken for an address |

`wild` is set where the code calls through a vnode that nobody set, or uses such an address; the
model stops there. Names are never longer than the fifteen characters an entry holds.

### `Cpio` and `Initramfs`

`Cpio` has the format (where headers, names and data of an archive lie: external to the code) and
the code's walk over it: `Walk` are the addresses of its rounds, with the alignments the code makes,
`GetCpioFile` and `GetCpioFileLen` the two lookups. An archive is a sequence of names with data.
`Initramfs` extends `Tmpfs` by `mount_initramfs`: `Mount` makes the directory, `MountFile` is one round
of the loop with `open_initramfs_file`, `MountDone` its end; `addr` is the C variable. `Call` is any
other call of the file system, none of which runs while the loop does: it is one call of the shell.

`open_initramfs_file` puts the directory before the name of the record, and `vfs_open` cuts the whole at the
slashes: `RecordPath` is the path that comes of it, with `Tokens` for `strtok`. Of a record `a/b` the walk
opens `a`, or makes it as a file, and the data go there. `MountComplete` therefore speaks of the first name of
each record, which is the record itself when its name has no slash (`NamesWithoutSlash`), and claims nothing
of the others.

### `Startup`

It extends `Buddy`: the variables are the same, with the loop index `i` and the two regions that are
found at run time, the initial ramdisk and the heap. A region is its first page and its length in
half pages, so that one can end inside a page: `Number` rounds it down as the code does, and `Reserved`, by
which the properties go, are the pages that lie wholly in a region. The page in which a region ends is
marked free by the code and handed out; `StartupExact` says so, and `ReservedKept` claims nothing of it.

| Action | Code |
|---|---|
| `MarkRegion`, `MarkFree` | one round of `init_startup_array` |
| `Link` | one round of the loop of `init_startup_list` that fills list 0 |
| `MergePage`, `NextPage` | one round of the loop of `merge_page`, and its end |
| `AllocatorCall` | afterwards, any step of `alloc_page` and `free_pages` |

### `Processes` and `Process`

`Processes` is the promise to threads: program, calls and result of every thread, changed by its own
steps only, `fork` making a second thread that differs in the result, and the processor going from one
thread that lives to another at any time.

`Process` is the code. `mem` is the memory that kernel stacks are in, a cell for each thing that is
kept there: a trap frame (`elr_el1`, the result register `x0`, the mask in `spsr_el1`), a return
address that `schedule` was called from, or the variables of a function of the thread. `context` holds
`lr` and `sp` of every `Thread`, `cpu` the registers, `cur` is `tpidr_el1`. The kernel does not change the
exception level: threads run where the kernel runs, on their kernel stacks.

| Action | Code |
|---|---|
| `ThreadCommand`, `CreateThread`, `Idle` | the `thread` command, `create_thread`, `idle` |
| `CallFunction`, `ReturnFunction`, `Yield` | what the program of a thread does by itself |
| `Svc` | `svc`, `save_all` and the dispatch of `system_call_handler` |
| `GetPid`, `UartWait`, `UartDone`, `MboxCall`, `Exec`, `Fork`, `Exit` | the handlers, on the frame at `cur_ksp` |
| `LoadAll`, `Eret` | the way out |
| `TimerIrq` | `save_all`, `irq_handler` and `schedule` on the stack of whatever runs |

`schedule` is one step here, since its inner steps are what `Sched` is about. A cell below the stack
pointer and the saved context of the running thread are not read before they are written again, and
are forgotten. `uartread` and `uartwrite` transfer one character; `mbox_call` gives 0 or 1; `exec` finds its
image. User stacks, the bytes of images and the arguments of calls are left out.

### `LineEditor` and `Console`

`LineEditor` is a sequence before the cursor and one after it. `Console` is the code: `cmd`, `idx` and
`end` are the C variables, `fifo` the receiver of the UART, and `at` says what the shell reads next. Each
action is one key of `shell_input` (`Insert`, `Backspace`, `CtrlC`, `Enter`, and `Escape`, `Bracket`, then
`Letter` or `Flush`), and `Command` is the rest of the loop of `shell`, in which a command may read keys
itself. The shell polls, so a key that comes when the receiver is full is lost. `cmd` begins as
the stack has it, and a NUL can be typed.

## Runs

| Run | Instance | Result |
|---|---|---|
| `buddy` | eight pages, orders 0 to 3; requests of 1, 3, 4, 8 and 16 pages | `TypeOK`, `Partition`, `FreeListsExact`, `MergeDeletesLinkedNodes`, `SplitNeverBlocked`, `CallsReturn`, and `Allocator`: `Buddy` implements `PageAllocator` |
| `buddy_merged` | same | `FreeBuddiesMerged` fails: after a merge with a lower buddy `idx` is not moved, and free buddies stay unmerged |
| `dynmem` | pages 9 and 10; chunks of 16, 512 and 2048 bytes, with letters in many addresses; `PlainSpec` | `TypeOK`, `LiveDisjoint`, `MarkedIsHeld`, `BitsInPage`, `ChunkCountExact`, `NoNeedlessPage` |
| `sched` | two thread commands of five threads, two turns each; the timer anywhere but inside the walk, the switch, `idle` and the list operations | `RunQueueExact`, `ShellWaits`, `IdleReapsAll`, `SwitchesToRunnable`, `AllEnd`, and `TakesTurns`: `Sched` implements `RoundRobin` |
| `sched_timer` | two commands of three threads; the timer before every step of the model | `TypeOK`, `ReapedNeverRuns`, `NoNullWrite` |
| `sched_switch` | two commands of two threads; the timer anywhere | `SwitchesToRunnable` fails: the processor goes to a dead thread |
| `process` | two threads, one image, calls one deep; every system call; the timer anywhere but on the way out of the kernel | `TypeOK`, `OwnStack`, and `ThreadsKeepImages`: `Process` implements `Processes` |
| `fork_boot` | same, with the `fork` command of the shell | `OwnStack` fails: the child's stack pointer is outside its stack |
| `startup` | sixteen pages, two regions of one to four pages, some with half a page more | `StartupTypeOK`, `ReservedKept`, `StartupExact`, `MergesAll`, `StartupEnds` |
| `tmpfs` | directories of two entries, five paths of up to three names, five vnodes, two open files; three archives, one with a nested name | `TypeOK`, `NamesUnique`, `TreeShaped`, `LookupFinds`, `PathsStable`, `OpenFinds`, `MkdirMakes`, `MountComplete` |
| `tmpfs_data` | same | `WritesOwnData` fails: the data of every file is at address 0 |
| `console` | lines of up to four characters, every kind of key, a receiver of two characters | `TypeOK`, and `EditsLine`: `Console` implements `LineEditor` |

### Bounds, and why they are enough

Eight pages have every kind of round: a buddy above and below, a merge that goes on after a merge
and one that stops, a split over one and several orders, the largest order with no buddy; nothing in
the loops depends on the number of orders otherwise, and the proofs cover all of them. Requests
include one that is no power of two and one larger than the memory.

In `DynMem` chunks of 16 bytes fill the eight bits a mask can count and leave most of the page
unused, eight of 512 are the page, and chunks of 2048 fill the page first; with two nodes a page is full,
is found again after a free, and the next page is searched behind it. On page 9 the chunks of 512 bytes are at
10009000, 10009200, ..., the sixth and later ones with a letter; on page 10 every address has one. So chunks
that can be given back and ones that cannot share a mask. `MaxParPages` bounds the nodes of `par_array` (65536
in the code), and with it the steps; `Supply` is what `alloc_page` has left.

In `Sched`, `Batch` is five in the code and in `sched`; `MaxCommands` is two so that the second
command finds dead threads on the queue, next to each other and next to live ones; `Iterations`, ten
in the code, is two: a turn that is not the last and one that is. With the timer anywhere the
instances are smaller because a list operation of every thread may be left half done. The bound on
commands is why these runs do not check for deadlock: a user who may type no more stops the system.
`IrqAt` bounds the places of the timer; it is all of them in the code. The run `sched` does not
claim that the code keeps the timer out of the other places. It shows that the scheduler is right as
long as the timer does, and the two runs after it show what goes wrong when it does not.

In `Tmpfs` directories have two entries instead of sixteen, so that they fill up and a third name is
refused, at the root and below it. The five vnodes leave room for a full root and a full directory
below it; the paths have a name at three depths and three names at the root. `LowSize` is two: an
empty string at address 0, one that is the name of a directory, and one that is no name in use.
Nothing is closed or removed, so the instance ends when its vnodes and files are used up, and the
run does not check for deadlock.

The archives have two and three records, with names and data that need padding and ones that need
none, one name with a slash, and names that are paths of the instance, so that a mount meets files and directories that are
there, and full directories.

In `Startup` sixteen pages give the regions room to lie apart, next to each other, at the end of the
memory and in the middle of a half, and leave a half of eight pages that merges as a whole; a region has
an odd number of half pages too, for the rounding. Requests of two and four pages follow the start.

In `Process` two threads besides the boot thread are enough for a parent and its child, and for two
that were made alike; a stack has room for a call, the frame of a system call and the frame of an
interrupt, which is as deep as the code goes when interrupts stay out of `load_all` and `eret`. `IrqAt`
leaves these two out: a thread that is resumed by one which called `schedule` goes through them with
interrupts on, and an interrupt there loses `elr_el1` or leaves one more frame, without bound. The run
claims nothing about that case; it is in the list of hazards. `MaxTid` bounds the threads and so the
system stops: no check for deadlock. A fork leaves room for the threads that the `thread` command still has to
make, so that the bound never cuts `create_thread` short.

In `Console` four characters have an inside, two ends and room for the leavings of a longer line;
`MaxLine` is 99 in the code, which does not check it. The receiver holds eight characters in the device;
two are enough to be full and to be flushed. A full line takes no more characters, so a shell that
meets one waits for ever: no check for deadlock.

### Fairness

`Buddy` has weak fairness of `Step`, the rounds of the loops: a processor that executes a call goes
on executing it. Calls themselves are not fair; nobody need type a command. `Sched` has weak
fairness of `Cpu`, whatever the running thread does next: there is one processor, and it does not
stop. No fairness is asked of the timer or of the user, and none among the threads: that every thread
ends (`AllEnd`) is the work of the scheduler. `Startup` has weak fairness of `Boot`, the loops of
`startup_allocator`, for the reason that `Buddy` has it. The other modules state no fairness and claim no
liveness.

## Proofs

Eight modules hold proofs; each theorem is about the specification that the runs check, or in `DynMem` about
`Spec`, which has more steps, for every value of the constants that the assumptions of its module admit. `DataLemmas` has no theorem of its own, only
lemmas that several proofs cite. The hypotheses below that are no assumptions of a module are written
in the theorems.

| Module | About | Hypotheses | Invariants of the runs | Action properties, refinement |
|---|---|---|---|---|
| `BuddyProofs` | `Buddy` | none | `TypeOK`, `Partition`, `FreeListsExact`, `MergeDeletesLinkedNodes`, `SplitNeverBlocked` | initial states and steps of `PageAllocator` |
| `StartupProofs` | `Startup` | none | `StartupTypeOK`, `ReservedKept`, `StartupExact` | `MergesAll` |
| `DynMemProofs` | `DynMem` | `FitInPage` for the last three, `PlainSpec` for the last two | `TypeOK`, `ChunkCountExact`; `BitsInPage`, `LiveDisjoint`, `MarkedIsHeld` | `NoNeedlessPage` |
| `ConsoleProofs` | `Console` | none | `TypeOK` | `EditsLine`: all of `LineEditor` |
| `ProcessProofs` | `Process` | `ForksByThreads`, `IrqInside` | `TypeOK`, `OwnStack` | |
| `TmpfsProofs` | `Initramfs` with `Tmpfs` and `Cpio` | none | `TypeOK`, `NamesUnique`, `TreeShaped`, `LookupFinds` | `PathsStable`, `OpenFinds`, `MkdirMakes`, `MountComplete` |
| `SchedProofs` | `Sched` | `TimerOutside` | `TypeOK`, `RunQueueExact`, `ShellWaits` | `IdleReapsAll`, `TakesTurns`: all of `RoundRobin` |

### Assumptions and hypotheses

The assumptions (`ASSUME`) are about constants and are evaluated in every run. Most say that a bound
is a number and a set of inputs is of the right kind. Four say more: `Pow2Assumption`, that the table
holds the powers of two; `RequestsAssumption` of `DynMem`, that a size is at most 2^30, for above it the
shell has no size of a chunk and an `int` would not hold it; `ImagesAssumption`, that programs are not
in the kernel; `PathsAssumption` and `ArchivesAssumption`, that names have characters and no NUL in them,
as `strtok` and the archive give them.

The hypotheses say where the code is right, for it is not right everywhere:

* `FitInPage`: a request is for at most a page. Without it a mask has bits behind the end of the page.
* `PlainSpec` in place of `Spec`, with `ReadRight`: callers give back no address with a letter in it
  (`ReadWithoutLetters` is the theorem that says which addresses `atoh` reads right); `dma` may hand out
  any. Without it a free clears another bit than that of the chunk, and `LiveDisjoint` and `MarkedIsHeld` fail.
  The books of a page, type, count and mask, are in order without either.
* `NotInside`, a condition of the call in `Next` of `Buddy`: nobody gives back an address inside an
  allocated block (see `Buddy` above). It is in the specification, so in every run and theorem of `Buddy` and
  `Startup`.
* `ForksByThreads`, `IrqInside`: the boot thread does not call `fork` (the run `fork_boot` shows what
  becomes of the child), and no interrupt comes in `load_all` or before `eret`, where it would overwrite
  `elr_el1`.
* `TimerOutside`: the timer is never started, or interrupts only where nobody holds a pointer into the run queue, at
  the prompt, between two `create_thread`, in `foo` and on the way to `schedule`. Without it there is no ring:
  `RunQueueExact` does not hold. What the interrupts inside put at stake, `ReapedNeverRuns`, `NoNullWrite` and
  `SwitchesToRunnable`, is no theorem for that reason; `sched_timer` and `sched_switch` are about it.

`MCDynMem` and `MCProcess` assume the hypotheses about constants, so TLC evaluates them; the run `sched` has
`IrqAt` equal to the places that `TimerOutside` admits.

### Inductive invariants

**`Buddy`.** `IInv` is `TypeOK`, `Partition` and `FreeListsExact` with three more conjuncts. Without them
the step lemmas fail: `BlocksInside` (a block ends inside the page memory, so that the page after a lower
half exists), `SplitHasBlock` (the loop that splits has a block to split, of an order not below the
target) and `MergeIdx`, the one that is not evident. `free_pages` computes where a merged block
begins and does not move `idx` there. `MergeIdx` says that `idx` still heads the block on the list of
`order`, or else is no multiple of that order's size; in the second case its buddy is no multiple
either, so it heads no block of that order and is on no list, and the loop stops. That is why the
missing assignment leaves buddies unmerged and never deletes a node that is not linked.

The argument goes action by action: list lemmas (`ListAdd`, `ListDel`) say what appending and deleting
do to membership and distinctness; arithmetic lemmas (`Euclid`, `Xor`, `HalvesAligned`, `PowFacts`)
say where halves and buddies of aligned blocks lie; `SplitInv` and `MergeInv` are the two long ones,
in which two blocks become one or one two and the partition is rebuilt. `Refinement` uses `IInv`, and
the fact that only `Take` and `FreeCall` change what callers hold.

**`Startup`.** `SInv` has a part for each loop. `Marking` says that `i` is never inside a region, which
is why a page is marked once; `Linking` that the list of order 0 holds the free pages below `i`;
`Merging` that whatever could still be merged among the pages up to `i` has `idx` in it. The last gives
`MergesAll`: when a round ends and `i` moves on, nothing that could be merged is left behind. Then `Core`, which
is `IInv` of `Buddy` without the demand that blocks cover all pages, and `Covering`, that they cover
what is not reserved; the step lemmas of `BuddyProofs` are about `Core` and serve both.

**`DynMem`.** Three layers, each inductive with those under it. `Books`: the count of a page is what
its mask leaves of `max_chunk`, no bit beyond the eighth is ever set, and the chunks that are held are
inside what the types say. `Sized`: a page has the size of some request and no bit for a chunk behind its end. `Exclusive`:
two nodes never have the same page and no page is in the supply and in a node (`PagesOwned`), a chunk that
is held has its bit (`HeldIsMarked`) and a bit its chunk (`MarkedAreHeld`). The two last are each what
`Fdma` needs for the other.

**`Console`.** `TypeOK` is inductive: the bounds of `idx` and `end` and the NUL behind the line come from
each other. The refinement maps the buffer before and behind the cursor to the two sequences of
`LineEditor`; lemmas say what the loops that shift the buffer do to both.

**`Process`.** `Running` and `Saved` tie registers and contexts to the cells of the stack they lead to:
a frame of a system call lies at most `Depth` cells below the top, with the frame of one interrupt above it
at most, and `lr` in a context says which kind of cell is at its `sp`. `Numbered` keeps room for the threads
that the `thread` command still makes. `OwnStack` alone says nothing about the cells, and a
`load_all` takes its next program counter from one. `fork` needs that the child's region is a copy of the parent's and disjoint
from every other.

**`Tmpfs`, `Initramfs`.** `Tidy` says that the vnodes are a tree: every entry leads to a younger vnode,
every vnode but the root is in exactly one entry. That entries lead to younger ones is what makes it a tree
without speaking of paths or of recursion. `Opened`: opened files are vnodes. `MountInv`: the
address of the walk is that of a header, and while there is room the first name of every record before it is in the
directory. What paths lead to is proved for the functions of the modules (`Trail`, `OpenSteps`, `Reach`,
`Walk` of `Cpio`) by the first place where a claim about them would fail; `LookupFinds` and `MountComplete`
rest on the lemma that the two alignments of the code lead from a header to the next, for any lengths.

**`Sched`.** `IInv` is `Typed`, `Others` and `Linked`. `Linked` says that there is a sequence of threads,
the ring, and that the links are those of the ring except for the writes of the one list operation that is
under way: `Adding` and `Deleting` have a conjunct for each write that is still to come, `Unlinked` and
`Dropping` stand for the state between unlinking a thread and linking it behind the last or clearing its
links, and `Calm` for all other places. `Calm` also says where the loops stand: `idle` has no dead thread
behind it, the walk of `schedule` no runnable one, the switch leads to a runnable thread or to the boot
thread when there is none, and nobody runs while the shell reads a command. `Others` keeps whoever does not run
outside the list (`Waits`), which is what `TimerOutside` gives. The proof has lemmas about rings (a thread
linked behind the last, one cut out, what every link then is), a lemma for each action, and `FirstFacts`,
which says that on a ring the path of the interrupt's walk is the ring. `RunQueueExact` by itself says
nothing in the middle of a list operation.

`TakesTurns` needs one invariant more, `Turns`: a thread that takes its turn in `foo`, and one that the switch leads to,
is the last of the ring, and nobody who waits is in a `list_move_tail`. The lemmas about `Selected` say
what it is when the queue gets an element more, loses one that is not selected or has the first or the last one
taken out; then each action is a step of `RoundRobin` or leaves `Order` alone. The writes of `list_move_tail`
leave it alone, because the picked thread is its head from the choice on and the last of it after the switch,
wherever the thread is linked in between.

### Definitions by recursion

The provers do no induction over data by themselves. `DataLemmas` derives from the library's theorem on
well-founded orders of the natural numbers that a set of numbers has a least element, and from that `Induction` for a set and
`Recursion`, `Stepwise` for functions defined by recursion. So the modules define what is recursive in the code, a
walk over a path, a list or an archive, as a function of the number of steps, and the proofs speak of the
first step at which it would go wrong.

### Only model-checked

* Liveness: `CallsReturn`, `StartupEnds`, `AllEnd`, and the fairness that `PageAllocator`
  has. The prover has no rule for fairness, and none for `ENABLED`.
* `ThreadsKeepImages`, that `Process` implements `Processes`: not proved yet.
* `Sched` with the timer anywhere: `ReapedNeverRuns` and `NoNullWrite` by the run `sched_timer`, where the
  lists are no rings and the invariant above does not hold, and the failure of `SwitchesToRunnable` by
  `sched_switch`. In `sched`, with the timer outside, that property is about the walk of `schedule` alone.
* What the hypotheses leave out.

## Not modelled

The table of components in `PROJECT.json` gives the reason for each part left out. Within the
modelled ones: the addresses behind the page memory that the search of `alloc_page` reads when
nothing is free, a free of an address inside an allocated block, the text of the output
(and the buffer that `printf` shares between threads), the user stacks and the user mode
programs, names that overrun an entry, and what `vfs_read` copies out. When `alloc_page` has no page
left, `dma` makes chunks of the literal it returns; `AllocPage` has this case, and the instances of
`DynMem` end before it. Requests for more than a page and frees of addresses with letters are outside its run
too: `DmaNewPage` and `atoh` compute what the code computes, and `LiveDisjoint` and `MarkedIsHeld` fail
with them, as `PROJECT.json` says under its hazards.

Left out as a whole, and why:

* The UART rings, `shell_input_async`, the task queue: every call that would start them is in a comment,
  and `_uart_irq` overwrites its return address and would not come back from the first interrupt.
* `timeout` and what it calls: `irq_handler` calls `schedule` in its place, so timers are only ever put in.
* kill, signal and sigreturn: kill sets a flag that `check_signal` reads, whose call is in a comment;
  signal runs the handler in the kernel at once; sigreturn reloads a context that is the running thread's
  own and stale.
* The heap: objects are taken as distinct. A preemption inside `simple_malloc` could make two of them one.
* Device tree, loader, mailbox registers, reboot, formatting: no state, or the device's.

## Plan

Written: `PageAllocator`, `Buddy`, `BuddyProofs`, `Startup`, `DynMem`, `RoundRobin`, `Sched`, `Processes`,
`Process`, `Cpio`, `Tmpfs`, `Initramfs`, `LineEditor`, `Console`, and the MC module of each instance.

Proved: what the table under Proofs lists.

Proofs to come, in this order:

* `ThreadsKeepImages`: `IInv` of `Process` with the images of all threads, in the cells that `Running` and
  `Saved` name.
* `Sched` with the timer anywhere: `ReapedNeverRuns` and `NoNullWrite` from an invariant about single
  links, since there is no ring.
* The composition of `DynMem` with `Buddy` in place of its promise.
