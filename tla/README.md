# Verification of the ICS lab programs

TLA+ models, model-checking runs and machine-checked proofs for the programs
of this repository. The repository holds one student's solutions to the ten
labs of a computer-systems course. Its own logic is in seven programs: a shell
(lab9), an HTTP proxy (lab10), a memory allocator (lab7), a cache simulator
(lab8), a simulator and an assembler for the Y86-64 instruction set (lab4,
lab5) and the control logic of a pipelined Y86-64 processor (lab6).

## 1. Inventory

| component | state | operations | interacts with | hard behaviour | correct when |
|---|---|---|---|---|---|
| **Shell** `lab9/tsh.c` | job list, `nextjid`, blocked signals, locals of `eval` and `do_bgfg` | launch, `fg`, `bg`, `jobs`, `quit`; handlers of SIGCHLD, SIGINT, SIGTSTP, SIGQUIT | kernel (fork, kill, waitpid), terminal, children | handlers interrupt `main` and each other anywhere; signals merge; children stop and end at any time | the list agrees with the children, one job in the foreground, the prompt comes back, keys reach the foreground job only |
| **Job list** (in `tsh.c`) | `jobs[MAXJOBS]`, `nextjid` | `addjob`, `deletejob`, searches | shell | full list, ID wrap-around, reuse of cleared slots | one slot per process, an ID finds its job |
| **Proxy** `lab10/proxy.c` | per thread: two connections, lengths, flags; shared: log file, semaphore | `main` accepts, `doit` forwards a request and a response and logs it | clients, servers, `csapp.c` | threads, half-closed peers, bodies with and without length | what is forwarded is what came, one whole log line per response, every connection closed |
| **Robust I/O** `lab10/csapp.c` | a descriptor's `rio_t` (buffer, pointer, count), locals of the call in progress | `rio_readn`, `rio_readnb`, `rio_readlineb`, `rio_writen` | the kernel's `read` and `write`; the proxy's wrappers | short counts, interruptions, failures, the end of the other side, a count of -1 | behind it a descriptor is a stream: nothing repeated, out of order or lost, and every call ends |
| **Allocator** `lab7/mm.c` | heap words, `heap_listp`, `just`, `end`, trace modes | `mm_init`, `mm_malloc`, `mm_free`, `mm_realloc` | `memlib.c` | boundary tags rewritten in place, cached pointers into the heap, modes tuned to traces | blocks tile the heap, live blocks do not overlap, contents survive |
| **Heap memory** `lab7/memlib.c` | `mem_brk` | `mem_sbrk`, bounds | allocator | exhaustion | the break stays in range |
| **Cache simulator** `lab8/csim.c` | sets of lines (valid, tag, time), three counters | one access per trace line | trace file | ties of the clock, address widths | counts are those of an LRU cache |
| **ISA simulator** `lab4/y64sim.c` | PC, registers, condition codes, memory | `nexti` | binary file | failures in the middle of an instruction | each step is the instruction's meaning |
| **Assembler** `lab5/y64asm.c` | symbol table, relocations, lines, address counter | parse, relocate, write | source file, `.bin` for the simulator | forward references, layout directives | every use of a symbol gets its address |
| **Pipeline control** `lab6/pipe/pipe-full.hcl` | five pipeline registers | one clock cycle | register file, memory | forwarding, stalls, bubbles, exceptions, the andq/jle short cut | the same results as the sequential machine |
| **Sequential machine** `lab6/seq/seq-full.hcl` | PC, registers, codes, memory | one instruction | `ssim.c`: memory, pending writes | two writes to one register in a cycle | the same results as `isa.c` |
| **`yas`** `lab6/misc/yas.c` | symbol table, address, pass | the two readings of a file | source file, `.yo` for the simulators | both readings must agree on addresses; errors do not stop it | the same bytes as the other assembler's |
| **Transpose** `lab8/trans.c` | the arrays | three loop nests | the cache they are graded on | index arithmetic, elements that wait in the wrong place | the transpose is in B, with few misses |
| **Bit puzzles** `lab1/bits.c` | none | pure functions | | overflow | equal to their definitions |

How they interact. The shell talks to its children through the kernel's signals
only. The proxy's threads share the log and the heap of `client_item`s, and meet
their peers through descriptors, which they read and write by the Rio functions of
`csapp.c` and three wrappers that turn a failure into a count of 0. The allocator is driven by
`mdriver`'s traces on the memory of `memlib.c`. The assembler's files run on
`y64sim`, on `yis` (`isa.c`), on `ssim` (the sequential control logic) and on
`psim` (the pipelined one); the last two compare themselves with `isa.c` when
started with `-t`. The transposes are graded by `test-trans`, which gives their
accesses to a cache simulator. `yas` is the assembler that comes with the
simulators of lab6 and reads the same language as that of lab5.

Not modelled at all: the course's harnesses `btest` and `yat`, timers, generated
parsers, the bomb of lab2 (a disassembly), the bit puzzles, and the drafts of the
allocator and of the proxy that no Makefile builds (`mm0.c` ... `mmy.c`, `dy.c`,
`g.c`, `pr.c`, `proxyw.c`, `wait.c`, `yes.c`).

## 2. Plan

The order is that of the concurrency and state each program has.

1. **Shell** (done): `JobList`, `Tsh`, `JobControl`, `JobIds`; proofs.
2. **Proxy** (done): `Proxy`; proofs of all its safety properties. Under it `Rio`,
   shown to implement `Stream`, by TLC and by proof.
3. **Allocator** (done): `Heap` (what is promised), `Allocator` (boundary tags and
   modes), the refinement; `MemoryProofs` for the promise itself and for all of
   the allocator's properties in its normal mode.
4. **Pipeline** (done): `Y86` (the instruction set), `Isa`, `Pipe` shown to
   implement it, by TLC and by proof; `PipeProofs`.
5. **Simulators** (done): `Simulators`, three machines in lockstep;
   `SimulatorsProofs`.
6. **Cache** (done): `Cache`, `Lru` and the refinement; `Transpose`, which drives
   the cache; `MemoryProofs`.
7. **Assemblers** (done): `Asm`; `Yas`, compared with it; `AsmProofs`.
8. Left. Proofs: every safety property that a run checks has a theorem, but for
   the two of the transposes, which have no parameters (section 10), and the
   modes 1 to 3 of the allocator. Models: the bit puzzles of lab1.

## 3. The shell

### Modules

| module | what it is | code |
|---|---|---|
| `JobList` | the job list as data: `addjob`, `deletejob`, `maxjid`, `fgpid`, `getjobpid`, `getjobjid`, `clearjob`, `initjobs` as operators over the array of slots | `tsh.c` 447-577 |
| `Tsh` | the shell: `main`/`eval`/`do_bgfg`/`waitfg`, three handlers, terminal, children, and the kernel's fork, kill, stop, reap and signal delivery | `tsh.c` 120-442 |
| `JobControl` | abstract: every process has a mode (none, FG, BG, ST) and the user a prompt; its transitions are the table in the comment at the head of `tsh.c` | `tsh.c` 25-37 |
| `JobIds` | the numbering of jobs alone: any sequence of additions and deletions, so that IDs wrap | `tsh.c` 480-521 |
| `MCTsh`, `MCJobIds` | symmetry for model checking | |
| `JobListProofs`, `TshProofs`, `JobIdsProofs` | theorems | |

`Tsh` and `JobIds` extend `JobList`; `Tsh` instantiates `JobControl` with a
refinement mapping (`modeOf`, and "prompt" for `pc = "read"`).

### State and actions

`jobs` and `nextjid` are the globals; `pc`, `cmd`, `pid`, `job` stand for the
main flow and the locals of `eval` and `do_bgfg`; `masked` is the process's
signal mask; `stack`, `hpc` and `hpid` are the handlers in progress, innermost
last, with their program counters and local `pid`. `sa_mask` is empty in
`Signal()`, so a handler blocks only its own signal and any other may interrupt
it: `Deliver` pushes a handler whenever its signal is pending, it is not
already running and, for SIGCHLD, not masked. Main moves only when the stack is
empty and a handler only when it is on top.

A step is one access to state that an interrupt can touch. Thus `do_bgfg` is
`BgFgByJid` (the slot is found), `ReadJobPid` (its pid is read), `KillCont`
(SIGCONT is sent), `SetFg`/`SetBg` (the state is written), and SIGCHLD may be
handled between any two. `sigchld_handler` is a loop of `Waitpid...` steps,
each with the step that deletes the job or marks it stopped. Errors are steps
of their own that set `status`: `ForkFails`, `KillContFails`, `ForwardFails`
(each ends the shell through `unix_error`), `AnnounceNull` and `MarkNull` (a
NULL pointer is read or written).

A child is `forked`, `grouped` (after its `setpgid`), `running` (after
`execve`), `stopped`, `zombie`, or `free`. A process group exists from `setpgid`
to the reaping; `kill` on another fails. SIGCHLD is one bit in `pending`; a stop
not yet returned by `waitpid` is in `unreported`, and SIGCONT discards it.

Simplifications, all of them about the environment:

- each job is one process and leads its own group (`mysplit.c` forks a second
  one, which the shell does not see either);
- SIGCHLD for a continued child is left out (the handler would find no news);
- a stopped child is not killed from outside the shell;
- a child between `fork` and `execve` still has the shell's handlers and a copy
  of a job list in which it is not listed: it swallows keyboard signals;
- a process ID may be given to a new child as soon as it is reaped;
- a pending signal may be delivered later than POSIX would;
- `setpgid(0, 0)` of a child just forked succeeds: the child's exit on a failure
  (tsh.c:194) is left out, for a process that leads no session and has not executed
  anything may always make a group of its own;
- parsing, redirection and the text of messages are left out.

### Properties

`TypeOK`; `ListedAlive` (every listed process is an unreaped child or the one
being deleted); `ListedOnce` (one slot for a process, no listed job without
state); `Tracked` (no child is lost while all fit the list); `StoppedIsStopped`
and `StopsShown` (what is shown as stopped is, and the reverse);
`BackgroundSpared` (no step sends a keyboard signal to a job listed in the
background); `AtMostOneFG` and `PromptFree`; `NewsHandled` (each end and each
stop is handled although SIGCHLDs merge); `WaitReturns` (`waitfg` does not wait
for a job that has ended or stopped); `Promise` (the shell implements
`JobControl`). For the numbering: `JidFindsJob`, `JidsBounded`.

`AtMostOneFG`, `PromptFree`, `StopsShown`, `WaitReturns` and `Promise` do not
hold of the shell as it is. They hold of `SpecHeld`, in which no SIGCHLD is
delivered inside the steps of `do_bgfg`: so the defects have one cause, the
missing block of SIGCHLD round `do_bgfg`, and `SpecHeld` shows that such a block
would be enough for them.

## 4. The proxy

`Proxy` models `lab10/proxy.c`. `main` allocates a `client_item` (`Malloc`),
accepts a connection into it (`Accept`) and starts a thread with its address
(`Create`); the thread copies and frees it (`Start`) while `main` is already at
the next. `doit` is one action for each read, connect, close, lock and write,
with all early returns: `Bail` is the four places that close both connections,
and the others go straight to `CloseClient`. Descriptors are numbers given out
lowest first and reused after `close`, so that a mix-up of two connections would
show. `Close` ends the program when `close` fails, as the wrapper of `csapp.c`
does; -2 of `open_clientfd` is carried as a descriptor, as in `doit`.

A message is a sequence of items: first line, `Content-length` if any, blank
line, bytes. Reading an item and forwarding it is one step. A log entry is
written in two pieces: a line may have MAXLINE bytes, more than the buffer of
`stdio` holds. Peers are external: a client sends one request; a server answers
once it has the whole request, and closes when its answer states no length; each
may close (`PeerEnds`, what was sent can still be read) or reset (`PeerCuts`, it
is lost) at any time. Lines longer than MAXLINE are left out, and so is the end
of chunked bodies, which the code's one-byte buffer never sees.

Properties: `Descriptors` (every open descriptor is held for the connection it
stands for, by exactly one thread, from `accept` to `close`: nothing is leaked,
closed twice or used for another connection); `Forwarded` (what each side gets
is the beginning of what the other sent, whatever fails); `LogWhole` (entries of
different threads do not mix, one at most for a thread); `LoggedTrue` (a logged
response was complete if it stated a length, and the size is what the client
got); `CompleteLogged` (a response with a stated length and a body that was
received whole is in the log when its thread ends: none of the early returns is
taken after the last byte; without a stated length this fails, section 11);
`ThreadEnds` (every connection is closed in the end). TLC's deadlock check
also says that no thread is left waiting for the semaphore. `ProxyProofs` has
the theorems, section 10.

### Under the proxy: the Rio functions

| module | what it is | code |
|---|---|---|
| `Stream` | abstract: reads are answered with the next bytes or the next line of what arrived, writes pass on all; a call that fails answers with nothing | |
| `Rio` | the Rio functions on one descriptor, with the proxy's wrappers | `csapp.c` 745-893, `proxy.c` 160-215 |
| `MCRio` | two characters, one of which ends a line; the proxy and the descriptor side by side | |

`Proxy` takes a read or a write for one step, and relies on getting an item or the
end. `Rio` is what such a step consists of. `rio_buf`, `rio_bufptr` and `rio_cnt`
are the `rio_t`; `call` is the function in progress with its arguments and
locals, `reply` what its wrapper returned. A step is one `read` or `write` of the
kernel (`Refill`, `rio_readn`, `WriteSome` with any short count, `ReadEnd`,
`ReadInterrupted`, `ReadFails`, `WriteFails`), one copying from the buffer
(`CopyBytes`, `CopyChar`) or the return (`ReadDone`, `WriteDone`); characters arrive
(`Sends`) and the other side ends (`Hangs`) between any two. An interrupted
`rio_readn` or `rio_writen` changes nothing and is no step; an interrupted
`rio_read` leaves -1 in `rio_cnt`. A `write` that returns 0, a `maxlen` of 0 for
`rio_readlineb`, and the use of one descriptor both with and without a `rio_t` are
left out: the proxy does none of them. Properties: `IsStream` (`Rio` implements
`Stream`; a character given to the caller is the next one that arrived, whichever
buffers it went through) and `CallEnds` (every call returns once the other side
has ended, whatever was interrupted in between).

## 5. The allocator

| module | what it is | code |
|---|---|---|
| `Heap` | abstract: what the driver may rely on, whatever the allocator | `mdriver.c` |
| `Allocator` | `mm.c` on the memory of `memlib.c`, called by the driver | `mm.c`, `memlib.c` |
| `MCAllocator` | the traces, and small constants for the modes | |
| `MemoryProofs` | `BlocksApart`, on an instance of `Heap`; the theorems on `Allocator` | |

In `Heap` a request gives a block words nobody else holds, or fails and changes
nothing; a block may move when it is resized, and keeps what fits of its data.

In `Allocator` the static variables of `mm.c` and the memory are one record `h`,
and each function is an operator that returns the new `h` and its result, as the
functions call each other. Addresses and block sizes count double words, so that
a header is one word of memory and its payload starts at the next; a word holds
a tag, data of the caller (marked with the block's name), or nothing known. What
the code does with a word that is no tag is not determined: the result is
`WILD`, and `lost` records it: the request has gone astray (`Astray`). The driver
does not notice. It goes on to make requests, holds whatever it is given for them,
and from there on nothing is known of the heap: live blocks may be damaged or given
twice. `Malloc`, `Realloc` and `Free` are the driver's
replay of a trace line. The four modes of `mm.c` (0, and 1 to 3 chosen by the
size of the first request) are all there; their constants are parameters `R`
and `Q`, so that a small heap runs full as the real one does.

Properties: `WellFormed` (the blocks tile the heap, header and footer
agree, no two free neighbours: `mm_check`); `Accounted` (the allocated blocks are
those the caller holds); `OnlyGrowthStrands` (the recent position `just` stops
being a block only in a `realloc` that grows into its neighbours); and while
`just` is a block, `Determined` (no word is read as a tag that is none) and
`FailsOnlyWhenFull` (a request fails only if no free block is large enough);
`Implements` (each request is one of `Heap`, unless it goes astray). `JustValid`,
which says that `just` is always a block, is not among them: the merges of `realloc`
break it, see section 11. Nor does any of these hold for ever: `WellFormed`,
`Accounted` and `Implements` are about the time until a request goes astray
(`~lost`), and `Determined` says when that may be, after a `realloc` that has
stranded `just`. Traces that reach this are in the run. So what is shown of `mm.c` is
that it is a correct allocator up to the first search from a stranded position, and
that only the two places of section 11 strand one. `MemoryProofs` has all of this as
theorems for the normal mode.

## 6. The Y86-64 machines

| module | what it is | code |
|---|---|---|
| `Y86` | words, registers, memory, ALU, conditions, and one operator for what an instruction does | `isa.c` |
| `Isa` | abstract: a machine that executes one instruction a step | `isa.c` `step_state` |
| `Pipe` | the pipelined processor, a clock cycle a step | `pipe-full.hcl`, `psim.c` |
| `Simulators` | `isa.c`, the sequential processor and `y64sim` in lockstep, an instruction a step | `seq-full.hcl`, `ssim.c`, `y64sim.c` |
| `MCCode`, `MCPipe`, `MCSimulators` | the programs | |
| `PipeProofs`, `SimulatorsProofs` | theorems | |

`Pipe`'s one action `sim_step_pipe` is `psim.c`'s function: it writes what the
last cycle left pending, moves the pipeline registers as the last cycle's stall
and bubble signals say, and computes every signal of `pipe-full.hcl` (the short
cut for `andq` before `jle`, `iaddq` and the forwarding among them). `psim.c`
evaluates memory, execute, decode and fetch in that order, and so does the
model. `Simulators` has ssim's pending writes, which are done at the start of
the next cycle, and `nexti` of `y64sim` as the set of its outcomes: it tests
register numbers before it reads them, and what the test sees is whatever the
stack held.

Simplifications: an instruction has one address and the next one is one more;
data memory is counted in words and lies apart from the program, so that code
does not modify itself and no address is misaligned; a word has `WIDTH` bits (and
an int `INT_WIDTH`); register numbers are those of `REGS`, or none.

The machine of `psim` and of `ssim` that is compared is the one `-t` compares: their
register file as it is when they stop, whatever is still pending. `isa.c` stops at
an instruction without a register that it asks for (`Refused`), where the
processors go on.

Properties: `Implements` (each instruction that reaches write-back has done to
registers, memory, codes, counter and status what `isa.c` does, but that `%rsp` has
not moved when the access of a `pushq`, `call` or `popq` fails; it is true of the
programs that are `Regular`, section 11 says what goes wrong in others); `NoConflict` (no
pipeline register is told to stall and to take a bubble at once); `Precise` (when
`psim` stops, nothing behind the instruction that stopped it has touched the
codes); `Progress` (while `psim` runs, instructions keep reaching write-back);
`SeqAgrees` (ssim has the state of `isa.c` after every instruction, but for that
`%rsp`, and until an instruction that `isa.c` refuses); `Y64Agrees`
(so has `y64sim`, but for five known differences, section 11).

## 7. Cache and transposes

| module | what it is | code |
|---|---|---|
| `Lru` | abstract: sets of up to E blocks, the least recently used goes | |
| `Cache` | the simulator: sets of lines, `access` | `csim.c` |
| `Transpose` | the three graded functions with their accesses on the graded cache; and any trace of a few accesses | `trans.c`, `tracegen.c`, `test-trans.c` |
| `MCCache` | the geometries | |
| `MemoryProofs` | `SimulatorIsLru` | |

A step of `Transpose` is one turn of a function's inner loop: the loads and
stores it makes, in the order of the code, to the arrays and to the cache. With
`fn = "any"` the accesses are any, and the clock may stand still between two of
them, as `clock()` does. A tag is an int (`INT` values). `used_time` is an int too,
and takes a `clock_t` (csim.c:146): it wraps after 2^31 ticks, half an hour of
processor time, which is not modelled.

Properties: `ImplementsLru` (csim is an `Lru`, as far as its clock can tell uses
apart); `Transposed` (the last turn that stores an element of B has stored the
right one, and nothing later disturbs it: the steps past the end of the rows on
61x67 included); `FewMisses` (misses stay under what full marks allow).

## 8. The assemblers

`Asm` models `lab5/y64asm.c`. A line of the input is a record of its tokens
(label, operation, symbol, value), or bad. `parse_line` makes bytes, a symbol
and a relocation of it, with `parse_error` for what it rejects; `end_of_file`
starts the second pass, `relocate` fills in one use and `relocate_error` stops at
an unknown symbol; `binfile` puts one line into the image, and `written` ends the
program. The image has as many bytes as `vmaddr` says in the end. A line that does not
lie inside it (`Inside`) is written outside of what `malloc` has given, and that is
the end of the model (`binfile_overrun`): what becomes of the heap and of the
program then is undetermined. `Yas` models the other assembler, `lab6/misc/yas.c`, on the same file:
`label_line` and `code_line` are its `finish_line` in the first and the second
reading, `between_passes` and `finished` its `main`; `limit_exceeded` is the exit of
`print_code` at a line whose address has more than four digits, `LIMIT`. `NextBoth` runs one after
the other. `MCAsm` has the files.

Properties: `Resolved` (the file has the bytes of every line at its address,
labels used before their definition filled in, and ends with the last byte
given, inside the image that was allocated, and nothing is written outside);
`Decides` (the assembler ends, with an error for exactly the inputs with a line that
cannot be read or a symbol without its one label; of the others those that `Fits`
describes get a file, and the rest is written outside the image); `AssemblersAgree`
(within the limit both write the same bytes at the same addresses
for what `y64asm` takes; `yas` takes exactly what can be read and is not behind the
limit, a label defined twice included, and what it writes is what the input means).
`Resolved`, and the comparison of bytes, have two conditions: `Forward` (`.pos` never
goes back) and `Wide` (symbols go into 8 bytes), section 11. `Fits` is weaker than
these two: it allows a `.pos` that goes back if no line ends behind the last one.

## 9. Runs

| run | instance | shows |
|---|---|---|
| `tsh_jobs` | 2 children, 2 slots, all commands and keys | types, `ListedAlive`, `ListedOnce`, `Tracked`, `StoppedIsStopped`, `BackgroundSpared` |
| `tsh_held` | `SpecHeld`, 3 children, 2 slots, ctrl-z | `AtMostOneFG`, `PromptFree`, `StopsShown`, the refinement `Promise` |
| `tsh_full` | `FairSpecHeld`, 2 children, 1 slot, `fg`, ctrl-z | the list with an unlisted child; `NewsHandled`, `WaitReturns` |
| `tsh_ghost_fg` | 2 children, 2 slots | a violation of `AtMostOneFG`, section 11 |
| `job_ids` | 4 slots, 5 processes, 7 additions | `JidFindsJob`, `JidsBounded` past the wrap of `nextjid` |
| `proxy` | 2 connections, 3 addresses, requests without a body and with one of 1 byte, response of 1 byte | `Descriptors`, `Forwarded`, `LogWhole`, no deadlock |
| `proxy_bodies` | 1 connection, request bodies of 0-2, responses of 0-3 bytes; and a descriptor with a buffer of 2, requests of 0-3, 4 characters arriving and 2 written | `LoggedTrue`, `CompleteLogged`, `ThreadEnds`; `IsStream`, `CallEnds` |
| `heap` | a heap of 14 double words: 3 blocks of 0, 2 or 5 words in any order; a scripted trace for each of the modes 1 to 3 | `WellFormed`, `Accounted`, `Implements` until a request goes astray, `Determined`, `FailsOnlyWhenFull`, `OnlyGrowthStrands` |
| `pipe` | every program of 3 instructions out of 19 between a prologue of two and a halt | `NoConflict`, `Precise`, `Implements`, `Progress` |
| `simulators` | every program of 3 instructions out of 31 | `SeqAgrees`, `Y64Agrees` |
| `cache` | the three transposes at their real size on 32 sets of one line of 32 bytes; any 5 accesses to 4 addresses on two small caches | `ImplementsLru`, `Transposed`, `FewMisses` |
| `asm` | both assemblers on every file of up to 3 lines out of 23, and of 4 lines out of 9 | `Resolved`, `Decides`, `AssemblersAgree` |

Bounds of the shell and the proxy. Two children suffice for a handler to act on
one job while main acts on another, three for a child that finds no room while
two are listed. `JidBound` stops launches when `nextjid` exceeds it: a process
ID is used again and again below it. `Builtins` and `Typed` say which commands
and keys a run has. Two connections suffice for every pairwise mix-up and for
contention on the log; a third address lets `main` hold one while two threads
have not started. Bodies one byte longer and shorter than a stated length of
the other direction are among those of `proxy_bodies`. In the same run, but in
behaviours of its own, four characters pass a buffer of two twice, and requests of
up to three need two refills or leave a rest for the next. Process IDs, clients and
addresses are interchangeable: the safety runs use symmetry, the liveness runs
do not.

Bounds of the others. On 14 double words three blocks suffice for a free block
between two live ones, for merges on either side and on both, and for a heap
that can no longer grow, for a stranded position and for requests after a search
from one; the scripted traces have the pattern of `realloc2`,
`binary2` and `binary`, with sizes that fill the extended heap exactly as the real
constants do. A hazard of the pipeline lies between instructions at most three
apart, and the bodies have every combination of a load, a return, a jump
predicted wrongly, an exception and a use; `simulators` has instructions that lack a
register too, which are not `Regular`. Four bits are enough for carries,
overflow and a sign in the lower half (`INT_WIDTH` is 3) that differs from that
of the word. A cache of two sets and two lines, and one of three lines, tell LRU
from FIFO and from eviction of the latest in five accesses. Four lines of
assembler have a symbol used before and after its definition, a directive
between, and two uses; and three lines suffice for a line outside the image and,
with `.pos 300` and `LIMIT` 300 for 0xFFFF, for one at the limit and one behind it.

Fairness. Shell: strong fairness of main, of each handler and of delivery, for
handlers may interrupt main again and again, but a keystroke or the change of a
child costs more than a handler's few instructions, so that main runs again.
Nothing is asked of the user or of the children. Proxy: weak fairness of `main`
and each thread, for the scheduler runs them, and of `PeerEnds`, for a peer does
not keep a connection open for ever; with a peer that does, the proxy, which has
no timeouts, waits for ever. Rio: weak fairness of the function's own steps and of
`Hangs`, for the same two reasons; nothing is asked of signals, which cannot keep
a function from going on. In `proxy_bodies` each fairness applies while its system
is the one that runs. Pipeline: weak fairness of the cycle, for the clock
ticks. Assemblers: weak fairness of their steps, for each is one program that runs.
These two, the allocator's traces, the simulators and the transposes come to an
end, and so does a descriptor whose other side has ended, so that their runs do not
check for deadlock.

The types are checked by TLC for the shell; for the others they are theorems
(`TypeCorrect`, `HeapTyped`, `RioTypeCorrect`).

## 10. Proofs

The theorems hold for every value of the constants that the named assumptions of
the modules allow.

| theorem | module | statement |
|---|---|---|
| `TypeCorrect`, `ListedAreAlive`, `ListedAreOnce` | `TshProofs` | `Spec => []TypeOK`, `[]ListedAlive`, `[]ListedOnce` |
| `NoChildIsLost`, `StoppedJobsAreStopped` | `TshProofs` | `Spec => []Tracked`, `[]StoppedIsStopped` |
| `BackgroundIsSpared` | `TshProofs` | `Spec => BackgroundSpared` |
| `OneForegroundJob`, `PromptIsFree`, `StopsAreShown` | `TshProofs` | `SpecHeld => []AtMostOneFG`, `[]PromptFree`, `[]StopsShown` |
| `ShellKeepsPromise` | `TshProofs` | `SpecHeld => Promise`: the shell implements `JobControl` |
| `TypeCorrect`, `JidsAreBounded`, `JidsFindJobs` | `JobIdsProofs` | `Spec => []TypeOK`, `[]JidsBounded`, `[]JidFindsJob` |
| `TypeCorrect`, `DescriptorsKept` | `ProxyProofs` | `Spec => []TypeOK`, `[]Descriptors` |
| `NothingIsMixedUp`, `LogIsWhole` | `ProxyProofs` | `Spec => []Forwarded`, `[]LogWhole` |
| `LogIsTrue`, `CompleteIsLogged` | `ProxyProofs` | `Spec => []LoggedTrue`, `[]CompleteLogged` |
| `RioTypeCorrect`, `RioIsStream` | `ProxyProofs` | `RioSpec => []RioTypeOK`, `RioSpec => IsStream`: the Rio functions implement `Stream` |
| `BlocksApart` | `MemoryProofs` | the blocks of `Heap` never overlap |
| `HeapTyped`, `HeapWellFormed`, `HeapAccounted` | `MemoryProofs` | `Spec /\ []NormalMode => []TypeOK`, `[]WellFormed`, `[]Accounted`, the last two until a request goes astray |
| `HeapDetermined`, `HeapFails` | `MemoryProofs` | `Spec /\ []NormalMode => []Determined`, `[]FailsOnlyWhenFull` |
| `GrowthStrands` | `MemoryProofs` | `Spec /\ []NormalMode => OnlyGrowthStrands` |
| `HeapImplements` | `MemoryProofs` | `Spec /\ []NormalMode => Implements`: `mm.c` is a `Heap` until a request goes astray |
| `Unselected` | `MemoryProofs` | `Spec => []NormalMode`, if no size in `Sizes` selects a mode |
| `NeverConflicting`, `PreciseFlags` | `PipeProofs` | `Spec => []NoConflict`, `Spec => []Precise` |
| `PipelineIsIsa` | `PipeProofs` | `Spec => Implements`, if every program is `Regular`; but for `%rsp` after a failed access to the stack |
| `SequentialIsIsa`, `SimulatorsAgree` | `SimulatorsProofs` | `Spec => []SeqAgrees`, `[]Y64Agrees`, with the exceptions that they name |
| `SimulatorIsLru` | `MemoryProofs` | `TransposeSpec => ImplementsLru` |
| `FilesAreResolved` | `AsmProofs` | `Spec => []Resolved` (and `FilesStayResolved`, of `SpecBoth`) |
| `AssemblersMatch` | `AsmProofs` | `SpecBoth => []AssemblersAgree`, for any address limit |

`JobListProofs` says what each routine of the job list does to the slots:
`FirstOf` picks the first of a set, `addjob` fills one free slot or none,
`deletejob` clears one slot or none, `maxjid` bounds every listed ID. The shell's
modules use only these lemmas.

*Shell.* The invariant comes in three layers. *Base* says which control states
go together: the stack has each handler at most once (`StackOK`), a handler is
on it if and only if its program counter is not "off", SIGCHLD is masked exactly
from `fork` to the unblocking, and so its handler never runs there (`Control`),
and each program point fixes which locals are set (`Handlers`). *Lists* is
`ListedAlive` and `ListedOnce`, which are not inductive alone: `addjob` keeps
them only if the child it is about to list is alive and not listed yet
(`ToAdd`), which holds because the handler cannot run between `fork` and
`addjob`; and `deletejob` removes the right slot only if the child it is about to
delete is the one just reaped (`ToDelete`). *Aimed* says that the process a
keyboard handler is about to signal is not listed in the background: the step
that finds it saw it in the foreground, and only main, which does not run while
a handler does, turns a job into a background one. Each is proved with one step
for each action. `Tracked` follows by counting: a listed child has a slot of its
own and a child about to be listed has none yet, so a list with no room would
need more slots than there are processes (`SlotsCounted`; `PidsFinite` says that
processes can be counted).

*Stops* is what `StoppedIsStopped` needs: a stop that is not reported yet, and
the child that `sigchld_handler` is about to mark, are really stopped (`News`,
`Marking`), and the process `do_bgfg` is about to continue is in no slot but the
one whose state it then sets (`Resumed`). It holds of the shell as it is. The next
two hold of `SpecHeld`, where SIGCHLD stays masked from the search for a job to
the change of its state, and without that they fail (section 11). *Held* says that
the handler is off in that section (`Quiet`), so that the slot found still has its
job (`Chosen`), a cleared slot has no state (`NoGhost`), and only the program
points where main waits for a job, or is about to, have one in the foreground,
the one it waits for (`Foreground`); `AtMostOneFG` and `PromptFree` are two views
of it. *Shown* adds to `StopsShown` that a child which stops before its state is
set has a stop yet to be reported (`Fresh`). With all of this each step of main,
of a handler or of a child maps to one step of `JobControl` or to none: the mode
of a job is that of its slot, and two facts make that well defined, `ListedOnce`
and `Foreground`.

For the numbering, `Numbered` relates each ID to the additions
made since the list was empty; `deletejob` may push `nextjid` beyond MAXJOBS, and
the theorem says how far.

*Proxy.* `IInv` says of each thread what its program point implies of its locals
(`Phases`), of the descriptors that each end of a connection has exactly the one
its thread, or the `client_item` on its way to a thread, holds for it (`Agree`),
that whatever can still be read belongs to an open one (`Reached`), and of the
log that whoever writes holds the semaphore (`Locked`, `Logged`). `Agree` is the
centre. A free descriptor exists when one is asked for because there are as many
as ends of connections; `Close` closes the right one because no other end has
it; and a `client_item` that one thread frees is not one another still needs,
which is where main's allocation of a new one for each connection comes in.

On top of it `Flow` follows the bytes. `RequestOf` and `ResponseOf` say, for each
program point of a thread, that what one end was given and what can still be
read together are all the other end has said, unless somebody closed;
that what the thread has counted is what it has received; and that once the
blank line of a response with a length has been read, the length the thread
compares with is the one stated. `Forwarded` is part of it. For `LoggedTrue` it
is what a thread knows when it writes its entry, and nothing is said, sent or
counted for that connection afterwards. `CompleteLogged` is the other direction,
and needs to know of the threads that have no entry why not (`AllTold`): one that
has received its whole answer has its entry (`Told`), and one that has left without
an entry stopped short of it (`Short`), since the length it compares with is the
one stated and the loop ends with the byte that reaches it.

*Rio.* `RioInv` says where each character is between the kernel and the caller: of
what the kernel has given out, the last `rio_cnt` characters, if there are any, are
those at `rio_bufptr` in the buffer (`BufferNext`), before them are those already
copied to the caller by the call in progress (`HandBefore`), and the rest has been
given to callers or lost. A line in progress has no newline yet, and its count is
one more than its characters (`LineSoFar`); of a text in progress the first
characters are the last written (`WrittenSoFar`); and which of the functions is
running says whether a `rio_t` is in use (`Who`). The position of `Stream` is then
the number given out less what is in the buffer and in the caller's hand, and each
step of `Rio` is one step of `Stream` or none: a read of the kernel and a copy
leave the position where it is (`Unseen`), a return moves it by what is handed over
(`Gives`), and a write passes on, at its end, what was written piece by piece
(`Writing`).

*Heap.* Blocks have the types the requests give them and are apart; a block that
is moved or resized takes words no other holds.

*Allocator.* The invariant is not about the walk over the memory but about a
layout `L`, which gives each block the tag in its header: `HeapInv` says that
there is one with which `Sound` holds. `Layout` (every block ends where one
starts, or at the end of the heap), `Tagged` (headers and footers are in memory,
and the epilogue is), `MergedBut` (no two free neighbours) and `InHeap` (where
`just` is) make up `Good`; `Owns` and `Filled` say what the driver's table and its
data have to do with it. All of it is claimed while `lost` is false; once a request
has gone astray only the types are left (`Unknown`). A layout is
needed because a walk is a recursive function over the whole memory, and a free
or a split changes it in the middle. `WalkExists` shows that the recursion is well
founded, for tags lead towards the end of the heap, and `Chain` that the walk from
a block meets the blocks of the layout from there on, in order (`Induction`, on
the distance to the end, is the least counterexample again). Each function then
has a lemma that says what it makes of a layout: `Marks` and `CutIs` for the tags
of a block cut in two, `Coalesced` with its four cases of neighbours, `Extends`, `Places`, `NextFit`,
`Frees`, `Moved` for what a `realloc` does in its three ways to grow, and
`Replaced` for the copy to a new block, which must be found before the old one is
freed. `Kept` says of each that blocks in use stay, with what is in them, and
`Only` that no other block comes into use; these two are what `Owns`, `Filled` and
the refinement need. `Steady` follows `just`: what coalesces moves it to the head
of the block it is in, and only the growth of a block into its neighbours does
not, which is `OnlyGrowthStrands`. `Outcome` sums up a step, and the theorems
follow from it.

The theorems are about the normal mode. Modes 1 to 3 place blocks at fixed offsets
without looking at what is there, and are right only for the traces they were
written for. `NormalMode` (`TR = 0`) holds throughout unless the first request has
one of three sizes (`Unselected`); in the run `heap` it holds for the driver that
asks for anything in any order.

*Pipeline.* `NoConflict` needs that the signals a cycle computed are those of its
own registers, and then that a load/use stall and a return's bubble in decode
exclude each other. `Precise` is strengthened by what each stage's status says of
the stages behind it: once an instruction in memory or write-back has failed,
whatever is in execute can no longer set the codes.

`Implements` needs an invariant that says of every stage what `isa.c` will do.
`Wired` says that the wires of the registers (signals, forwarded values, the
predicted counter) are those this cycle computed; `Linked` is about what is under
way. Let `m` be the machine after the instruction in write-back. The instructions
in M, E and D, bubbles left out, make `s1`, `s2` and `s3` of it, and each stage
holds the very instruction that the machine before it would execute next, decoded
or executed as `isa.c` does, as far as a later stage reads it (`Decoded`,
`Executed`). Behind a fault, a return or a jump that is not taken a stage may hold
anything: there the invariant only says that it is going to be thrown away
(`Gone1` to `Gone3`), and `Rets`, `Hold` and `PastJump` are what makes that come
true. A cycle is one of four: an untaken jump is in execute (`Turned`), a load in
execute is read in decode (`Stalled`), a return is under way (`Returns`), or all
registers load (`Flows`). Two lemmas are the control logic's own: `Forwards`, that the first
match among the five sources is the value that `isa.c` will have in the
register, and `Predicts`, that fetch goes on where `isa.c` will, its short cut for
`andq` before `jle` included (`AndThenJle`, where the flags of `andq` are worked
out before it is executed). `Operates`, `Accesses`, `Pushes` and `Pops` show,
one class of instructions each, that the stages together do what `isa.c` does at
once. Each step of the pipeline is then one step of `Isa` when an instruction
reaches write-back, and none when a bubble does; but what `psim` leaves of a failed
access is what `Left` makes of that step, registers that have not changed.

*Sequential processor.* `Cycled` says what a cycle makes of a machine, and it is
shown of `isa.c` and of ssim's control logic instruction by instruction: with the
pending writes done, their states are equal, as long as the status is AOK. At the
end nothing is done any more: the register file is that of the instruction before,
and what `isa.c` has changed in its last step, `%rsp` at a failed access, is the write
that `ssim` has pending (`BothCycled`). The provers cannot evaluate powers
of two or fold over a set, so `PowersAssumption` states what is needed of both,
and TLC evaluates it: half a word is a positive number, and a sum of powers is an
integer.

*The two simulators.* `y64sim` is compared with `isa.c` by cases on the
instruction: where `Excuse` names nothing, one step of `execute` is one of
`step_state`. An instruction that `isa.c` refuses is one of the five differences. The
heart is the flags: the tests of `cond_doit` are those of
`cond_holds`, and the two ways to tell an overflow agree for every width of words.

*Cache.* The invariant is that the lines of a set have different tags. An access
that hits finds the one line; the blocks of a full set are in bijection with its
lines, so that the line chosen on a miss is free exactly if there is room; a
block and a (tag, set) pair are the same thing because tags fit an int
(`AddressesAssumption`).

*Assemblers.* What a line means is the reference `Start`, `ValueOf`, `Emitted` of
`Asm`. `Start` is a recursive function, of which the proof needs only that each
line starts where `After` leaves the one before: `Iterates` shows that there is
such a function (the least counterexample of a set of numbers stands in for
induction). `CHOOSE` in `After` names the one multiple among `val` numbers in a
row, and `Aligned` and the rounding of `yas` both give it. The invariant of `y64asm` has three parts, one for each phase.
`Parsed`: the lines read so far lie at their addresses, and the symbol table has
each label once, where its line starts. `Relocs`: the table of relocations has
exactly the lines whose symbol is not filled in, in order, and they hold zeros
where it goes; every other line has the bytes the input means, unless a `.long`
has a symbol. `Image`: if no `.pos` goes back, lines do not overlap, so that
writing one leaves the others whole, and none lies outside: a line ends where the next
one starts or before, and that is not behind the end of the file (`StartBelow`,
by induction). `relocate` replaces four of a symbol's eight
bytes, and the others are zero because addresses are below 256^3 in the model.
`Passing` says of `yas` that in either pass a line is at its address, that the
table of the first pass has every label of the file when the second begins, and
that an error was hit exactly if a line before this one deserves it; a line that
cannot be read spoils the addresses after it, and so they are claimed only
without one (`NoBad`), and so is that the lines written are not behind the limit
(`LowLine`). `LIMIT` may be any number. Both then equal the reference, hence each other.

The assumptions: `PidsFinite`, the bounds being positive, `AllocatorAssumption`
(sizes are counts, and the heap has room for the prologue), `PowersAssumption` and
`BitsAssumption` (a word and-ed with itself is the word), and
those on programs, addresses and files, which say that an input has the shape its
parser gives it (a `.pos` is not negative, `.align` not by zero, a symbol only
where an operand may be one; an instruction has registers and words where its
format has them). TLC evaluates each on the runs. `PipelineIsIsa` has one
hypothesis more, `Regular`: no instruction is one that `isa.c` refuses, the registers
an instruction works on are given, and an
`andq` right before a `jle` tests one register. It leaves out the three patterns
that the pipeline does not execute as `isa.c` does (section 11) and no other; the
assumption
`MCRegular` has TLC confirm that all programs of the run `pipe` are regular and
that some with these patterns are not.

Only model-checked:

- Liveness (`NewsHandled`, `WaitReturns`, `ThreadEnds`, `CallEnds`, `Progress`,
  `Decides`),
  and what uses ENABLED: out of this prover's reach. `Decides` is also what says which
  inputs make `y64asm` write outside its image; `FilesAreResolved` proves that those
  with both conditions do not.
- The allocator in modes 1 to 3: they are right only for the traces they were
  written for, which TLC replays, so that there is nothing to prove for any trace.
- `Transposed` and `FewMisses`: the sizes of the matrices and of the cache are
  fixed by the code, there are no parameters, and TLC computes every turn.

## 11. Findings

A run shows the first; the others were met while the models were written, and
the models have them.

- **A ghost in the foreground** (`tsh_ghost_fg`, tsh.c:355). The job of `fg`
  ends between the search for its slot and `job->state = FG`: the cleared slot
  stays in state FG, and a later job is the second one in the foreground.
- **Shell.** A job that stops again right after the SIGCONT of `bg` is marked
  stopped by the handler and then running by `do_bgfg` (tsh.c:359). SIGCHLD is
  unblocked before `getjobpid(...)->jid` is printed, and the job may be gone
  (tsh.c:226). `kill` fails, and the shell ends, when the child of a key has not
  called `setpgid` yet or was reaped after `fgpid` (tsh.c:422). A child without
  a slot that stops makes `sigchld_handler` write through NULL (tsh.c:398).
  `nextjid` wraps to 1 while job 1 may be listed (tsh.c:493).
- **Proxy.** A response that ends with the server's close leaves the read loop
  with `n == 0`, which is taken for a failure: it has been forwarded whole and is
  not logged (proxy.c:359), although the comment of `doit` has a line for every
  response received (proxy.c:220). `open_clientfd` returns -2 for an unknown host,
  `doit` tests for -1 only, and `Close(-2)` exits (proxy.c:268). `body_len` of
  the request limits a response that states no length (proxy.c:351).
  `Content-length: 0` in a request makes the proxy wait for a byte
  (proxy.c:293).
- **Allocator.** The merges of `realloc` do not move `just`, which may be left
  inside a block (mm.c:397 and 409), where `mm_check` does not find it and would end
  the program (mm.c:478); `OnlyGrowthStrands` says that nothing else does that. The
  next search starts there (mm.c:145) and takes what a caller has written for a header:
  from then on the allocator may write over live blocks or give out words twice, and
  its properties are about the time before. A size near the largest `size_t` wraps when it is rounded (mm.c:279).
- **Pipeline.** For `andq` of two different registers right before `jle` the
  short cut compares the wrong values (pipe-full.hcl:146 and 228; `MCAndJle` of
  `MCPipe` has the programs), and an access without a base register takes its
  base from any instruction without a destination, for RNONE equals RNONE
  (`MCAbsolute`). `ncopy.ys` has neither. `psim -l` counts bubbles (psim.c:762).
- **The check of `psim -t` and `ssim -t`.** It fails for programs that the processors
  execute correctly. When the access of a `pushq`, `call` or `popq` fails,
  `isa.c` has moved `%rsp` before it tried (isa.c:838, 875 and 898), while `psim` stops
  before the instruction is written back (psim.c:760) and `ssim` with the write
  pending (ssim.c:799): the registers differ, and "ISA Check Fails" is printed
  (psim.c:243, ssim.c:256). `Implements` and `SeqAgrees` say that `%rsp` is the
  only difference there, and by how much. And `isa.c` stops with INS at an
  instruction without a register that it asks for (690-703, 723, 746, 778, 867, 891,
  923), which the control logic of both processors carries out: the register reads
  as 0, or nothing is written.
- **y64sim.** It has no `iaddq`; it tests register numbers before they are
  assigned (y64sim.c:376); `popq` goes on after a failed read (509); the sign
  flag is that of the lower 32 bits (284); and it does not ask for registers where
  `isa.c` does. `Y64Agrees` excuses these five.
- **Assembler.** A `.pos` that goes back makes a line overwrite another or the
  file too short (y64asm.c:798). The value of a symbol in a `.long` is put 4
  bytes before its bytes (761-762), which is in the upper half of the line's own
  address. Both are outside the conditions of `Resolved`. Both also make `binfile` write
  outside the image it has allocated (y64asm.c:785-795), unless the line ends before
  the last address, or the symbol's value is 0: `Decides` says for which inputs, and
  `binfile_overrun` is the step. It rejects a number as the destination of a jump, a symbol in a
  datum of fewer than 4 bytes and a second label of one name, which `yas` takes; and it
  takes addresses above 0xFFFF, at which `yas` exits (yas.c:136-147).
- **Cache lab.** The turns of 61x67 step past the end of a row (trans.c:115),
  harmlessly, as `Transposed` shows. A tag is an int (csim.c:203), and uses
  within one tick of `clock()` count as equal (146).

## 12. Not modelled

- Text: command lines, URIs, log lines, assembler tokens and trace lines are
  inputs of the models; redirection and printing are left out.
- Timers and measurement: `fcyc.c`, `fsecs.c`, `ftimer.c`, `clock.c`, and most of
  `mdriver.c` and `test-trans.c`.
- Of the Y86 machines: bytes of instructions and misaligned addresses,
  self-modifying code, register numbers that do not exist, limits on the number
  of steps, the check of `psim` that a fetch stays inside memory.
- Of the allocator: the wrap of sizes; the driver's `add_range`, which does not
  notice a new block that encloses an older one (`Heap` does).
- Of the assemblers: names are compared as wholes (`y64asm` does not always end
  them with a NUL); registers and displacements are one operand; a line after one
  that the scanner of `yas` could not read; the size of the symbol table of `yas` (1000
  names, which it does not check, yas.c:495) and the width of its `bytepos`, an int.
- Of the cache simulator: the wrap of `clock()` in an int (section 7).
- Generated code (`yas-grammar.c`, `lex.yy.c`, `hcl.tab.c`), the hcl compiler,
  the Verilog output of `yas`, the user interfaces of `psim.c` and `ssim.c`, the wrappers of `csapp.c` that
  only end the program on an error and the parts the proxy does not call, the harnesses `btest` and `yat`: they are most of the
  repository's lines of C, come with the course, and have no state of interest.
- `lab1/bits.c`: one expression for each function, which `btest` checks; and the
  drafts named in section 1, and lab2.
