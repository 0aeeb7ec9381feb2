# Formal models of the "Introduction to Programming Systems" programs

The repository holds five independent C programs: a shell (HW1), a job
dispatcher with worker threads (HW2), two modified xv6 kernels (HW3, HW4) and a
reader of FAT12 images (HW5), and beside them the inode layer of the xv6 file
system (`src/check/FS.C`, a file copied out of HW5's disk image). This directory models the parts of them whose
correctness depends on the order in which things happen, or on arithmetic at a
boundary; TLC checks the models on small instances and TLAPS proves the main
results for every value of the constants.

Contents: 1 inventory, 2 plan, 3 to 10 the models, 11 the MC modules, 12 the runs,
13 bounds and fairness, 14 proofs, 15 where code and documentation disagree, 16
what is not modelled.

## 1. Inventory

Several directories are copies of one another; the models refer to one of them:
`HW1/` (copies in `HW1/create_tar`, `HW1/for_tar`), `HW2/` (copy in `HW2/HW2`),
`HW3/hw3_208981159_312472129`, `HW4/hw4_208981159_312472129` (copy `..._cpy`)
and `HW5/hw5_208981159_312472129` (copy at the top level).

| Component | State | Operations | Interaction | What is hard | What makes it correct |
|---|---|---|---|---|---|
| HW2 job queue (`job_queue.c`, `main.c`) | list of waiting jobs, archive, `active_threads_num`, one mutex, three condition variables | dispatcher: create threads, enqueue, `msleep`, `wait`, kill jobs, join, statistics, free; workers: dequeue, run, decrement, exit | shared memory under one mutex; signals | one signal per job, a wait that does not test its condition, shutdown order | no lost wakeup, an exact count, the barrier, statistics of every job and no other |
| HW2 counters (`basic_commands.c`) | a text file and a mutex for each counter | increment, decrement | called by the workers | read-modify-write by several threads; a text rewritten in place | no update lost; the file is what the lines add up to |
| HW2 `run_job` | the worker's copy of its line; `strtok`'s hidden pointer, shared by all threads | cut at `;` and at spaces, execute, repeat | called by the workers | two workers parsing at once | a worker executes its own line |
| HW1 shell (`main.c`, `process_manager.c`) | the table of background children, their files; the current command | read, run in fore- or background, add, clean, kill all | fork, waitpid and kill on the system | children end at any moment, pids are reused, the table at its limit | the table names unreaped children; nothing is left after `exit` |
| HW1 command lines (`main.c`) | `args`, `redirect_file`, stdout and its copies | cut, look for `&` and `>`, redirect, `cd`, `jobs` | within the shell | what stays from the line before; descriptors that are not closed | a line means the same whatever came before; stdout is put back |
| HW4 xv6 process table (`proc.c`) | slots, CPUs, `ptable.lock`, priorities | scheduler, yield, fork, exit, wait, sleep, wakeup, kill, setprio | system calls and timer interrupts on several CPUs | the lock crosses context switches; reparenting; slot reuse; repeated runs by priority | one CPU for a process, no lost wakeup, a tree of processes, no starvation |
| HW3 xv6 process table and `ps` (`proc.c`, `sysproc.c`, `ps.c`) | as HW4, with the files a process opened | scheduler, getNumProc, getMaxPid, getProcInfo | as HW4; `ps` calls once per pid | a scheduler loop that may run nobody; a listing that is not a snapshot; fields left by a slot's last owner | who stays is listed; totals, parents, files and switches in the rows are right |
| HW3 sleep and ticks (`sysproc.c`, `sleep.c`) | `ticks`, `tickslock` | sys_sleep, the timer interrupt | as HW4 | unsigned wrap-around; a lock given up on the way to sleep; kill under another lock | a sleep lasts as long as asked and ends when its time has come |
| HW4 system calls (`syscall.c`, `sysproc.c`, `growproc`) | the process' memory and its end `sz`, `esp` | dispatch, fetchint, fetchstr, argint, argptr, argstr, sbrk | each call goes on in another component | addresses that wrap; sizes the program chooses; a memory that shrinks | the kernel reads memory of the process only; `sbrk` moves the end by what is asked |
| xv6 inode layer (`check/FS.C`) | the inode cache with its lock and the sleep lock of each inode; inodes, blocks and the root directory on the disk | iget, idup, ilock, iput, ialloc, iupdate, balloc, bmap, itrunc, readi, writei, dirlookup, dirlink, namex | called by the system calls of all processes | two levels of locks, a count dropped after the locks, reuse of entries, inodes and blocks, crashes | pointers are counted, a cached inode is the disk's, files share nothing, links are names |
| HW5 FAT12 reader (`main.c`) | none that lasts: an image is read | `dir`, `cp` | none | packed entries of 12 bits, three scans that must agree, the last cluster | `cp` writes the file; `dir` and `cp` agree; a listing can be read back |

The rest of `src/check/` is data copied out of HW5's `floppy.img`; `HW1/check`
holds experiments and another group's shell; the makefiles and archives build and pack the programs. They
have no state to model.

The hazards of each component, with the line where they bite and the property
that would catch them, are in `PROJECT.json`.

## 2. Plan

The order follows how hard the code is to test: threads first, then kernels and
processes, then sequential algorithms. All of it is done.

1. **HW2 job queue**: `JobPool` (abstract), `JobQueue`, `JobQueueProofs`; the
   statistics `JobStats` on top of it.
2. **HW2 counters and run_job**: `CounterFile`, `RunJob`, and `CounterJobs`, which
   composes them; `CounterJobsProofs`.
3. **HW4 process table**: `ProcTree` (abstract), `ProcTable`, `ProcTableProofs`.
4. **HW1 shell**: `Shell`, and `ShellLines`, which gives it its lines and its
   stdout; `ShellProofs` is about both.
5. **HW5 FAT12**: `FAT12`, `FAT12Proofs`, and `DirLine`, the lines of `dir`.
6. **HW3**: `Ps`, `PsProofs`: the process table with `getNumProc`, `getMaxPid`,
   `getProcInfo` and the loop of `ps`, and `sys_sleep` against the timer.
7. **xv6 inode layer**: `FS`, and `FSCalls`, the processes that use it; `FSInvariant`
   and `FSProofs`.
8. **HW4 system calls**: `SysCalls`, `SysCallsProofs`.

What could follow: the abstract job table of a shell under `Shell`; and under
`CounterJobs` a reference for lines with two repeats, which have no meaning here.

## 3. HW2: the job queue

* `JobPool` says what the program promises: worker lines are started once, in
  file order, on a bounded number of threads, and `dispatcher wait` ends only
  when no job is pending or running.
* `JobQueue` is the program. `dpc` is where `main` is (create threads, read
  lines, the two waits, kill jobs, join, statistics, free), `wpc` where each
  worker is. `queue`, `archive` and `active` are the fields of the C struct. A
  stretch of code between taking and releasing `queue->mutex` is one action, for
  nothing it touches is touched without the mutex; what is done without it
  (running a job, reading the archive for the statistics, freeing) is an action
  of its own. A thread signalled on a condition variable becomes `woken` and
  still has to compete for the mutex: others may come first. `Doze` is the
  branch of `dequeue` that signals `cond_q_empty` and waits.
  A job is the number of its line; kill jobs are numbered behind the lines.
* `JobStats` adds the statistics of `print_job_stats_to_file` to `JobQueue`
  (`WriteReport`; every other action leaves its two variables alone). The stamps
  of `gettimeofday` are only read when every thread has been joined, so they are
  chosen there instead of being carried through every interleaving; each job's
  end is not before its start, as the clock is not set back. `Turnaround` is the
  code's arithmetic: seconds and microseconds apart, each rounded towards zero.
  Microseconds are fewer than a million (`StampsAssumption`).
  The average is kept as the sum and the count it divides. The total running time
  in the first line of the file is left out.

The archive starts empty in the model. `create_queue` does not initialise it: the
program relies on the first `malloc` of the process being zeroed memory.

## 4. HW2: counters and run_job

* `CounterFile`: one counter and its mutex; the text is a sequence of digits. `ReadCount`
  is `fscanf`, `WriteCount` is `fseek` and `fprintf` in a file opened `"r+"`,
  which is not truncated: characters behind the new number stay (`Overwritten`).
* `RunJob`: the copy of a worker's line as a sequence of words and delimiters,
  `strtok` as an operation on the hidden variable `save` shared by all workers
  (`save` is a set, empty before the first call), then the commands in order and
  the rounds after `repeat`. `Meaning` is the reference: what the line says.
* `CounterJobs` composes them: a worker of `RunJob` that comes to `increment` or
  `decrement` of the counter that is followed makes the call in `CounterFile`
  (`FileStep`) and goes on only when it has returned. What the file holds in the
  end is compared with what the lines of all workers add up to.

Any number of workers parse at once, as in the code, and what `strtok` does to
their lines is in the model: `mixed` is a history of the workers that were cutting
while another began to. What can be promised of a worker depends on it (`Share`):
one that cut its line alone owes the counter what the line says, whatever happens
to the lines of others before and after; of one that is mixed up nothing is left
but what it called, but its updates are not lost either. So `FileHoldsTheLines`
separates the two things that could go wrong between line and file, and shows that
the first is `strtok` and nothing else: `runjob_two_workers` is what it does.
`atoi(NULL)` ends the program, all of its threads (`Crashed`); `EveryJobEnds` says
that this happens to workers that parsed at once only. A mixed-up worker may go on
in the copy of one that has returned, whose stack frame is gone: the model takes
the copy as it was left, one of the things that memory may hold; only workers in
`mixed` depend on it.

`FileHoldsTheLines` is said of counters that go one way; of one that goes both ways
it does not hold: from 10, decremented, the file comes to hold 90, and from -1,
incremented, 01.

## 5. HW4: the process table

* `ProcTree` is the abstract tree of processes: `Fork`, `Exit`, `Reap`, on pids.
* `ProcTable` is `proc.c`: the fields of `struct proc`, `nextpid`, the lock as
  the CPU that holds it, each CPU's `proc`, the scheduler's position `at` and its
  count `ticks` of the runs given by the priority. `sched()` enters the scheduler
  with the lock held, so an action that ends in `sched()` leaves `lock` with its
  CPU, and `Resume` is the switched-to process releasing it. `fork` is three
  actions, as `allocproc`, the copy of the parent's memory (which can fail and
  gives the slot back without the lock) and the last critical section are.
  `wait` is `WaitCall` (before the lock) and `WaitLoop`.

Of the channels processes sleep on only the parent's in `wait` is modelled. `kill`
is tried with every pid but 1: killing init panics the machine deliberately.
`BornUnkilled` states that nobody is killed before being born. It does not hold:
`kill` also marks slots that are not in use, and `allocproc` does not clear the
mark. No document of the repository promises it, so no run checks it.

## 6. HW1: the shell

`Shell` is the loop of `main` with the process manager's table: each pass reads a
command, runs it, adds it to the table if it went to the background, and cleans
the table slot by slot (`waitpid(..., WNOHANG)`). Children end at any moment
(`ChildEnds`), also between two slots of a scan, and the system gives a reaped
child's pid to a new one. A command is its kind, `&` and `>`. `externals` and
`ended` are history variables, for the properties.

`ShellLines` gives the shell its lines. `ReadLine` is `read_command` and
`parse_command` on a sequence of words: `WithoutAmp` takes the `&` off, `Redirect`
and `RedirectFile` find `>` and the word behind it, and the buffer `redirect_file`
stays as it was where the line has no such word. The command it makes of the line
is what `Shell` then runs. `InternalLine` adds what `cd` and a redirected internal
command do in the shell itself: the copy of stdout (`Dup`), the file and back. The
copy is never closed, so one descriptor is lost with every internal command, the
empty line too; when none is left, `dup` fails and there is nothing to put back.
`StdoutIsBack` holds because such a shell can open no redirect file either.

## 7. HW5: the FAT12 reader

`FAT12` runs `dir` and `cp` on an image: boot sector, table, root directory. The
three loops over the root directory are written out separately in the code and
so they are in the model (`ListEntry`, `SkipChecked` and `SkipInfo` with
their ends). The table is an array of entries, but the program only sees it
through `Byte`: two entries in three bytes, read with the 16-bit offset and the
shift of `get_next_entry`. The contents of a sector are its number. A directory
entry also carries `clusters`, which the program never reads: the clusters the
file is in, against which what `cp` writes is compared.

`DirLine` adds the lines `dir` prints: the packed time and date taken apart, hours
on a clock of twelve, the size written backwards with its separators. A line is
its fields; the blanks between them are left out. `Number` is `format_number`,
which gives a digit a round (`Round`). `ListingIsTrue` reads the lines back; of the
entries that are shown it assumes times within a day and dates of 16 bits
(`TimesAssumption`). `dir`'s and `cp`'s steps are those of `FAT12`, so the theorems about it hold
here too.

Images are assumed well formed (`FilesWellFormed`: a file's size fits its chain,
its chain ends in an end mark) and of the geometry `main.h` states: data from
sector 33, at most 255 root entries. Files with a size that is a multiple of 512
are among the images; the program writes nothing of their last cluster, and
`CopyIsFile` says so: all the other clusters are there.

## 8. HW3: the process table, the clock and `ps`

`Ps` is HW3's `proc.c` seen by a process that asks about the others. It is coarser
than `ProcTable`: there are as many CPUs as wanted, a critical section of
`ptable.lock` is one step together with the switch in or out of it (how the lock
crosses a switch is the subject of `ProcTable`), and the scheduler takes up any
runnable process. What is finer is what HW3 adds.

* `state`, `pid`, `parent`, `killed`, `chan`, `ofile` (how many files are open) and
  `nrswitch` are the fields of `struct proc`. They outlive their process: a slot
  that is given back keeps what the code does not reset, as a failed fork keeps
  its pid (`ForkFails`) and a new process the old `nrswitch` until `Copy`.
* `pc` is where a process is. `fork` is `AllocProc`, `Copy` and `MakeRunnable` or
  `ForkFails`; `exit` closes the files (`CloseAll`) before it takes the lock
  (`Exit`); `wait` is its call and its loop, which goes on after each switch.
* `sys_sleep` is followed lock by lock. `SleepStart` and `Relock` take `tickslock`;
  `SleepReturns`, `SleepKilled` and `SleepOn` are the outcomes of the test;
  `Doze` is `sleep`, which gives up `tickslock` only inside `ptable.lock`. The
  timer's interrupt counts (`Tick`) and wakes (`TickWakeup`) in one hold of
  `tickslock`. `ticks - ticks0 < n` compares numbers of type uint (`uint`). Ticks
  that pass while nobody sleeps change nothing anybody reads and are left out.
* `ps` is `PsMaxPid`, `PsNumProc`, one `PsRow` for each pid from 0 to the greatest,
  and `PsEnd`. `listed` are the pids of its rows. One `ps` runs at a time.
* `calls` is what the user programs do, chosen once; any program made of those
  calls is a behaviour. The first process is init, which forks and waits.
* `elapsed`, `naps`, `switches` and `present` are history variables.

`ps` also prints a row for pid 0 whenever a slot was never used or has been
reaped, and for the pid a failed fork left behind, both as UNUSED. The properties
speak of rows of processes and do not count these.

## 9. The xv6 inode layer

`FS` is `FS.C`: the cache entries' `inum`, `ref`, `valid`, lock and copy of the
disk's inode; on the disk the inodes (`dinode`), which blocks are in use, the
block numbers in indirect blocks, and the entries of the one directory, the root. An
action is what the code does between two points where another process can come in:
it takes its locks, makes one access of shared data, and releases them. So `iput`
is `IPut` (the count is read under `icache.lock`, with the sleep lock held),
`ITrunc` block by block, `IPutFree`, `IPutInvalid`, and `IPutDrop`, which decrements
the count after both locks have been given up; `ialloc`, `balloc`, `bmap`, `readi`
and `writei`, `namex` and `dirlink` are taken apart in the same way. `ptr` are the
pointers a process holds in its locals, its open file and its current directory.
`Panic` is the code's `panic`: the machine stops. The assertions of `ilock`,
`iunlock`, `bmap`, `bfree`, `dirlookup` and of the callers are all in the actions.

The directory is a file of blocks like any other, of `MAXFILE` blocks at most, with
`DirentsPerBlock` entries in each; the root owns the block of its "." from the
start, as `mkfs` makes it. `dirlink` takes the first empty entry (`DirLink`), or
grows the directory by a block, and by the indirect block if need be (`DirGrow`),
or panics when it is full or no block is left. `DirGrow` is one step: the directory
is locked until the entry is in its block, and `balloc`'s bitmap is all that others
see meanwhile.

`FSCalls` are the processes: open, create, link, unlink, read, write, close, exit
and fork, as xv6's `sysfile.c`, which is not in the repository, makes them out of
the operations of `FS.C`, each as one transaction; and `Crash`. The buffer cache
and the log are external: a transaction is on the disk as a whole or not at all,
so a crash is modelled at the quiet moments between transactions, and loses the
cache and the processes. `fork` copies the current directory only.

Left out: the bytes of files (a unit of writing is a block), devices, stati,
directories other than the root, names longer than `DIRSIZ`, and the panics
"dirlookup read" and "dirlink read", for a `readi` within the size of a directory
that returns less than it was asked for.

Calls can deadlock, by way of `iput`, which takes the inode's sleep lock (line 334).
`link` finds that its new name exists and drops that inode with the directory locked
(line 560); an `unlink` of that name has the inode locked and drops the directory: each
waits for the other. The same happens to two calls of `unlink`, or `create` and
`unlink`, that drop the directory while they hold a file the other wants, and a `dirlink`
of "." finds the directory its caller has locked and waits for itself. No comment
of `FS.C` denies it. What the code does ensure is that looking paths up and locking
adds no circle of its own: `DeadlockNeedsPut`, of two calls that follow each other
in a circle one is in `iput`. The run reaches such deadlocks, and is therefore
checked without TLC's test for them.

## 10. HW4: system calls

`SysCalls` is one process and its calls. It may put any number into `esp`, into
the arguments and wherever pointers lead: the content of its memory is not a
variable, a value that is read is any value. `fetchint`, `argptr` and `fetchstr`
are their tests, on unsigned numbers that wrap; `touched` is what the kernel then
reads or hands on as a buffer. A handler fetches its arguments in some order and
stops at the first that fails; `Args` has those it can read, whatever the order,
which is more than the code reads. `Sbrk` is `sys_sbrk` with `growproc`;
`allocuvm`, `deallocuvm` and `exec` are external and modelled by what `proc.c`
expects of them.

`sbrk(-sz)` is a case of its own: `deallocuvm` frees every page and returns the new
size, 0, which `growproc` takes for a failure, so `sz` stays as it was and the
pages are gone. The history variable `lost` marks it and the properties leave
it out. A negative number beyond `sz` wraps to a greater end, `deallocuvm` then does
nothing, and `sbrk` succeeds.

## 11. MC modules

`MCJobQueue`, `MCCounterJobs`, `MCRunJob`, `MCProcTable`, `MCShell`, `MCPs`, `MCFAT12`
and `MCFS` extend the modules with the sets TLC enumerates (files, lines, images,
scenarios) and the symmetry where the elements are alike (CPUs, pids). `SysCalls`
needs none. No definition of a module is replaced in a configuration. `MCFS` also
gives a view: the fields of an empty cache entry and stale return places are not
read again, and states that differ only in them are one.

## 12. The runs

| Run | What it shows |
|---|---|
| `jobqueue` | One signal per job loses no wakeup (`NoLostWakeup`), the dispatcher never sleeps on an idle pool in its second wait (`NoHangOnIdle`), with wakeups that nobody signalled. The statistics are those of the jobs of the file, all of which have ended, and no others, within a millisecond a job (`ReportIsTrue`). `dispatcher wait` is a barrier unless the dispatcher is woken without a signal. Under fairness it returns if some worker was awake; a file without waits ends; the program implements `JobPool` with its fairness, so every job is executed. |
| `jobqueue_idle_wait` | Violation: `dispatcher wait` hangs if every worker is asleep already. |
| `counter_jobs` | From the line to the file, parsing in any interleaving: when all jobs have ended the counter holds what the lines add up to, repeats included, and of workers that `strtok` mixed up what they called (`FileHoldsTheLines`); the number a worker writes is computed from the one still in the file (`CountIsFresh`); every job ends, or the program does in `atoi(NULL)` after two workers parsed at once (`EveryJobEnds`). |
| `runjob_two_workers` | Violation: two workers share `strtok`'s place. |
| `proctable_safety` | Two CPUs: a process runs on one CPU at most, sleepers have something to wait for, everybody has a live parent, the table implements `ProcTree`. |
| `proctable_live` | One CPU: whoever is runnable runs, although others get 2^priority turns; the killed exit; `wait` returns when there is a zombie. |
| `shell_jobs` | Listed pids are unreaped children, an external background command is listed until reaped, ends are reported by the next valid command, `exit` leaves nobody; a complete line is carried out as it says (`LinesAreMeant`), and stdout is the terminal at every prompt (`StdoutIsBack`). |
| `ps` | Nobody sleeps past his time (`NobodyOversleeps`), no sleep ends early where the clock wraps or for a negative argument (`NeverEarly`). Who is there from `getMaxPid` to the last `getProcInfo` has a row (`StayersAreListed`); the total is the number of such rows (`TotalsAgree`); a row shows a living parent, no files of a zombie, and the process' own switches (`RowsAreCurrent`). |
| `fat12_copy` | What `cp` writes is the file; `dir` and `cp` agree; the listing has a line for every file and subdirectory, in order, and each gives minute, date and size back (`ListingIsTrue`). |
| `fs_calls` | Every pointer to a cached inode is counted (`RefsAreCounted`), an inode is in one entry (`OneEntryPerInode`), a valid entry is the disk's inode (`CacheIsCurrent`), blocks belong to one file and none is left behind (`BlocksBelong`), link counts are names (`NamesAreLinks`); the code panics only when the cache, the inodes, the blocks or the room in the directory are used up (`OnlyOutOfSpace`); of two calls that follow each other in a deadlock one is in `iput` (`DeadlockNeedsPut`). |
| `fs_put_race` | Violation: two processes drop the last two pointers to an unlinked inode, and nobody frees it. |
| `syscalls` | Whatever the process puts into registers and arguments, the kernel reads the process' memory only (`KernelStaysInside`); `sbrk` moves the end by what is asked or changes nothing (`SbrkMovesTheEnd`). |

For each property of each passing run the modules hold a mutant (a definition
with a plausible bug, marked `Mutant:`) under which TLC finds the property
violated.

## 13. Bounds and fairness

* **Job queue**: three threads and files of three lines (every file over the three
  kinds of line). A lost wakeup or a miscount needs a signaller, a sleeper and a
  thief, and the barrier a job waiting and one running: three threads and three
  lines have all of these, with kill jobs behind them. `spurious` says whether the
  dispatcher may be woken without a signal; it is chosen once, so that the barrier
  can be stated for the behaviours in which it is not. Fairness is weak, for the
  dispatcher and for each worker: a thread that is neither asleep nor finished
  takes its next step. The critical sections are single steps, so no fairness of
  the mutex is assumed beyond that. Spurious wakeups have none: they may never
  come.
* **Statistics**: four readings of the clock: two within a millisecond, one before and one
  after a full second, so that the difference of the microseconds is negative.
* **Counters and run_job**: two workers, each with every line of two commands, or
  of a repeat behind one command and before at most another, on the counter and
  another one. Rounds of 0 and 4: two lines reach 10, where the number gains a
  digit, and -10. More workers only queue on the mutex. Weak fairness of each
  worker; the updates are finite, so no worker can be overtaken for ever. Two
  workers with two commands show the interference of `strtok`, in this run as well
  as in `runjob_two_workers`: commands of the other's line, and `atoi(NULL)`.
* **Process table**: four slots, two CPUs and pids to 4 let init, a parent and a
  child be in three different stages while a fourth slot is taken, given back
  and reused. Priorities are 0 there, since they only delay; 0 and 1 in
  `proctable_live`, with three slots and one CPU. `MaxPid` bounds the forks.
  Fairness: weak for each CPU's scheduler; weak for the return from a switch or
  the timer interrupt of each CPU (the hardware's timer); strong for a process'
  steps in the kernel, which are disabled whenever another process is on the CPU
  but recur since the process runs again and again. None for what a process does
  in user code: it need not fork, wait or exit.
* **Shell**: a table of two slots, full and half full, and four pids, so that a
  pid is reused while others are listed. `MAX_PROCESSES` is 4 in the code. Eighteen
  lines: words before and behind `>` and `&`, missing and in every place; three
  spare descriptors, fewer than the lines of a behaviour use up.
* **Ps**: three slots and four pids, so that a slot is given back by `wait` or a
  failed fork and taken by a process with a greater pid while `ps` is in its loop.
  A clock of four values wraps several times in a sleep of -1, which is three ticks
  there; 1 is the shortest sleep that is one. Switches are counted to 1: what
  matters is whether a new process begins at 0. Programs either sleep and kill
  each other or come and go while `ps` runs: the clock and the listing share no
  variable but the table's, and the proofs cover both at once. No fairness and no liveness: the code gives no rule by which the
  scheduler chooses.
* **FAT12**: three clusters, hence chains of zero to three in every order, two files,
  four directories, sizes just above and just below a multiple of 512, two disks,
  both ends of the range of end marks. The arithmetic for larger cluster numbers
  is covered by the proofs. Creation times at both ends of both halves of a day, dates at
  both ends of what can be written; sizes to 1,536, which have one separator at most.
* **Inode layer**: two processes, three cache entries and inodes, six blocks, one
  direct block and two in the indirect block, and a directory with one entry in a
  block: it grows at each new name, needs its indirect block for the second, and is
  full with two names. Inodes, blocks and the directory do run out, and a write is
  refused for its length. The cache does not: it has as many entries as there are
  inodes; that nothing else goes wrong when `iget` panics is proved, not run.
  Six scenarios, chosen once for a behaviour: one name created, unlinked and closed
  by both; read, written and truncated at once; blocks that pass from one file to
  another; link against unlink; paths of every shape with fork and exit; more names
  than the directory has room for. Both kinds of deadlock of section 9 are reached. No
  fairness: `DeadlockNeedsPut` is about the wait-for relation, not about time.
* **System calls**: addresses of four bits, pages of two bytes, integers of two.
  Everything that can wrap does: `esp` + 4 + 4n, a pointer and a size, `sz` + n.
  The proofs are for every width.

Deadlock is checked where the program should go on for ever or end in a named
state; it is not where the system may stop (a dispatcher that hangs, a shell that
has exited, calls of `FS.C` that wait for each other or for their own locks).

## 14. Proofs

Each module below holds an inductive invariant, one step for each action of
`Next`, and the properties as its consequences. Constants are arbitrary within
the named assumptions of the module.

* **JobQueueProofs** (any number of threads, any command files).
  `IInv` joins `TypeOK`, what is not created yet, `ActiveCount`, `NoLostWakeup`
  and the order of the jobs. `NoLostWakeup` alone is not inductive: a worker that
  takes a job without having been signalled leaves a woken worker too many, never
  too few, and that needs the count of sleepers to change with the signal that
  the same step sends. `WaitIsBarrier` (`BarrierCorrect`) follows from the list
  being empty when the first wait ends and stays so, since only the dispatcher
  fills it, and from `ActiveCount` at the second; it is said of
  behaviours with `~spurious`, as the waits are in no loop. `ImplementsPool` maps
  each step to a step of `JobPool` or a stutter; of a dispatcher that may be woken
  without a signal it keeps all but the waiting. `ReportCorrect` is
  `ReportIsTrue`: an invariant says that the archive holds the lines' jobs as they
  begin, one each, and all of them when the threads have been joined; that no total
  is off by more than a millisecond a job is a property of sums over sets of jobs.
* **CounterJobsProofs**. `CountStaysFresh` (any workers, any lines, any parsing):
  mutual exclusion, hence the number read is the file's when it is written, however
  the lines came to make the calls.

  `LinesExecuted`, `OnlyMixedCrash` and `FileCorrect` are from the line to the file,
  under `FitLines`: a line has a command, one space at most before each, and one
  `repeat` at most; the number of commands, the arguments, rounds and workers are
  arbitrary (finitely many workers in `FileCorrect`), and any of them may cut at the
  same time. The argument is that trouble stays where it is: who begins to cut while
  others do is `mixed`, and so are they; from then on those who cut have places
  in the copies of mixed-up workers only, and so has `save` (`Confined`), so no
  text of a worker that cut alone is touched while it is cut or after.
  `Laid` is the text of a line of which the first commands have been cut off and
  their words terminated; it gives every item its place, so that what `strtok`
  finds next, and the null it writes, are known at each of its calls. `Parse` says
  which of these texts `tmp` is and where `save` points for the worker that cuts;
  `Executing` says what has been executed before the repeat, in round `d`, and at
  the end, and that is a beginning of `Meaning` (`BodyIs`, `RoundsAre`). `RunInv`
  joins them, for the workers not in `mixed`; these have no place `"crashed"`, so
  `atoi(NULL)` is reached by mixed-up workers only.

  For the file, `InLastCall` says that the call a worker is in is the change of the
  last command it executed, so `Written` counts the updates it has made.
  `TextIsSum` is the invariant: while the calls go one way, the text is the number
  of all updates written (`Together`). A write keeps it because `fscanf` reads back
  what `fprintf` printed (`PrintedIsRead`) and the next number in that direction is
  not shorter, so that no character stays (`DigitsGrow`, `NothingStays`). At the end
  `Written` is what the shares of the workers add up to, in whatever order
  `SetToSeq` lists the workers (`ChangesAre`).
* **ProcTableProofs** (any number of slots, CPUs, priorities and pids). `IInv`
  joins the types, init being alive, one CPU for each process, the slot under
  construction belonging to one fork, parents being alive, pids increasing with
  `nextpid`, and what a sleeper waits for. `NoLostWakeup` needs the parents' part,
  because a zombie may be handed to init while init sleeps, and `OneCPUEach`,
  because the scan in `wait` and its sleep are one step only while the lock is
  held. `ImplementsTree` is the refinement of `ProcTree`.
* **ShellProofs** (any size of table, any pids): the count equals the cardinality
  of the occupied slots, a pid is listed once and is not reaped elsewhere (the
  child just forked is not in the table yet), and the children that had ended
  before the command are in slots the scan has still to visit. `LinesAreCommands`
  shows that `ShellLines` takes the steps of `Shell` only, so that these theorems
  hold of every sequence of lines; `LinesCorrect` and `StdoutCorrect` are
  `LinesAreMeant` and `StdoutIsBack`, for any words, lines and number of descriptors.
* **FAT12Proofs** (any image that is well formed, up to 4083 clusters, any
  names). `Unpacking` and `NextEntry` show that the bytes give the entry back for
  even and odd clusters and that 16 bits hold the offset. The invariant says what
  the scans have passed over, that a file of the name exists while
  `get_file_info` looks for it, and that the clusters before the current one have
  been written, in order and from their sectors. `CopyCorrect` is `CopyIsFile`.
  `ListingCorrect` is `ListingIsTrue`: the lines told so far are those of the
  entries before the current one, one each and in order, and a line is read back
  from its fields. `NumberReads` does so for the size, whose digits and separators
  the rounds of `format_number` have written from the end.

* **PsProofs** (any number of slots and pids, any width of the clock, any
  programs). `IInv` joins the types, which `pc` goes with which state, the slot of
  each fork, pids given once, living parents, the fields a row shows, the holder
  of `tickslock`, `elapsed`, the naps and the listing. `NobodyOversleeps` needs that
  a process between its test and its sleep holds `tickslock`, so that the clock
  stands still. `NeverEarly` follows from `elapsed` being `ticks - ticks0` until the
  clock has come round once, by the arithmetic of `OneTickMore`.
  `StayersAreListed` is not inductive without bounding `present` by `maxPid` and
  finding each of its pids in a slot; `ForksOK` keeps failed forks out of it.
  `TotalsAgree` is a bijection from the slots in use to their pids. All
  properties of the run are proved, and `KilledNapOnce` besides.
* **SysCallsProofs** (any width, page size, KERNBASE and size of an int within the
  assumptions). The invariant is that memory is there up to the end of the page
  `sz` is in, unless `lost`; from it and the tests of `fetchint`, `argptr` and
  `fetchstr`, with both outcomes of each sum that may wrap, no address outside is
  touched. The arithmetic of pages (`PGROUNDUP`) is in lemmas of its own.
* **FSProofs** (any number of processes, inodes, cache entries and blocks).
  `RefInv` joins `RefsAreCounted`, `OneEntryPerInode`, what calls the registers'
  values fit, and which pointers of a process are null at each place of its call:
  `iget` may write over a null pointer only, or a reference is lost, and that
  none is left when a call returns is what its error paths have to ensure. Each
  action takes or drops one pointer, so one lemma on counting (`PointersFinite`
  and those after it) serves all of them. `EntriesCorrect` needs that an entry
  whose `ref` is 0 has no pointer, and that `iget` looks at all of them first.

  The later theorems do not open the actions again: `Steps` says where a step
  takes its process, its pointers and its locks, and `DataStep` what it saves or
  reads, for each place; `CallsStep` and `StepData` show that the actions do so.
  `LockInv` (`LocksHeld`) gives each place of a call the locks it holds and the
  pointers that are not null. `RootInv` says that the root is the one directory,
  with a link that no call takes away, that what calls free or count links of is
  a file, and that what is locked was read; with it, a call that waits in `ilock`
  while it holds a lock holds the root and locks a file, and who holds that file and
  waits in `ilock` in turn would have to hold the root as well (`CirclesNeedPuts`). `CacheInv` says that a valid entry has the
  disk's type and links unless `iput` is about to invalidate it, and is the disk's
  in all fields unless its holder truncates it or writes past its end; neither
  the copy nor the disk's inode lacks a block below its size, so that a read
  allocates none and the copy stays as it is (`CacheCurrent`).

  `NamesInv` says at every moment what `NamesAreLinks` says between calls
  (`LinksCorrect`): the links of a file are its names and the calls that have
  counted a name they have still to write, or to count down after they cleared it
  (`PendsOn`). It needs four more parts. An inode that `ialloc` has found belongs
  to its maker alone until it has a link (`Fresh`): any other pointer to it is one
  `iput` is about to drop, and a new one would come from a name. `iput` truncates
  and frees only while it has the one pointer and there is no link (`Alone`), so no
  call finds the freed inode (`Live`). What a call looked up stays so while it has
  the directory locked (`LookupFits`), so `dirlink` writes no name twice and
  `unlink` clears the entry of the inode it locked. It holds until a
  panic, and a panic is inside a call (`PanicInside`).

  `BlocksInv` says at every moment what `BlocksBelong` says between calls
  (`BlocksCorrect`). An inode's newest record (`Rec`) is the copy while a call
  truncates or extends it and the disk's otherwise; `Owned` is the block it names
  at a position, none where `itrunc` has been. No block is owned twice, and the
  ones in use are the owned ones and those `balloc` has returned to calls that
  have still to store them. A call that writes has the blocks up to its offset,
  and perhaps the next one or the indirect block that does not name it yet; one
  that only reads finds all of its blocks there. `iput_free` finds an inode without
  size, so `ialloc` hands out no block with it. `BlockStep` says once what an
  action does to blocks.
  The root is an inode like the others here: `GrowBlocks` shows
  that a directory that grows takes blocks nobody owns, and that it has the blocks
  of its size before and after.
  `PanicsCorrect` follows: what `ilock`, `iunlock`, `bmap`, `bfree`, `dirlookup`,
  `create` and `unlink` assert before they panic is in `LockInv`, `RootInv`, `NamesInv`,
  `BlocksInv` and the places where `dirlink` fails, so that only `iget`, `ialloc`,
  `balloc` and a full directory panic. The parts of the invariant, and what steps do
  in their terms, are in a module without proofs, `FSInvariant`. Every invariant of the
  run `fs_calls` is proved.

The type invariants of all modules but `FS`, and `ActiveCount`, `PidsAreUnique`,
`CountIsExact`, `FilesAreClosed`, `KilledNapOnce` and `InfoIsFound`, are proved and
left out of the runs, which are spent on the other properties.

Only model-checked: every liveness property (`Termination`, `BusyWaitReturns`,
`PoolFairSpec`'s fairness, `EveryJobEnds`, `EveryRunnableRuns`,
`KilledProcessesExit`, `WaitReturns`), which are beyond this prover. Every invariant
of a passing run is proved as well.

The definitions that fold over sequences or sets, or recur on numbers, are
reasoned about without the library's induction theorems, whose parameters are
operators: `LeastNat` gives the least number of a set, from which `Induction` and
`Descends` follow for sets, and `Recursion` shows that what a recursive function
says of itself has a solution. In this way the sums, the sequences put together of
many, the digits of a number and their value are known for every input.

## 15. Where code and documentation disagree

* `job_queue.c:327`: the wait for an empty queue does not test whether it is
  empty; with all workers asleep it never returns (`jobqueue_idle_wait`).
* `basic_commands.c:72`: `strtok` is called by all workers at once
  (`runjob_two_workers`).
* `check/FS.C:337`: `iput` decides by a count that it decrements after its locks have been
  released; "if that was the last reference ... free the inode" fails when two
  calls meet (`fs_put_race`).

Met while modelling, and shown by no run: a shorter number is written over a longer
one, whose last characters stay (`basic_commands.c:45`), although
`basic_commands.h:17` says the counter is decremented;
`kill` marks slots that are not in use (HW4 `proc.c:503`); calls deadlock in `iput`,
`link` against `unlink` of the name it finds, or `dirlink` of "." by itself
(`check/FS.C:334`, `560`); an internal command loses a descriptor (HW1 `main.c:264`);
`sbrk(-sz)` frees the memory and fails (HW4 `proc.c:171`); of a file whose size is a
multiple of 512 `cp` leaves the last cluster out (HW5 `main.c:140`), although its
comments speak of writing the remaining bytes (lines 134, 149). `FileHoldsTheLines`,
`SbrkMovesTheEnd` and `CopyIsFile` name the cases they leave out, and do not cover them.

## 16. Not modelled, and why

* HW1's end of input, where the last command is run again, and the limits of a
  line and of its words; what is said of a failed `fork`, after which the shell is
  gone.
* HW3's rule of scheduling (`proc.c:345` to `372`): line 366 assigns to an expression,
  which no compiler accepts, so the program that would schedule by it does not
  exist. As far as it can be read, a process runs as often as its priority says,
  which `allocproc` sets to 0 and nothing changes.
* HW4's page tables and pipes: xv6's own code, not in the repository. HW3's system call
  table, which differs from HW4's in its entries only, and the small user programs.
* Failures of `pthread_create`, and log files, in HW2: the code ignores the first
  and the second are output, as is what is printed for debugging (`print_archive`,
  `print_job_stats`, xv6's `procdump`).
* HW5: the blanks in a line of `dir` and its buffers (a name of eight and
  an extension of three characters need one byte more than the array has);
  images with another geometry or with cyclic chains.
* The data in `src/check`, `HW1/check`, makefiles and archives.

