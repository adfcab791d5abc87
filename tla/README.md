# Verification of the CSE 320 systems in TLA+

The repository holds four C programs: the object store server *Xacto*
(`Server Store`), the memory allocator *sfmm* (`Memory Manager`), the print
spooler *Imprimer* (`Printer`) and the audio filter *Audible* (`Audible`). This
directory has TLA+ models of the parts where concurrency, signals or long
sequences of calls make the code hard to test, the TLC runs that check them, and
TLAPS proofs: about the transaction manager and the abstract contract that the
server implements, about the blobs, keys and versions of the store, about the jobs
of the spooler under its signal handler, and about the spooler's tables.

`PROJECT.json` lists for every definition the source lines it stands for
("map"), for every property a mutant of the code that breaks it, and for every
hazard the properties that watch it.

## The systems and their parts

### Xacto (Server Store)

| part | state | operations | what makes it hard |
|---|---|---|---|
| transaction manager (`transaction.c`) | per transaction: id, status, reference count, dependency set, semaphore, wait count; the list of all transactions | `trans_create`, `trans_add_dependency`, `trans_commit`, `trans_abort`, `trans_init`, `trans_fini` | no lock around list and id counter; one semaphore is both a mutex and a condition; the abort cascades recursively |
| client service (`server.c`) | one thread per connection with one transaction | request loop: GET, PUT, COMMIT, replies | connection may end between any two packets |
| main and SIGHUP (`main.c`) | accept loop | `terminate`: shut down, wait, finish | shutdown races with service threads |
| client registry (`client_registry.c`) | table of connections, counter | register, unregister, wait for empty, shut down all | bounded table |
| store (`store.c` is commented out, `lib/xacto.a` is linked) | versions per key, one mutex | `store_get`, `store_put` with garbage collection | calls into the transaction manager while it holds its mutex |
| data (`data.c`) | blobs, keys, versions with reference counts | create, ref, unref, compare, dispose | lock order, use after free |
| protocol (`protocol.c`) | none | send and receive packets | signed and unsigned comparison |

A service thread calls the store, which calls `trans_add_dependency` for
versions of other pending transactions and `trans_abort` for conflicting ones,
with `the_map.mutex` held. `trans_commit` waits on the semaphores of its
dependencies. `terminate` shuts the connections down, waits until the registry is
empty and runs `trans_fini`.

What makes it correct: a transaction commits only after its dependencies are
decided; a decision is final; waiting is never circular; every COMMIT is
answered; SIGHUP ends the process cleanly.

### sfmm (Memory Manager)

A heap of blocks between a prologue and an epilogue; free blocks have a footer
and are on a doubly linked list for their size. `sf_malloc` takes the first block
of the smallest list that fits, grows the heap page by page if there is none, and
splits; `sf_free` merges with both neighbours; `sf_realloc` moves or shrinks.
Correct means: blocks tile the heap, tags and lists agree with them after every
sequence of calls, and no two live pointers share a block.

### Imprimer (Printer)

One thread executes commands and after each one `runJobs` and `removeJobs`. Every
started job is a process group; SIGCHLD interrupts the thread at any point and
`printHandler` reports one process, updates its job, frees its printer and calls
`runJobs` too. Correct means: every process is known by one job, a printer serves
one process, and no job waits while the printer it would get is free.

### Audible

A sequential filter: validates arguments into one word of options, then speeds
up, slows down or encrypts a stream of frames, after a header whose new size and
annotation are computed before the data is read. Correct means: the options come
back from the word as they were packed, the header written describes the data
that follows, an error leaves no output, and a second process undoes the first
(`-c` after `-c` with the same key, `-u` after `-d` with the same factor). It has
no concurrency; what is hard are the boundaries (widths of fields and integers,
the last frame, the annotation buffer) and that two runs have to fit together.

## Modules

| module | stands for |
|---|---|
| `XactoTransaction` | transaction manager, service threads, registry, shutdown; the store as an external component |
| `MCXactoTransaction` | constants and start states for TLC |
| `XactoContract` | what the transaction manager promises: the abstract specification |
| `XactoTransactionProofs` | proofs about `XactoTransaction` |
| `XactoDataProofs` | proofs about `XactoData` |
| `ImprimerProofs` | proofs about `Imprimer` |
| `ImprimerTablesProofs` | proofs about `ImprimerTables` |
| `NaturalLemmas` | induction and recursion over natural numbers, for the proofs |
| `XactoRefinementProofs` | the proof that `XactoTransaction` implements `XactoContract` |
| `XactoData`, `MCXactoData` | blobs, keys and versions with their counts and mutexes, under the requests of service threads and the store |
| `AudibleArgs`, `Audible`, `MCAudible` | the command line of Audible; recode and a pipeline of two processes |
| `Sfmm`, `MCSfmm` | the allocator |
| `SfmmProofs` | proofs about `Sfmm` |
| `AudibleProofs` | proofs about `AudibleArgs` and `Audible` |
| `Imprimer`, `MCImprimer` | jobs, printers, processes and the signal handler |
| `ImprimerTables`, `MCImprimerTables` | the tables of types, conversions, printers and jobs, and the searches for a conversion path and a printer |

### XactoTransaction

A client names its thread and its transaction, since each service thread creates
exactly one. The variables are the fields of `TRANSACTION`, the list, the store's
versions and mutex, connections and registry, and each thread's program counter
and locals; `stack[t]` holds the activations of the recursive `trans_abort`. A
step is one access to shared state. Where the code reads without a lock, the read
is a step: `trans_create` loads the static id, links the node and stores the
incremented id in separate steps (`Create`, `Link`, `LinkTail`, `LoadId`,
`StoreId`), `trans_commit` reads a dependency's status twice (`CommitCheck`,
`CommitRecheck`). A block that ends in `V` and touches nothing another thread can
see before that `V` is one step.

The store of `lib/xacto.a` is external. It is modelled from how the server uses
it: under its mutex it drops aborted and superseded versions, makes the caller
depend on the creators of pending older versions, refuses an access that comes
too late, and adds the new version.

Registering, unregistering and the shutdown of all connections hold the registry's
semaphore to the end and are one step each on the set `registered`.
`creg_wait_for_empty` does not: it takes the semaphore, looks, gives it back and tries
again (`WaitForEmpty`, `WaitAgain`, `WaitEnds`), and others get in between or have to
wait. A connection that finds the table of `MAX_CLIENTS` full is served without being
registered, so the shutdown neither reaches it nor waits for it. Such a thread, and
one that main has accepted but that has not registered yet, can still be there when
`creg_fini` frees the registry. What it does with the registry then is undefined: it
works as before, its P never returns, or the process dies (`UseFreedRegistry`).

A connection can be ended by the peer (`HangUp`) or by the shutdown (`Sighup`); a
receive can fail at every packet; a packet of another type is answered as the
code does.

### XactoContract

Transactions with a number, a dependency set and a status, and four atomic
operations: `Begin` (under some number, not necessarily a fresh one), `Depend` (on
a transaction with a smaller number, never once committed), `Commit` (when every
dependency is decided) and `Abort`. Semaphores, wait counts, the list, the store
and the threads are gone.

`XactoTransaction` implements it (`ImplementsContract`) with the mapping

    state     <- status of the transactions trans_create has initialised, "none" for the others
    number    <- tid, the id of the transaction
    dependsOn <- the elements of the list depends

Only `Create`, `AddDependency`, `CommitDecide` and `AbortAcquire` (on behalf of
whichever thread) are visible steps; the walk over the
dependencies, the waiting and the store stutter. The contract does not say that a
decision is final, nor that a transaction aborts with its dependencies: the
header promises both, and the code keeps neither.

### XactoData

The service threads of `XactoTransaction` seen from below: every GET and PUT
creates its key (and value) as a blob, the store finds or makes an entry under
`the_map.mutex`, collects garbage, adds a version and hands a blob back, and
`xacto_reply` reads that blob after the lock is gone. Objects have a reference
count and a flag `live`; a read of one that is not live ends the behaviour as
`UNDEFINED`, and a key packet without content as `SIGSEGV`. `blob_compare` takes
its two mutexes in two steps. A packet is a sequence of bytes and its text ends at the
first NUL. `blob_hash` (cut off to an int of `IntSize` values), `blob_compare`
(`strcmp`) and `key_compare` (the absolute value of a difference of ints, added to the
result of `strcmp`) are translated with their arithmetic.

What the store of `lib/xacto.a` does is external, and was read off its object
code where the server's sources do not say: an entry's bucket is the hash modulo
2^15 modulo 8; sizes are compared before `key_compare`; a key that has an entry
already is disposed of; the garbage collection disposes of a version before it
takes it out of the list, which `store_show`, called without a lock at the end of
a connection, can see; a PUT that is refused keeps the value's first reference,
and a GET takes a reference for its caller which `xacto_get` never gives back. The
last two are leaks, counted by the history variable `kept`, so that
`ReferencesAreExact` can say that every other reference has an owner.

Of a transaction this module keeps the status; `Commit` waits, as `trans_commit`
does, for the creators of earlier pending versions, and its decision replaces whatever
the status is by then. A call of `trans_abort` from another thread reads the status and
writes it in two steps (`AbortReads`, `AbortWrites`), so an abort can replace a
COMMITTED and a commit an ABORTED. Of such calls from outside the module at most
one at a time is under way for each transaction.

### AudibleArgs and Audible

`AudibleArgs` translates `validargs` and its helpers from `argv` to
`global_options`, a record with the fields of the 64-bit word, and the accessors
that read it back. A word is a string of which the constant `Characters` gives the
character codes. `numbersOnly`, `charToInt` and `hexStringToInt` are functions of these
codes, with an int that wraps where it overflows. What the usage text of `const.h`
allows is stated apart from that code, digit by digit (`Factors`, `Keys`), and
`OddFactors` and `NoKey` are what the code accepts besides. Where the code keeps two meanings in one bit (bit 57
is both "no factor" and the highest bit of a factor less one), so does the model.

`Audible` is the process: `main`, the header and annotation (`recodeRead`), the new
header and annotation (`recodePreserve`, `recodeAnnotate`), then one step per turn of
the loop (`speedUp`, `slowDown`, `crypt`), and the end. `Pipe` starts a second process
on the output of the first, with the command line that undoes it. A byte has
`ByteBits` bits, an int four bytes, and arithmetic wraps and divides as in C. The
static array of `slowDown` and the state of `myrand` are variables. The sentinel
EOF of `getStdinInt` is modelled: four bytes of ones read as one int are the end of
the file. Output errors, which the code ignores, are left out.

### Sfmm

Addresses and sizes are in rows of 16 bytes. `heap` has the headers, footers and
links, each at the address where the code keeps it, and the helper operators have
the names of the C functions. Words inside a block (payload, or what is left of
merged blocks) are reset to `Unset` by `forget`: no operation may rely on them.
Of the list of free lists, which only ever grows, the model keeps the largest
size; a list that has no node is one whose sentinel links to itself.

A call is atomic except for `sf_malloc`, which takes one step per turn of its
growth loop. Sizes are ints of `IntSize` values that wrap: a request of half of them, or one
whose padding goes beyond (`sfmm.c:464`, `467`), gets a size that does not hold it.
Undefined behaviour ends a behaviour with `exited = "undefined"`:
the write through an uninitialised pointer (`sfmm.c:38`, where the model also
continues as if the write did no harm), a second removal from a list through links
nobody has written (`sfmm.c:183`), and payload bytes taken for a footer
(`sfmm.c:174`). The history variable `damaged` records that a failed `sf_malloc`
has listed a listed block again; the heap properties are claimed until then.
`GrowsOnlyWithoutFit` relates the growth loop to the lists: the heap grows only
when no free block is large enough.

### Imprimer

`main` is the position of the thread outside the handler, with one step for each
access that a signal can separate from the next: reading the status (`Scan`),
choosing the printer (`Choose`), testing busy (`Check`), writing the status
(`Mark`), setting busy (`busyPrinter`), and the fork with SIGCHLD blocked
(`Fork`). `printHandler` is one step, since SIGCHLD is blocked in it. SIGCHLD does
not queue: `sigchld` is a Boolean, and the one `waitpid` reports any process that
has ended, or has stopped or continued since its last report. A process that is
continued and then ends is reported once, as ended. `killpg` misses a process that
has not yet called `setpgid`, and SIGTERM to a stopped process waits for SIGCONT.
Commands of the `-i` script are not followed by `runJobs`.

The history variable `raced` records that the handler ran `runJobs` while main was
between reading a job's status and setting its printer busy. After that, main writes
the status it had in mind whatever the handler has made of the job: `EndedJobsStayEnded`
has this write as its one exception.

### ImprimerTables

The tables behind the constants of `Imprimer`: the commands type, conversion,
printer, enable, disable and print append to or update `typeArray`,
`printerArray` and the jobs as the code does, a doubled `type` command included, which is reported as an error
and adds a second entry all the same. A conversion is its target type. The search
`getConversionPath` is a recursive function over the budget `loops` and the type;
the budget is decremented before each branch, so the i-th conversion of a type is
followed with a budget smaller by i. The properties compare it with an independent
definition: the ways through the graph of conversions in which the positions of
all conversions but the last add up to less than `MAX_CONVERSIONS`. A job keeps the
printers of its command line as a set of positions (`getPrinterSet`); with
`JobsFindTheirPrinters` the model asks, in every later state of the tables and for
every set of busy printers, whether `getEligiblePrinter` still finds what the user
named.

## Runs

| run | configuration | bounds | states | shows |
|---|---|---|---|---|
| two_clients | `XactoTwoClients` | 2 clients, a registry of 1, 1 key, 2 requests each before COMMIT, SIGHUP at any moment | 1 143 484 | safety from connection to exit with racing creations, and the refinement of `XactoContract` |
| three_clients | `XactoThreeClients` | 3 connected clients, 1 key, 1 request each, 2 may hang up | 777 802 | the inductive invariant and the semaphore discipline with chains, two waiters on one transaction and cascading aborts |
| liveness | `XactoLiveness` | 1 connected client and 1 that is accepted but not registered, 1 request each, 1 may hang up, SIGHUP | 44 866 | a COMMIT is answered and the process ends, under the conditions below |
| data | `XactoData` | 2 threads of 2 requests after a client that has left a version or not, 3 keys of which two share bucket and size, ints of 16 bits | 2 037 706 | counts, locks and lifetimes of blobs and versions |
| heap | `SfmmHeap` | pages of 6 rows, 3 pages, blocks of 2, 3 and 7 rows and two requests that overflow an int of 16 bits, 3 pointers | 883 447 | consistency of the heap |
| jobs | `ImprimerJobs` | 2 jobs, 2 printers (one needs a conversion), all printer sets | 516 550 | no work left behind; harmless signals outside the window, and what one inside it can do to an ended job |
| tables | `ImprimerTables` | 3 types, tables of 3 types, 2 conversions per type and 2 printers, 1 job | 134 171 | searches are safe, complete up to their budget, and give a job the printers it was sent to |
| audible | `Audible` | all command lines of up to 4 words after the program and some of 5, factors up to 8, bytes of 2 bits, up to 3 frames of 1 or 2 channels in each encoding, extreme samples, truncated and inconsistent files | 508 339 | options, header, annotation, data and inverse |
| aborted_dependency | `XactoAbortedDependency` | 2 clients that may hang up, 1 key, 1 request each | | violation |
| shutdown_hang | `XactoShutdownHang` | 3 clients, 2 keys, from a reachable entangled state | | violation |
| double_start | `ImprimerDoubleStart` | as jobs | | violation |
| key_compare | `XactoKeyCompare` | 2 keys that differ by 8 in their last character | | violation |

Why the bounds are enough. Dependencies need two clients on one key; a waiter
that is itself waited for, two waiters on one transaction and a cascade over two
levels need three. A second request of a client meets its own version and its
dependencies again (`two_clients`); a third one repeats the second. Clients
that hang up are left to `three_clients` and `liveness`. The registry of
`two_clients` is full with one client, so that a thread may run beside the end of the
process; in the other runs it has room for all.
In the heap a block with free and used neighbours on either side, exact fits,
remainders of one row, growth by one and by two pages, and failure to grow all
occur, and both ways in which the size of a block overflows. For the jobs, two processes that end together, a waiting job behind a busy
printer and a handler between any two steps of a start occur; a third job only
adds a second waiting job. The tables have room for a type defined twice, a name
used twice, cycles, conversions of a type to itself, and ways of one and two
conversions, those that the budget gives up among them (with three conversions per
type the budget would never run out on three types). One job sees every later state
of the tables, and jobs do not influence each other there. In `data` two requests of
two threads, behind a third client that has committed and gone, are enough for a
version that is superseded, replaced by its own creator, or aborted while another
thread replies with its value, and for a walk of `store_show` beside a collection;
two of the keys share a bucket and a size, so that `key_compare` is really asked, and
their hashes are so far apart that an int does not hold the difference; one of them has
a NUL in it. In `audible` the words for numbers are digits, a number that wraps, one with a
sign, a letter and the empty word,
a factor of three bits has values on both sides of the marker "no factor", three frames
have a first, a middle and a last one, and with bytes of two bits the interpolation,
the size and the four bytes of EOF reach the ends of an int. Definitions can only be added until the
tables are full, so `tables` may end and does not check deadlock.

The run `data` starts after the first client has gone, in two states that a single
client leaves behind. The run `three_clients` begins after the clients have connected
one after the other; that state is reachable, and `two_clients` covers the
connection phase with every interleaving. The run `liveness` begins when one client has
connected and main has accepted another, whose thread has not run yet: it may register
before or after `creg_shutdown_all`, or use the registry when it has been freed. The client names and the pointers are
symmetric and reduced by symmetry in runs without liveness.

`heap` stops at a heap that a failed `sf_malloc` has damaged (`ListsUndamaged`).

### Fairness

`ThreadFairness` is weak fairness of every service thread and of the handler's part in
`terminate`: the kernel runs every thread, so one that can go on, and stays able to,
goes on. Nothing more is assumed of the semaphores. A P that is possible only now
and then may never happen: `sem_wait` promises no order, and two loops of this program
take and give back a semaphore without end, `trans_commit` that of a dependency that
is still pending (`transaction.c:120-123`) and `creg_wait_for_empty` that of the registry
(`client_registry.c:71-76`). Without more, a thread could be overtaken there for ever.
Therefore the liveness properties have what they need beyond the scheduler as their
own hypotheses:

* `NobodyIsOvertaken` (both): a thread does not wait for ever at a semaphore that is
  free again and again;
* `ClientFairness` (`CommitAnswered`): a client that stays connected sends its COMMIT in
  the end, because `trans_commit` waits for other clients' transactions by design;
* `LateClientsLeave` (`ShutdownEnds`): a client whose thread registers after
  `creg_shutdown_all` leaves by itself. Nobody shuts its connection down, and
  `creg_wait_for_empty` waits for it; if it stays and is silent, the server never ends.

`ShutdownEnds` is about the end of the process after SIGHUP, whatever kind of end: an
orderly one, the FATAL of `trans_fini` at a committed transaction, a SIGPIPE, or a
death on the freed registry.

The violation run `shutdown_hang` has the same hypotheses, and they hold in its
counterexample. Two threads are stuck in it. A client has hung up and its transaction is
aborted, so the first thread, in a request for the same key, aborts for the store the
creators of that version and of the later ones, with `the_map.mutex` held. One of these
depends on the first thread's own transaction and is in `trans_commit`: it has kept its
semaphore since the beginning, and goes round its loop of P and V until the first
thread's transaction is decided. The first thread blocks in the P of `trans_abort` on that
semaphore, so its transaction never is. Main goes round `creg_wait_for_empty`.

## Disagreements between code and documentation

Shown by runs:

* `aborted_dependency`: a dependency that aborts between the two reads of its
  status in `trans_commit` is taken for committed.
* `shutdown_hang`: a thread waits for the semaphore of another transaction with
  `the_map.mutex` held; the holder of the semaphore is in `trans_commit` and waits for
  the first thread's transaction to be decided.
* `double_start`: a SIGCHLD between `runJob`'s test of busy and its fork starts
  the job twice and loses the first process.
* `key_compare`: the absolute difference of the hashes and the result of `strcmp`
  cancel for two keys of which the one in the table is smaller in the last
  character only; a request for one then works on the other.

Met while modelling and part of the models, without a run of their own:

* `trans_commit` and `trans_abort` write the status without looking at it under the
  semaphore (`transaction.c:138`, `157`), so a decision can be overwritten by the
  opposite one, although `transaction.h:161` rules it out;
* `trans_fini` calls `trans_abort` for every listed transaction, which answers a
  committed one with exit status 1 (`transaction.c:22`), while the tests expect a
  clean end after SIGHUP (`xacto_tests.c:66`);
* a failed `sf_malloc` lists the last free block a second time (`sfmm.c:175`), and
  two later calls return it;
* two racing `trans_create` calls give two transactions the same id, and one of
  them can get lost from the list;
* a cascading abort can reach a committed transaction and end the process;
* a transaction that decides ABORTED in its own `trans_commit` has dependencies that
  nobody has aborted; if somebody waited for it, its semaphore has one post more, and
  two threads that passed the status test of `trans_abort` walk over its dependencies
  at once and both drop the one reference it had to each. With six clients the count
  of such a dependency reaches zero while the store has its version. Only because the
  `free` in `trans_unref` is commented out nothing follows. `ReferencesCoverVersions`
  is claimed, and proved, until then (`OneWalkAtATime`); this came up in the attempt
  to prove it without the condition, and TLC confirmed it from a state with those six
  clients;
* a dependency set can hold the same transaction several times;
* `sf_malloc` without a list that is large enough writes through an uninitialised
  pointer; a request that needs two pages behind a used last block follows links
  that nobody has written; a request of 2 GiB or more has a negative size and gets
  a block of 32 bytes, and one of slightly less, whose padding passes the largest int
  (`sfmm.c:467`), a size that is negative or too small;
* `sf_realloc` to a larger size does not copy;
* of two processes of Imprimer that end together one can stay unreported; a paused
  job whose process continues and ends before the handler runs stays PAUSED;
  `getEligiblePrinter` prefers the first printer with a conversion path even if it
  is busy and a later one is free; jobs queued by the script wait for the first
  command; when the handler has run
  `runJobs` in the window of a start, `runJob` writes its status over whatever the job
  has become, also over COMPLETED (`jobs.c:121-128`);
* `getConversionPath` decrements its budget for each branch it tries, so a short way
  behind the last conversions of full tables is not found; a second printer of the
  same name can never be enabled;
* a thread that registers with the client registry after `creg_shutdown_all` keeps the
  server from ending as long as its client is silent, and one that uses the registry
  after `creg_fini` uses freed memory;
* `blob_hash` and `key_compare` compute with ints, so long keys collide, and a key
  ends at its first NUL although its blob does not;
* every GET keeps a reference to the value it returned, and every refused PUT one to
  the value it brought; a key packet without content is a null pointer in
  `blob_hash`; `store_show` can print a version that has just been freed;
* Audible accepts more than its usage text says: a factor with characters below the
  digits (`1-` is read as 7), one that an int does not hold (4294967297 wraps to 1), and an
  empty key; a factor above half of the range (513 to 1024) is accepted and comes back as
  "no factor"; without
  `-f` the factor is -1, which gives a wrong data size, and with neither `-f` nor
  `-p` one word too many is copied from `argv`; the data size of a sped-up file is one
  frame too large when the factor divides the frames, and slowing down no frames at
  all wraps it; a file that is shorter than its header says is filled with zeros,
  where `audio.h:72-75` calls it an error; a data size of all ones is read as 0, and a
  32-bit sample of -1 is lost: `slowDown` followed by `speedUp` makes a 0 of it; the
  interpolation of large steps between 24- or 32-bit
  samples overflows; an annotation that becomes too long is written past its buffer
  before its size is checked.

## Proofs

### The transaction manager

`XactoTransactionProofs` proves, for every set of clients and keys, every access
pattern and every number of requests:

* `InvariantHolds`: `Spec => []CommitInvariant`;
* `TypeCorrect`, `CommitsAfterDependencies`, `NoCircularWait`: the conjuncts of it
  that matter, `TypeOK`, `CommittedAfterDependencies` and
  `DependenciesPointToOlder`;
* `DecidedStaysDecided`: the action property `NeverPendingAgain`;
* `SemaphoresAreMutexes`: `SemaphoreIsMutexWhilePending`, from a second invariant;
* `EveryReferenceIsCounted` and, from it, `ReferencesCover`: `ReferencesCoverVersions`,
  from a third one.

`XactoRefinementProofs` proves `ServerImplementsContract`: `Spec =>
ImplementsContract`, from `CommitInvariant`. `InitSimulation` maps the initial states,
and `StepSimulation` every step. A step that changes no status, no id and no
dependency set stutters; `WhoBegins` shows that only `Create` brings a transaction
into the picture; `DependencyDepends` needs `StoreIsLocked` for the smaller number and
`CommittedAtEnd` for the status; `DecisionDecides` needs `CommitProgress`, because the
contract's `Commit` demands in one step what the code has seen over many.

The only assumptions are those on the constants: main, list head and null are
different from the clients, and clients access keys.

The inductive invariant. `CommittedAfterDependencies` alone is not inductive:
`CommitDecide` writes COMMITTED on the strength of what the walk over the
dependencies has seen. `CommitProgress` records that: every dependency is still
ahead in the walk or decided. For a dependency to stay decided no step may make a
transaction pending again, and the only step that writes PENDING is `Create`,
which acts on a transaction nobody points to yet. This is `PointersAreKnown`:
dependency sets, walks, versions, abort frames and the list hold only transactions
that `trans_create` has initialised. For a dependency set not to grow behind a
commit, `CommittedAtEnd` says that only a thread that is through with
`trans_commit` has a committed transaction. `StoreIsLocked` carries the comparison
of ids from the step that looks at a version to the step that adds the
dependency: the store's mutex keeps the version in place, and ids do not change
once assigned; therefore ids decrease along dependencies although the race in
`trans_create` can give the same id out twice. `WalkIsAtElement` keeps the walks
within their lists.

The proof has a lemma per conjunct, a step per action in each, and frame lemmas
that say which variables a group of actions leaves alone. It was found by checking
`CommitInvariant` with TLC first (run `three_clients`).

The semaphores. A cardinality does not go through an induction well, so
`SemaphoreInvariant` says it without one: a pending transaction's semaphore is 1 and
nobody holds it, or 0 and exactly one thread does (`Exclusive`). The other parts say
why the rest of the code does not interfere before the decision: an activation of
`trans_abort` that has the semaphore has written ABORTED in the same step
(`AbortsAreDecided`), `trans_commit` writes its decision before it posts
(`DecidedAtFinish`), does not call `trans_abort` while it holds the semaphore
(`NoAbortInside`), and does not get its own semaphore a second time
(`WaitsForOthers`). That nobody holds the semaphore of a transaction which is being
created is `PointersAreKnown` again.

The reference counts. `CountInvariant` is `WalkInvariant` and `ReferencesCounted`: until
the shutdown, and as long as at most one thread walks over the dependencies of each
transaction (`OneWalk`), a transaction's count is at least the number of those who
will still drop a reference to it (`Covered`). These are five: the versions in the store
(`Placed`), the versions a thread has taken out and is about to dispose of (`Doomed`),
the elements of dependency sets (`Depended`), the calls of `trans_abort` from outside it
(`Called`) and the transaction's own thread (`OwnReference`). Dependency sets and
lists of doomed versions grow and shrink at their heads, so their elements are named by
their height above the end, which does not change.

What takes an argument is the cascade of `trans_abort`. It drops the reference that a
dependency set holds to a dependency, but leaves the set as it is. An element of a set
therefore counts while the dependency is pending, and after that only as long as the
call which the walk over that set has made for this element has still to drop its
reference. `FinishReleases` shows that the end of a call takes its element out of
`Depended`, or the call itself out of `Called`. For this the stack of a thread has to be
`Nested`: each activation works on the dependency that its caller has reached, and the
ids decrease from caller to callee (by `DependenciesPointToOlder`), so no transaction is
there twice; and no other thread may be at the same element, which is `OneWalk`. The
condition is needed in the present state only: P and V add up (`Moves`), so walks that
are exclusive after a step were exclusive before it (`WalkBefore`), and the induction
can use its hypothesis. `ReferencesCover` then maps each key whose list has a version of
the transaction to an element of `Placed`.

### The store's data

`XactoDataProofs` proves, for every finite set of clients, every sequence of requests and
all keys and values: `CountsAreExact` (`ReferencesAreExact`), `ComparisonsNeverMeet`
(`MutexesAreUnderMapLock`), `RepliesAreAlive` (`ReplyIsAlive`),
`EntriesHaveTheirOwnKeys` (`OneEntryPerKey`) and, when no two different keys of the
requests compare equal (`KeysAreToldApart`), `GetsReturnTheirKeys`
(`GetReturnsValueOfKey`). The hypothesis of the last one is about the `key_compare` of the
code, so it leaves out keys of one length whose texts up to the first NUL are the same,
and keys whose hashes and texts cancel. Assumptions: a key is a sequence of bytes
and the table has buckets (`DataAssumption`), the values of an int are a multiple of 2^15
(`IntAssumption`), and null is no client, request or blob (`NullAssumption`).

The inductive invariant `DataInvariant` has, beside the types:

* `Locking`: a thread is at a label of the store exactly if it has `the_map.mutex`;
* `Places`: which request a thread works on, and that its positions are within the
  table and the list it walks over;
* `Mutexes`: only the two blobs of a comparison are locked, so a mutex is under the
  map's;
* `Creation`: a version is made by its request, once, and the blobs of later requests
  have no references yet; without it a count could be disturbed from outside;
* `Lists`: a version is in one place of one list and is alive, but for those that the
  collection has freed and not yet unlinked (`Dying`); a replaced one is in no list.
  This is what makes the holders of a value countable: the reference of a version is
  gone with the version, although the list still shows it;
* `Results`: what keeps the blob alive that a GET returns, from the lookup to the reply;
* `Keys`: keys in the table differ, and the search has only passed different ones.
  That equal keys are found equal needs that `blob_hash` and `strcmp` are functions of
  the content, and that the sum in `key_compare` is then zero; the converse is false
  (run `key_compare`), which is why `GetsReturnTheirKeys` has its hypothesis.

`ReferencesAreExact` is itself inductive once these hold: the proof shows for each
action which holder comes or goes and that the count follows.

### The spooler

`ImprimerProofs` proves, for every number of jobs and printers, all printer names,
types and conversions, and SIGCHLD at any point: `TypeCorrect`, `NoWorkIsLeftBehind`
(`QueuedJobsWaitForPrinter`), `ProcessesStayTracked`, `BusyPrintersAreUsed`,
`PrintersFitJobs` and the action property `EndedStaysEnded`. `ImprimerAssumption` is
all it assumes. `ProcessesStayTracked` says that exactly one job knows a process.
`EndedStaysEnded` has no condition but one exception: after a signal in its window, `Mark`
and `Fork` write the status of the job in hand.

What `SpoolerInvariant` says of the tables is stated for a record of them, so that it
can be followed through the handler's `runJobs`, which is a recursive function over
the list: each start keeps `WellFormed`, and the induction over the list is a lemma
about any such record. `NoWorkLeft` is the part behind `NoWorkIsLeftBehind`: nothing
can be done for the jobs that main's `runJobs` has passed, whatever the handler has
done since. It is kept because a printer that the handler frees is offered to all jobs
by the handler itself before it returns. `MainOK` has what main has read and not yet
used: the job in hand and a printer that the job may use. `Consistent` (`Tracked`,
`BusyHaveProcess`, `JobInHand`) is claimed until the handler has run into the window
of a start (`raced`); the run `double_start` shows that it fails then.

`ImprimerTablesProofs` proves, for tables of any size: `ConversionsLeadToTypes`
(`ConversionsAreFound`), `EnabledPrintersAreFirst`, `PathsFollowConversions`
(`PathsAreWays`) and `JobsFindPrinters`, from `TablesInvariant`: a conversion leads to a
known type, only the first entry of a type has conversions, only the first of a name
is enabled, and a job's set is what its names mean now. Entries are only appended, so
the first entry of a name stays where it is. `PathsFollowConversions` is about the
recursion: by strong induction on the budget, `getConversionPath` finds a path exactly
if there is a way within the budget, and what it finds is such a way.

### The allocator

`SfmmProofs` proves, for every page size (a multiple of 16 of at least 80 bytes: the
prologue, the epilogue and one block have to fit), every number of pages, every set of
requests and pointers, and every number of values of an int that is a multiple of 32 and
more than twice the bytes of the largest heap:

* `HeapIsWhole`: `Spec => []HeapInvariant`, the inductive invariant;
* `BlocksTile` (`BlocksTileHeap`), `TagsAgree` (`BoundaryTags`), `ListsAreExact`
  (`FreeListsAreExact`) and `GrowthIsNeeded` (`GrowsOnlyWithoutFit`), which follow from
  it;
* `TypesHold`: `~damaged => TypeOK`. What happens to the types after a failed
  `sf_malloc` has listed a block twice is only model-checked: the links then lead
  anywhere;
* `PayloadsFit` (`PayloadHoldsRequest`) and `PointersAreAccepted`
  (`OwnPointersAreAccepted`), for whatever requests the program makes. The properties
  except a block whose own request `Overflows`: its size with header and padding,
  `r + 8 + 15`, is not below `IntSize \div 2`. The code does not look for this;
  `getNewSize` makes a negative int of a request of 2 GiB and gives it a block of 32 bytes.
  The other blocks, and the heap as a whole, are right even then.

The invariant speaks of a heap by its sizes alone. A block starts where a size is not
zero, and everything inside a block is `Unset`; therefore `Tiling` can say block by
block that the next block starts where this one ends, that the flags in the next header
are right and that a free block has its footer and a used neighbour. That no word is
left behind inside a block is what `forget` is for, and it is a proof obligation of
each merge. `Lists` says that the links are inverse to each other and stay within one
size (`Ring`), and that along `pv` some rank decreases (`Ranked`). `Ranked` is what makes
a list go through its sentinel: without it a circle of blocks that the sentinel does
not reach would satisfy `Ring`, and `Fits` would miss them. It is given by an
existential quantifier, and each operation on a list exhibits the new ranks.
`Listed(h, c)` leaves out the block `c` that a call has in hand. `LastInHand` is about
the second turn of the loop of `sf_malloc`, where `mem_grow` unlinks this block again:
either nothing unlinks it, or its links still point to two neighbours that point past
it (`Unlinked`), so that the second removal changes nothing.

The proof goes in layers: what each helper writes (`RemoveEffect`, `CoalesceEffect` and
so on, about records and EXCEPT), what such a write does to a tiling or a list as sets
and functions (`Unlink`, `Insert`, the lemmas about merges and splits), what a C
function does to the whole heap (`ReleaseOK`, `AllocateWhole`, `AllocatePart`,
`ShrinkOK`, `GrowOK`), and what an action does to the heap, the call and the pointers
(`StartMallocStep` to `ShrinkGood`). `WalkOK` shows that the recursive function `Walk`,
by which the properties find the blocks, meets exactly the places of the invariant.

The tiling and the rings of `HeapInvariant` were checked with TLC on the configuration of
run `heap`; the ranks are beyond its evaluation, and `FreeListsAreExact` covers what
they are for.

### The audio filter

`AudibleProofs` proves, for every set of command lines and files, every table of
characters, every even largest factor and every width of a byte of at least two
bits: `UsageAccepted` (`UsageIsAccepted`), `OptionsKept` (`OptionsAreKept`),
`FailureIsClean` (`FailureWritesNothing`), `AnnotationsAreRecorded`
(`AnnotationRecordsCommand`), `SizesAreBytes` (`SizeIsBytesWritten`), `CryptIsUndone`
(`CryptTwiceIsIdentity`), `SlowDownIsUndone` (`SpeedUpUndoesSlowDown`) and
`InsertedAreLinear` (`InsertedSamplesAreLinear`). It assumes that the flags `-f`, `-k` and
`-p` have the characters they have and that words have no zero in them (`ArgsAssumption`),
and that an annotation of the greatest size and the header fit an int
(`AudibleAssumption`).

These theorems say where the code keeps what it promises, and the exceptions are part of
the properties, not of the assumptions. `UsageIsAccepted`: every line of the usage text is
accepted, and besides only those with a word of `OddFactors` or an empty key.
`OptionsAreKept`: a factor up to half of the largest comes back, and a larger one always
as none. `SizeIsBytesWritten`: the size is right for a file with frames and a factor up to
half of the largest, but for one frame when a speed-up's factor divides the frames and the
part of a frame at the end of an encrypted file. `SpeedUpUndoesSlowDown` compares bytes, and
the sample of 32 ones, which becomes 0, is its exception. `InsertedSamplesAreLinear` is
about the files for which an int holds the products of `getInterpolation`: none of 32 bits,
and of 24 bits only with factors up to 128.

The first two are about words. `CharToIntIs`, `DecimalIsRead` and `HexIsRead` show that
`charToInt` and `hexStringToInt` read a number of the usage text as what it says, as long as
an int holds it. `UsageIsWords` reads the usage text as a condition on each
word, `SpeedIsUsage` and `CryptIsUsage` show that the searches of
`argValidation.c`, which run from the last word to the first, decide the condition that
the code has instead, and `UsageIsAcceptedLine` compares the two; this needs that an
operand is no flag, which follows from the characters (`FlagsAreNoOperands`). `FactorBits` is what one division
has to do with bit 57. `OptionsInv` carries this to the states: `global_options` is
`validargs(argv)` once main is through. `OutputInv` says what is written when: nothing
before the loop, and from there on a header with the annotation of `Recorded`. An
offset below the size of the header, which `validDataOffset` lets through, makes the
size of the annotation wrap, and it is refused as too long. `SizeInv` counts frames:
`FramesWritten(i)` are in the output before round `i`, with a quotient that is rounded up
for `speedUp` (`CeilStep`), and `SizeAnnounced` is what the header has promised; at the
end `SizeAtTheEnd` compares both modulo the values of an int.

The last three are about every sample of the files. What they rest on is built up in
three layers.

* Numbers and bytes: `PowerStep` and `PowerSum` for the powers, `Value` for the number
  that a sequence of bytes makes (`GetStdinIntIs`, `ValueIsItsBytes`), and that
  `putByteInt` and `signExtend` undo each other for a number that fits its bytes
  (`ValueOfWritten`, `SignExtendOf`, `SampleWritten`). `XorTwice` and `XorOfLowBits` say
  that the exclusive or undoes itself even when only the low bytes are kept
  (`SampleDecrypted`). `OnesAreRead` and `SampleRewritten` say which bytes come back when a
  sample is read and written again: the same ones, but for 32 ones.
* Frames: `Holds(data, G, w, ch)` says that the data begins with the frames `G[0]`,
  `G[1]`, ... The frames of an output are a function of the input alone (`SpeedFrames`,
  `SlowFrames`, `CryptFrames`), the last with the states of `myrand` before each frame
  (`KeyStates`). `KeptBytes` and `InsertedBytes` find the place of each byte that `slowDown`
  writes.
* States: `HeaderInv` says which sizes and how many frames the process works with,
  `CountInv` that the loop ends with the last of them, and `FramesInv` that the output
  begins with the frames it should, and how far the input is read; of these `Reading` is
  what makes it inductive, because `slowDown` carries a frame in a static array and
  `crypt` the state of the generator. `PipeInv` keeps what the first process of a
  pipeline has made of its input as a fact about the second one's input. `PipeInv` is
  established by `FramesInv` at the end of the first process.

At the end of a process `CryptAtTheEnd`, `SpeedAtTheEnd` and `SlowDownAtTheEnd` read the
property off these: sample by sample for `crypt`, frame `f * Factor` for `speedUp`, and
for inserted samples with `Interpolated`, which shows that no step of
`getInterpolation` leaves an int as long as the property's hypothesis holds, and that
its division errs by less than one. The second one shows why `SpeedUpUndoesSlowDown`
has a bound on the size of the slowed file: `setNewDataSize` computes it in ints, and
beyond them the second process can read a negative number of frames and write nothing (17
frames of one byte, slowed down by 8, are enough when bytes have two bits).

### Recursion in proofs

`NaturalLemmas` has induction as a statement about sets of numbers (`SetInduction`,
`BoundedInduction`, from the existence of a least element), which all provers can
use, and shows that a function defined by recursion over a range of numbers satisfies
its definition (`RecursionExists`, `StrongRecursionExists`). With them the recursive
functions `blob_hash`, `charToInt`, `hexStringToInt`, `Number`, `runJobs`, `getConversionPath`,
`Walk`, `LineSize` and `TextSize` are within reach.
It also has what the proofs need to know of division.

### Only model-checked

Every safety invariant and every action property that the passing runs check is stated
by a theorem. What is left to TLC:

* Everything under fairness; the prover does not do liveness.
* `TypeOK` of `Sfmm` after `damaged`, see above.

The inductive invariants were found with TLC: each of them was checked on the
configuration of its component's run before it was proved.

## What is not modelled

* `csapp.c`: a textbook library of wrappers.
* `store.c`: commented out as a whole; the store that is linked is external.
* Payloads and byte order of packets; the positions in the client table; the
  argument parsing of the server's main; allocation failure in Xacto and Imprimer.
* The client registry's block after `creg_fini`, once it belongs to somebody else: that
  its use then kills the process is modelled, that it corrupts other data is not.
* The commands enable, disable and print of Imprimer without an argument, which use a NULL
  pointer.
* `version_dispose_all`, which reads a version after it has freed it, has no caller.
* Contents of the heap's payloads, and the driver of the allocator.
* What a print process does between fork and exit, the arguments of conversion
  programs, messages and helper functions of Imprimer.
* Audible's error returns of `putchar`, which no caller looks at, and `debug` output.

## Plan

The proofs cover what the runs check and the prover can do. What could be added:

1. a stronger contract for the cascade of aborts, once the code settles who may decide
   a transaction (see the decision that `trans_commit` overwrites);
2. the messages and helper functions of Imprimer;
3. the conditions under which the liveness properties hold with more clients than the
   runs have.
