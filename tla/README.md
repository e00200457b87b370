# cranberry-server: a TLA+ specification

cranberry-server is a small web server in C: one thread accepts connections and
starts a thread for each request, which answers it from a file, from a resource
compiled in, or by running a page with Lua code in it (luasp). The modules here
specify the parts in which those threads meet, check them with TLC, and prove the
most important results with TLAPS.

Paths are relative to the repository; `cthreads.c` is `src/cthreads.c`, and so on.

## 1. The system

| component | state it keeps | operations | what makes it correct |
|---|---|---|---|
| `cthreads.c`: read/write lock | semaphores `write` (1) and `readers` (max_readers) | init, read/write wait, trywait, post | writers exclude everybody; at most max_readers readers; no token is lost by a trywait that fails half way; a waiting writer is not overtaken |
| `cthreads.c`: threads, mutexes, sleep | - | create, detach, lock, unlock, sleep | those of POSIX |
| `webthread.c`: register of web threads | a list of threads and a count, a mutex for each | init, count, register, unregister, free | the count agrees with the list; `webthread_free` does not free the register under a thread and does not deadlock |
| `main.c`: server process | listeners, `main_loop`, `exit_sig_caught`, module data | start up, select/accept loop, signal handler, deinitialize | serves until told to stop, stops when told, closes only what it owns, frees a module after its last user |
| `webthread.c`: a web thread | its connection, file, send buffer | read request, drain a body, answer, clean up | one answer per request, after the request was received; closes what it opened |
| `websession.c`: sessions | live list, deleted list, `sess_lock`, `sess_del_mutex`, a counter | init, start, clean-up, destroy, data items, free | no session lost, freed while in use or revived; a page has the variables of its session |
| `luasp_session.c` | session variables (a kvlist in the session) | session_start, session_var, session_destroy | variables belong to one session |
| `luasp.c`, `luasp_reader.c` | page state: headers sent, session, state of the reader | run a page, echo, header, read a page as Lua source | headers before output, every exit releases what it took; text is output and never code, in order, wherever a block ends |
| `http_reply.c`: send buffer | buffer, position, flags | init, data, flush, flush_last, headers, error pages | chunks framed in order, one last chunk |
| `http_request.c`, `post_wwwform.c`, `kv_iter.c` | receive buffer, cursor, request record | read request line, variables, headers, cookies, form fields; throw a body away | what is read is what was sent, wherever its segments end; limits; time-outs are not data; the reading ends |
| `settings.c`, `cmdline.c`, `strawberry-ini/` | settings record | defaults, load ini, parse options, free | precedence; strings freed once |
| `log.c` | log file, two mutexes | init, write, deinitialize | no use after deinitialize |
| `kvlist.c`, `str_utils.c` | - | lists, url decoding | functional |
| `server_commands.c`, `cfile.c`, `http_time.c`, `ip_socket_utils.c` | - | wrappers, an empty command table | - |

How they interact. The main thread calls `cthread_create`; a web thread registers
itself when it first runs and unregisters at its end. All web threads share the
session register and its lock. The signal handler runs on whatever thread the
kernel picks, writes two variables of `main.c` and closes the listeners; it also
interrupts blocking waits of that thread (it is installed without SA_RESTART). At
the end the main thread calls `webthread_free`, which waits about ten seconds for
the count of threads to become 0, then frees commands, sessions, settings,
scripting and the log.

What is hard. Interleavings of the two-part operations (tokens in the lock, list
and count in the register, find and invalidate in a session); lock orders that
differ between two functions; a shutdown that waits for a count into which new
threads have not yet written themselves; descriptors closed by number from three
places; waits interrupted by a signal and not looked at; a clean-up that walks a
list under the wrong lock; a stream that is cut into segments anywhere and a
buffer in which its text is moved; error codes that are taken for byte counts; a
reader that steps back over the end of a block. `PROJECT.json` lists each of them
under "hazards" with its line and the properties that watch it, or why none does:
where the code goes wrong whenever it gets to a line, the properties except that
line by name and watch the ways to it.

## 2. The modules

    AbstractRWLock        what a c_rwlock promises
      ^ implemented by      ^ used by
    RWLock                WebSession
    RWLockProofs          WebSessionProofs

    ThreadRegister   <--  Server  (EXTENDS it; main, handler, web threads, descriptors)
    ServerProofs                  (of both)

    Connection <-- PostForm <-- HttpRequest   (EXTENDS; a request is read)
    SendBuffer <-- Reply                      (EXTENDS; a request is answered)
    LuaspReader                               (a page becomes a Lua chunk)
    WebThread                                 (EXTENDS these three: one web thread)

    HttpRequestProofs <-- HeaderProofs
    HeaderProofs, ReplyProofs, LuaspReaderProofs <-- WebThreadProofs

**RWLock** (`cthreads.c` 270-343). One action is one semaphore operation; `pc` is
the place of each thread in the six functions and `i` its loop counter. Names
follow the functions: `ReadWaitWrite` is the wait on `write` in `read_wait`,
`WriteTryUndoWrite` the post of `write` in a `write_trywait` that fails. The
`Interrupt` actions end a blocked `sem_wait` with EINTR and do what the function
then does. `phantom` and `leaked` are history: tokens counted without being taken,
and a `write` kept by an interrupted `read_wait`. `Abstract == INSTANCE
AbstractRWLock WITH ...` is the refinement mapping.

**ThreadRegister** (`webthread.c` 73-186). One action is one mutex operation with
the accesses it protects. The list is a set (the code never uses its order). After
`FreeDestroy` any use of the register sets `crashed`, and the model stops: what
happens then is undefined. `timedOut` and `late` are history and name the two ways
`webthread_free` can go on although a thread is there.

**Server** (`main.c`, and `webthread.c` 189-423 as far as descriptors go). It
extends ThreadRegister and runs it inside a process: `mainPc` is the place of the
main thread in `server_main`, `handler` where each thread is in
`exit_signal_handler`, `work` where a web thread is in its request. `fdOwner` is
the descriptor table: a number has an owner, `close` takes a number whoever owns
it, `socket`, `accept` and `fopen` give out the lowest free number. `watched` is
what a blocked `select` or `accept` of the main thread has hold of: closing a
listener in another thread does not wake it. Settings, command line, ini file,
log, chdir, port check and getaddrinfo are one step (`Configure`) with the three
ways it can end.

**WebSession** (`websession.c` 61-311, called as `luasp_session.c` and `main.c`
call it). Lists are sequences of nodes; the secret and the formatting of the
session id are left out, so an id is a node. A critical section under `sess_lock`
that cannot block is one step or two; the second loop of the clean-up, which holds
the wrong lock, goes node by node. `sess_lock` is the abstract lock: a signal that
interrupts a wait on it is RWLock's subject. Memory of a freed node is not given
out again, as the model ends when a live session is freed. `cleanup_counter` has
no lock: while another thread is at it an increment may go lost (`Incremented`),
and so may the assignment of 0 (`Cleared`). That no page begins once the register
is freed (`StartCall`) is what `main.c` does and no guard of websession.c: a page
that webthread_free gave up on goes on, and the model has it. `registered` are the
sessions that have an item of data, `sess_vars` whose item a page uses:
lsp_session_start looks for it and registers it in two calls, and the second gives
NULL to the page that comes too late. VariablesOfSession shows that no page does:
a client can only know the id of a session (`Known`) whose item is registered.
When there is no memory for the item this is not so (section 5), and the model
ends.

**SendBuffer** (`http_reply.c` 80-250). A byte is its place in the reply and
whether it belongs to the header or the body; what goes to the socket (`wire`) is
a sequence of bytes and of the marks of chunks: size, end, last chunk. `PutFull`
and `PutRest` are the turns of the loop in send_buffer_string_data.

**Connection** (`http_request.c` 265-303, and the client). A request is a record
of its parts (`RequestParts`, over an alphabet of bytes) and `Encoded` the bytes
it is sent as; a word the code does not look into is one byte. `Readable` is a
request whose parts can be told apart again: no space in a URL, no colon in a key,
and no 0 byte in any of them, since `strchr` and `strstr` stop there (`CString`,
`StrChr`). `Arrive` is a `recv` that gives the next bytes, as many as the client's
segments make it; `Nothing` is a closed connection, `RecvFails` an error of `recv`
or `select` or a time-out.

**HttpRequest** (`http_request.c` 184-655, `kv_iter.c`, `webthread.c` 205-216).
`rpc` is the place in `http_request_read` and in the draining behind it, `rest`
the text from the cursor `pbuf` to the end of what was received. One action is one
call of `recv` with what follows it, or one turn of the loop over lines. A 0 byte
is a byte like others to `recv` and ends the text to everything that searches it:
a line, a key, a value, the header itself (`NextLine`). What the code reads behind
the received bytes is a choice of a few strings: `Garbage` for a failure that
counts as bytes (389), `Stale` for the text of the variables (211), and
`StaleLines` behind a URL that ends with the text (444), where the length of what
is left becomes negative (`StaleVersion`). The type of a file and url_decode are
left out.

**PostForm** (`post_wwwform.c`). Beside `rest` there are the place of the cursor
(`pos`) and the counts the code keeps (`bufbytes`, `bytes_read`, `buflen`): they
disagree with the text when the form did not come with the header, and where a
length becomes negative the model stops (`broken`). `searched` is the place
`psearch` goes on from; a search ends at a 0 byte (`Found`), and a form ends at
one (`NoText`). `Filled`, `Grown` and `FieldTooLong` are the two copies of the
code that makes room for more.

**LuaspReader** (`luasp_reader.c`). The automaton of the two readers, on the bytes
it tells apart. Each byte of the page has its place, so that the chunk (`lua`)
shows what became of it; what the reader adds (`echo('`, backslashes) has none.
The properties speak of places in the chunk and in the page: of the marks before a
place the last is the begin of an echo (`Within`); byte n of the page is in a tag
or a comment, or may be dropped (`InTag`, `InComment`, `Dropped`). Text of a page
goes out as the table of line 47 says (`Escapes`, `Shown`): as it is, with a
backslash in front, or as a '.' for the other control characters, of which
`Control` stands for all. `held` are the blanks that are read ahead behind a tag;
`StepBack` puts them back. The two readers differ there only (`embedded`).

**WebThread** (`webthread.c` 189-423, `luasp.c` 424-489). The composition: the
result of the reading selects the first step of Reply, and `lua_load` calls the
reader until the page ends or Lua finds an error. What nothing reads any more is
dropped (`Drop`, `ReaderClose`), which keeps the parts from being multiplied.

**Reply** (`webthread.c` 218-417, `luasp.c` 173-216 and 424-540). It extends
SendBuffer with the operations of a reply in the order the code makes them: error
pages, 405, embedded resources, plain and compressed files, script pages that fail
to open, to load or to run. The kind of the resource, the lengths of all strings
and what a script does are choices. The several strings of a header are one, which
gives the same flushes. The compressor shares the memory of the buffer:
`stream_out` is what it has put there. What `send` returns is left out, as the
code does not look at it.

## 3. What TLC checks

| run | instance | properties | result |
|---|---|---|---|
| `rwlock` | 3 threads, 2 read locks, 1 signal | TypeOK, TokensConserved, WriteOwned, Exclusion; NoReaderAdmittedPastWriter (action); WriterDrains, SomeoneProgresses (liveness); ImplementsAbstract (refinement) | hold, 4.5 thousand states |
| `rwlock_signal` | the same | WriteWaitWaitsForReaders | violated |
| `register` | 3 threads, 2 tries | RegTypeOK, RegisterExclusion, CountAgrees, OrderlyFreeIsSafe; FreeEnds (liveness) | hold, 7.7 thousand |
| `server` | 2 web threads, 4 descriptors, 1 signal, 1 try | TypeOK, DescriptorsOwned, ModulesOutliveThreads; ServesUntilTold (action) | hold, 0.8 million |
| `server_shutdown` | 1 web thread, 4 descriptors, 2 signals | SignalEndsServer (liveness) | holds, 51 thousand |
| `server_late_thread` | as `server` | NoThreadAfterFree | violated |
| `sessions` | 2 threads, 2 sessions, 2 units of time | TypeOK, ListsSound, DestroyedStaysInvalid, VariablesOfSession | hold, 3.0 million |
| `sessions_cleanup` | as `sessions` | CleanupFreesDeleted | violated |
| `web_thread` | 26 requests, receive buffer 20, form buffer 4 to 8, send buffer 2, headers up to 3, replies up to 12, pages of 3 pieces, blocks of 4 | ThreadTypeOK; replies: StreamInOrder, WellFramed, OneHeaderFirst, FileClosed; requests: HeadersIntact, UrlVarsIntact, VarsIntact, DrainedBeforeReply, BrokenOnlyAsKnown, FaultNotOkay; pages: EchoesEnd, PageInOrder, TextIsQuoted; ReadingEnds, PageLoads (liveness) | hold, 0.24 million |
| `reply_header` | the replies alone | HeaderNotInChunks | violated |
| `request_header` | as `web_thread` | HeadersComplete | violated |
| `request_form` | as `web_thread` | FormComplete | violated |

Six runs end in a violation on purpose; each checks a sentence of the repository
that the code does not keep:

- `cthreads.h:159-160`: write_wait "waits for all readers on the rwlock to finish
  before returning". The loop at `cthreads.c:314` ignores the result of its waits,
  and a signal ends one of them.
- `webthread.c:109-110`: webthread_free "requires that no more threads are started
  and registered after the call". A thread that `main.c:339` created just before
  the signal registers later.
- `websession.c:164` and 280-281: the second loop of the clean-up "removes from
  [the] deleted session list". Line 160 starts it at the live list.
- `http_reply.c:178`: "send the header, chunked data is following." A header that
  does not fit into the send buffer (8192 bytes) is flushed on the way, and with
  SBF_CHUNKED set that makes a chunk of its beginning.
- `http_request.c:460`: "extract all other header informations into key/value pair
  list". The loop ends when no text is left at the cursor, which is so behind the
  last line of a segment too.
- `post_wwwform.c:114`: "find '&' (if not try to receive more) or EndOfData". A
  form that comes behind its header is received without `bufbytes` and `EoD` being
  set, and a segment that ends with '&' ends the form.

The bounds. *Lock*: three threads are a writer, a reader it waits for and a third
to overtake or to compete; with two tokens the loops have a first, a middle and a
last turn, and a trywait can fail with one token in hand. *Register*: three
threads can register, serve and unregister at once; with two tries webthread_free
sees the count go down or gives up. *Server*: four descriptors are both listeners
and two more, so the table fills, and the number of a closed listener goes to a
client or a file; one signal suffices for the safety properties (the handler is at
two places on one thread), two are used for the shutdown. *Sessions*: two threads,
since each hazard is a pair of functions; two sessions make a list with a head and
a tail; in two units of time with Ttl = 0 a session is valid in its unit and over
in the next, and a thread that took the time in the first meets one that took it
in the second; MaxCounter = 1 gives starts with and without a forced clean-up. Two
read locks for two web threads: like the 20 of the code, they are not used up.
*Requests*: each method, header lines that fit into the buffer, do not fit, or
have no colon, a request line without version, variables in the URL and cookies,
each header of a POST missing or wrong, forms that fit, fill the buffer exactly,
make it grow or exceed its limit, a body that is shorter than announced, and a 0
byte within a header line, in front of one and in a form; each is cut into
segments in every way, and a failure or the end of the connection may come at
every `recv`. *Pages*: all sequences of three pieces (text, '<', a quote, a
backslash, a control character, a blank, line ends, the three kinds of tags, a tag
with doubled marks) and of two pieces before an end within a tag; a block of four
is full after one `echo('`, so every place is the end of a block in some page.
*Reply*: with a buffer of two bytes a string fits, fills the buffer exactly, is
cut once or is cut twice; a header of three bytes is the one that does not fit;
twelve bytes are five turns of the buffer after the header.

Deadlock checking is off in all runs: every one of these programs may stop (the
process exits; after the interrupted read_wait and in the deadlocks of two lock
orders everyone waits for ever).

Fairness. The runs with liveness properties use weak fairness of each thread's own
steps, that is, the scheduler runs a thread that can run. Nothing is assumed of
`sem_wait` or the mutexes beyond that: no order among those who wait. Outside the
fairness are calls, signals, clients, the end of a request (a client or a script
may take for ever), and so the unregistration of a thread. `SomeoneProgresses` is
therefore about some thread and not each one. In `web_thread` a `recv` ends, since
each has a time-out, but for the first, which has none and is outside the
fairness, like everything Lua and the client do; on a closed connection it gives 0
(a fault is a choice, never forced). `ReadingEnds` excepts a connection that is
closed in the middle of a form, where the code turns for ever. `SignalEndsServer`
is conditional on the handler not having run on a web thread while the main thread
was blocked: in that case nothing wakes `select`.

For every property the project names a wrong variant of the code (the `Bug...`
operators, and "mutants" in `PROJECT.json`) under which TLC finds the property
violated: a token forgotten, a lock released early, a test left out.

## 4. What is proved

With TLAPS, for every value of the constants that satisfies the named assumptions.
Those are finite sets of threads, positive bounds and distinct names
(`RWLockAssumption`, `ThreadRegisterAssumption`, `ServerAssumption`,
`WebSessionAssumption`), buffers of at least one byte (`SendBufferAssumption`,
`ReplyAssumption`, `ReaderAssumption`), and three of the request reader:
`RequestAssumption`, a receive buffer of more than six bytes, since the code waits
for four bytes and may count a failure as up to three more; `FormAssumption`,
limits of a form that are not 0; `RequestsAssumption`, that a request consists of
its parts, which are sequences of bytes, and `AlphabetAssumption`, that the bytes
the code looks for are among them. What can be in a part is left open: a property
that needs a readable request says so. `PagesAssumption` says of a page that it is
a sequence of bytes.

**RWLockProofs.** `IndInv` is TypeOK, WriteOwned and TokensConserved. None of them
is inductive alone: that a writer finds no reader inside follows from counting
(`readers` plus all claims is max_readers), and the counting needs to know that
one thread at a time is in the loops. The lemmas `ClaimsFinite`, `OneMoreClaim`
and `ClaimsAfterStep` say how the set of claims changes when one thread's claim
does; `TypesStep`, `OwnerStep` and `TokensStep` go through the actions. From the
invariant: `MutualExclusion`, `WriterNotOvertaken` and `Refinement` (a step before
any signal is a step of AbstractRWLock or changes nothing a caller sees).

**ServerProofs**, the register. `RegInv` adds to RegTypeOK, RegisterExclusion and
CountAgrees the parts `Drained` (after a look at count 0 with no thread late, no
thread is in the register), `FreedAtTheEnd` and `CrashExplained`. With them
`OrderlyShutdown`: a use after free or the deadlock of the two lock orders occurs
only if the wait timed out or a thread was late.

**ServerProofs**, the server. Every step of the server is a step of the register
or leaves it alone, by the way Server is written (lemma `ServerUsesRegister`), so
the register's theorems hold in the server (`ServerRegisterInvariant`,
`ServerOrderlyShutdown`). `NoModuleFreedUnderThread` then shows that settings,
sessions, commands and log outlive the web threads unless the wait timed out or a
thread was late; it needs `Phases`, which ties the module that is freed next to
the place of the main thread in webthread_free.

`ServerInv` is about the main thread and the descriptor table. DescriptorsOwned
alone is not inductive: that `accept` and `fopen` take a number nobody has, and
`close` one's own, needs the places of the main thread where it has a descriptor
in its hand (`AcceptedKept`), where the listeners are open (`Served`), and that
nobody closed one before a signal (`UntilTold`, which also keeps every thread out
of the signal handler). `SelectReason` is why `select` can fail; with it
`ServerServesOn` follows. `ServerTypeCorrect` is proved before, by itself.

**WebSessionProofs.** `SessionInv` has seven parts. `LockHeld` and `Places` say
who has which lock, from the place in the code; only then is it known that what a
thread read under the write lock is still so at its next step (`Locals`).
`OnePlace` is ListsSound in the form that is inductive: a node is in one place of
one list, or in the hand of one thread. `Shared` is what pointers point to: an id
that came from a client is that of a session whose item is registered, and of two
threads with one session the item was registered before; from that `SameSession`,
and VariablesOfSession. `Destroying` is why an invalid session stays so: a session
to destroy is in a list, and is made invalid under the write lock. The parts about
nodes hold while the model is `Alive` (the clean-up has not freed a session of the
live list, which is the violation of `sessions_cleanup`, and there was memory for
the items) and the register is not freed: both are conditions of the properties
too. A step is looked at by kinds: those that change the lists (`Relink`) and
those that do not.

**ReplyProofs.** `ReplyInv`, for every size of the send buffer and every length of
header and reply, is TypeOK with the following. `Ordered`: the socket has the
first bytes, the buffer the next, the string that is put into it the rest. `Calls`
and `Counted`: what each place in the code knows of the flags and of the header.
`HeaderFirst`: the bytes of the header are the first `headerLen`. `Framing`:
chunks are whole, and nothing is between them; it needs that a header that fits
was sent before the first chunk. `FileOpen`: where a file can be open. Each part
but the control is proved over nine kinds of step in place of all the disjuncts of
Next: `Quiet`, `NewHeader`, `NewString`, `Cut`, `Fit`, `Sent`, and the actions
HeaderEnd, PlainHeader and CleanUp; `StepKind` shows that there are no others. The
lemmas before them say what joining, cutting and framing do to sequences.

**HttpRequestProofs** and **WebThreadProofs.** `ReadInv` is about the reading of a
request that is cut into segments anywhere. `BuffersFit` (no text is longer than
its buffer, and a form's buffer is bounded) is not inductive: it needs `Placed`,
the relation between the text, the place of the cursor and the number of bytes the
code counts, which is an equation, and an inequality once a form came apart from
its header. `Failed` is what a failure leaves in `err`. WebThreadProofs shows that
answering leaves `ReadInv` alone and reading leaves `ReplyInv` alone, so that both
are invariants of `ThreadSpec`, the specification of the run `web_thread`: its
properties StreamInOrder, WellFramed, OneHeaderFirst, FileClosed, FaultNotOkay and
BrokenOnlyAsKnown are theorems, and so is ThreadTypeOK (`ThreadTypeCorrect`), of
which `RequestTypes` is the part of the reader: lists of pairs, flags, numbers.
What is recursive there has a type by induction, for which there is no theorem
with an operator to cite; `LeastOf` (a set of numbers that is not empty has a
least one) takes its place. `DigitsReadable` looks at the least number of digits
that could not be read, and reads one digit more than the number before it.

**HeaderProofs.** HeadersIntact compares what was read with what was sent, so the
proof shows that the reader inverts the encoding. `Encoded` is made of folds, for
which the library has no theorem: the first part gives them a form by recursion on
the number of lines, by `LeastOf` as above. `HeaderInv` then says of a readable
request whose CRs and LFs came together: of the lines that were sent, k were
taken; what is in the buffer and what was not received yet are, together, the
lines that follow and the empty one. The first line needs what makes a request
readable: the first space ends the method, the next one the URL, whatever is
behind the received bytes. A line is taken only when its CR LF is in the buffer,
and is then exactly what was sent, as there is no 0 byte in it; its first colon
ends the key. That the request line of a readable request never ends in the stale
bytes of line 444 is `RequestLineGoes`, and `BrokenKnown` the part of
BrokenOnlyAsKnown that depends on it. Cookies are taken apart in a second step:
the pieces between semicolons are the cookies with a blank in front, and an item
is read as it was sent when its key has no '=' in it. WebThreadProofs carries this
to `ThreadSpec` (`ThreadHeadersIntact`).

DrainedBeforeReply needs to know how much is left of a request, in the middle of a
header that may be read wrongly: a CR and its LF in different segments make one
line of two. `Left` allows for that: what is left begins with some header line or
the empty one, or is not more than the form. `LeftAtEnd` shows that this stays
true behind the end of any line, found or overlooked. `BodyInv` goes on from
there: once a POST is known, what was counted (`bytes_read`) and what is still to
come are together not more than the form, unless the header was left early or the
connection was interrupted, and throwing away ends at `content_length` or with an
interruption. So nothing is left when `content_length` is the length of the form
at least, which is the second premise of `ThreadDrains`; with a smaller one the
client sends more than it announced, and nothing behind that is read.

UrlVarsIntact is about a text whose length the code gets wrong:
`read_http_request` gives the length of the whole URL for the text behind its '?',
so what is read as variables goes on behind their end, into the 0 byte, the
version and what the buffer held before. `UrlAhead` says that up to the request
line no byte is lost, and that behind it `get_vars` is what `UrlRead` demands;
`QueryPart` and `QueryTextIs` show that the text that is read begins with that of
the variables and a 0 byte (`StartsWithText`). `QueryRead` is about every such
text: the pieces between '&' are the pairs that were sent, up to the last, and
what is behind the 0 byte can only be the value of a last variable that has none;
more variables come of an '&' behind it, of which there is none when the path is
shorter than the version and its line end. `UrlReadable` is the premise: a path
that begins with '/' and has no '?', names and values that are not empty and hold
no byte that ends them, no '&' in the version (`ThreadUrlVarsIntact`). A segment
that failed and counts as bytes (fault "more") is an exception of the property
itself.

**LuaspReaderProofs.** Three properties of the chunk, of which none is inductive:
what may be said of the chunk depends on where in the page the reader is, and that
is in its state only in part. `ReaderInv` names the place: p is the next byte of
the page, and g, if it is not 0, a carriage return behind it that a step back has
skipped (`NoLineEnd` puts back the blanks before it and not itself). `Behind` is
what each state knows of the bytes before p (STMT2 is behind a `<?` with no `?>`
since, LF1 behind a `?>` and blanks), `HeldAt` that the blanks that are held are
the bytes right before p, and `Chunk` is the claim about the chunk so far, up to
the byte from which on the reader may still decide: echoes nest (`Echoes`), bytes
are in order (`KeptOrder`) and quoted (`Quoted`), and each byte before is in the
chunk or `Dropped` (`Accounted`). Stepping back moves p to a place whose bytes
were never put into the chunk, which is why nothing is doubled. `ReaderKeeps` goes
through the ten actions; `ReaderStarts` and `ReaderEnds` are the begin and the end
of a page, whatever page it is. WebThreadProofs carries the invariant to
`ThreadSpec`: `PageEchoesEnd`, `PageBytesInOrder` and `PageTextIsQuoted`. The
width of what is put into a block is in no fold any more (`Width`), so the bound
of `buf_offset` is a part of the invariant.

Only model-checked:
- Liveness under fairness, which needs ENABLED: WriterDrains, SomeoneProgresses,
  FreeEnds, SignalEndsServer, ReadingEnds, PageLoads.
- VarsIntact: it compares the variables of a form with `Joined`, as UrlVarsIntact
  does those of a URL, but a form is read in pieces, and what is left of the piece
  before is moved to the front.
- UrlVarsIntact for URLs that have an empty name or value, or bytes in them that
  end it.
- DrainedBeforeReply for requests that are not readable.

## 5. What the reading of the code showed

Beside the six runs that end in a violation, the modules keep these behaviours of
the code as they are; the properties name them as exceptions where they touch
them.

Requests.
- `http_request.c:427` tests `buf[i]` where `pbuf[i]` is meant: a request line
  without a version ends its URL at the wrong place.
- Line 438 tests for a negative error of `_parse_url`, whose errors are positive:
  they are ignored. They can only say that there was no memory.
- Line 211 gives the length of the URL for the text behind its '?': what follows
  the URL is read as variables, so a long path gives more of them, and a last
  variable without a value may get one.
- `_recv_data_timed_rrt` (291-303) turns failures into the numbers 1 to 3, and its
  callers test for negative ones: a time-out is answered with 400 in place of 408,
  or counts as bytes (lines 389 and `post_wwwform.c:43`).
- A second Cookie line replaces the cookies of the first, which are not freed.
- The CR and the LF of a line in different segments make the request malformed.
- A 0 byte in a header line ends the line for some of the code and not for the
  rest; at the begin of a line it ends the header, and what follows is counted as
  the body.
- Line 443 steps over the byte that ended the URL even when that was the last one
  received: the version and the lines are then looked for in what the buffer held
  before, and the length of what is left, 551, is negative.
- A form that ends in a key without '=' is answered as too long; a chunked body is
  parsed with its chunk sizes as text.
- `post_wwwform.c` 77, 139 and 175 count 0 bytes of a closed connection and go on
  without a wait.
- `webthread.c:210` reads the request that could not be allocated.
- `http_request.c:378` says the connection was selected by the main thread; it is
  the listener that was, and the first `recv` waits for ever.

Pages.
- A line feed behind `?>` on a line with output is put into the chunk and read
  again, so it is there twice, and line feeds in a comment are dropped: the line
  numbers that `luasp_reader.c:88` wants to keep are off in both cases.
- A page that ends with '<' behind text, or within a tag, leaves its `echo` open.
- The '<' of `<<?` hides the tag: the reader goes to text after the second '<', so
  the tag is echoed and not run.
- `luasp_reader_file` puts back several characters with `ungetc`, of which C
  promises one; the model lets it work, as it does in glibc.
- After `?>`, blanks, CR and something else, the file reader puts the blanks back
  and not the CR, the embedded one goes back by their number.

Sessions. Without memory for the item of data a page keeps `sess_vars` as it was
(`luasp_session.c` 75): after a second `session_start` these are the variables of
the session before, and two later pages of the session may race for the
registration. The handle of the first session is not freed by a second
`session_start` of the page (line 103).

Elsewhere. `settings.c` 181-182 let the ini file override the log levels of the
command line, and line 137 reads the file name without the `/etc/` that line 136
puts in front of it; `websession_unregister_data` is called by nobody.

## 6. What is not modelled, and the plan

- *The values of session variables* (`luasp_session.c` 114-175): two requests of
  one session read and write them without a lock, so there is no order of events
  in which the code promises anything about them. WebSession has whose they are.
- *Settings, command line, ini file*: one sequential pass before there is a
  thread; Server has its outcome as `Configure`.
- *Log, key/value lists, string helpers*: formatting and pure data. The log's life
  is in Server (`ModulesOutliveThreads`).
- *Functions of scripts* for header fields, redirects and the tables of variables:
  they write lists nobody else sees.
- The contents of names and values: url_decode, file types, the names of header
  fields beyond those the reader looks for. Allocations whose result the code does
  not look at (`http_request.c` 501-518), or whose error it ignores (that of
  `_parse_url` in 438), are taken to work.
- An error of a script that is no string: the message of `luasp.c` 490 and 520 is
  then NULL and is used in 495 and 524; here it is a string of some length.
- The order within two steps where nothing can come in between: the clean-up
  unlinks a node (websession.c 141-142) before it takes `sess_del_mutex` (144),
  under `sess_lock` all the time (`CleanMove`); main.c closes both listeners
  (289-290) with no step between them (`CloseListeners`).
- Lua, SQLite, miniz and their bindings, the resource compiler (third-party and
  build-time code, most of the lines of the repository); wrappers of system calls,
  version and time formatting; the Windows variants; the table of commands, which
  is empty.
- `post_multipart.c`: it looks for the boundary of a body and receives once
  (22-84); http_request_read does not call it, and takes such a request for
  complete without its body.

Open: VarsIntact for every set of requests; that RWLock's refinement carries the
theorems of WebSession to the lock of `cthreads.c` until a signal; the values of
session variables.
