------------------------------- MODULE Server -------------------------------
(***************************************************************************)
(* The server process: main.c (start up, the select/accept loop, the       *)
(* signal handler, the shutdown) together with the web threads it starts   *)
(* and the register they use (ThreadRegister).                             *)
(*                                                                         *)
(* One action is one system call of the main thread, of the handler or of  *)
(* a web thread.  What the three share is the table of file descriptors:   *)
(* a descriptor is a number, a closed number is given out again, lowest    *)
(* first, and close() takes a number whoever owns it now.                  *)
(*                                                                         *)
(* External: the kernel (sockets, select, the descriptor table).  A        *)
(* blocked select or accept does not notice that another thread closes     *)
(* the listener, and still returns when a connection arrives.              *)
(***************************************************************************)
EXTENDS ThreadRegister

CONSTANTS MaxFd,        \* descriptors 1..MaxFd (RLIMIT_NOFILE)
          MaxSignals    \* bound: exit signals the process receives

ASSUME ServerAssumption == MaxFd \in Nat \ {0} /\ MaxSignals \in Nat

Families == {"v6", "v4"}
Fds == 1..MaxFd
NoFd == -1

VARIABLES
    mainPc,            \* where server_main is
    main_loop,         \* both written by the handler
    exit_sig_caught,
    main_exit_code,
    listenfd,          \* listenfd6 and listenfd4
    IPv,               \* the families served (IPv6, IPv4)
    addr_set,          \* the families in the fd_set of select
    argFd,             \* arguments->fd of the connection just accepted
    initialized,       \* the modules set up and not freed
    createFailed,      \* history: cthread_create failed once
    work,              \* where a web thread is between its registrations
    connFd,            \* its args->fd
    fileFd,            \* the file it serves
    handler,           \* where each thread is in exit_signal_handler
    signals,           \* signals received
    fdOwner,           \* kernel: what each descriptor is
    pending,           \* kernel: families with a connection to accept
    watched            \* kernel: what the blocked select waits for

mainVars == <<mainPc, main_loop, exit_sig_caught, main_exit_code, listenfd, IPv,
              addr_set, argFd, initialized, createFailed>>
workVars == <<work, connFd, fileFd>>
signalVars == <<handler, signals>>
kernelVars == <<fdOwner, pending, watched>>
vars == <<regVars, mainVars, workVars, signalVars, kernelVars>>

Modules == {"settings", "log", "commands", "threads", "sessions", "luasp"}
MainPCs == { "start", "sockets6", "sockets4", "listen", "modules",
             "loop", "select", "selecting", "select_failed",
             "accept", "accepting", "accept_failed", "create",
             "deinit", "freeing", "exited" }
Workers == Threads \cup {Main}

\* Owners of a descriptor.
Free == <<"free", Main>>
Listener(f) == <<"listener", f>>
Accepted == <<"connection", Main>>
Conn(t) == <<"connection", t>>
File(t) == <<"file", t>>
Owners == {Free, Accepted} \cup {Listener(f) : f \in Families}
            \cup {Conn(t) : t \in Threads} \cup {File(t) : t \in Threads}

Init ==
    /\ RegInit
    /\ mainPc = "start"
    /\ main_loop = TRUE /\ exit_sig_caught = FALSE /\ main_exit_code = "success"
    /\ listenfd = [f \in Families |-> NoFd]
    /\ IPv \in SUBSET Families
    /\ addr_set = {}
    /\ argFd = NoFd
    /\ initialized = {}
    /\ createFailed = FALSE
    /\ work = [t \in Threads |-> "closed"]
    /\ connFd = [t \in Threads |-> NoFd]
    /\ fileFd = [t \in Threads |-> NoFd]
    /\ handler = [w \in Workers |-> "none"]
    /\ signals = 0
    /\ fdOwner = [fd \in Fds |-> Free]
    /\ pending = {}
    /\ watched = [f \in Families |-> "nothing"]

-----------------------------------------------------------------------------
(***************************************************************************)
(* The descriptor table (external).                                        *)
(***************************************************************************)
FreeFds == {fd \in Fds : fdOwner[fd] = Free}
Lowest(S) == CHOOSE fd \in S : \A other \in S : fd <= other

OwnerOf(fd) == IF fd \in Fds THEN fdOwner[fd] ELSE Free
Listening(f) == OwnerOf(listenfd[f]) = Listener(f)

\* close() of the numbers in S; a number that is not open fails with EBADF,
\* which nobody looks at.  A listener that is closed drops its connections,
\* unless a blocked call of the main thread still uses it.
Close(S) ==
    /\ fdOwner' = [fd \in Fds |-> IF fd \in S THEN Free ELSE fdOwner[fd]]
    /\ pending' = {f \in pending : \/ watched[f] = "listener"
                                   \/ Listening(f) /\ listenfd[f] \notin S}

\* The threads run unless they are in the signal handler, and as long as
\* the process does.
Alive == ~crashed /\ mainPc # "exited"
MainRuns == Alive /\ handler[Main] = "none"
Runs(t) == Alive /\ handler[t] = "none"

At(from, to) == MainRuns /\ mainPc = from /\ mainPc' = to

-----------------------------------------------------------------------------
(***************************************************************************)
(* Start up: a step that fails leaves for the clean-up at label_exit.      *)
(***************************************************************************)
\* Settings, command line, ini file, log, chdir, signal handlers, port
\* check and getaddrinfo.
Configure ==
    /\ \/ /\ At("start", "sockets6")
          /\ initialized' = {"settings", "log"}
          /\ UNCHANGED main_exit_code
       \/ /\ At("start", "deinit")
          /\ initialized' \in {{}, {"settings"}, {"settings", "log"}}
          /\ main_exit_code' = "failure"
       \* --help and --version
       \/ /\ At("start", "deinit")
          /\ initialized' = {"settings"}
          /\ UNCHANGED main_exit_code
    /\ UNCHANGED <<regVars, main_loop, exit_sig_caught, listenfd, IPv, addr_set,
                   argFd, createFailed, workVars, signalVars, kernelVars>>

\* socket() of family f, if the family is available.
OpenSocket(f, from, to) ==
    /\ At(from, to)
    /\ \/ /\ f \in IPv /\ FreeFds # {}
          /\ listenfd' = [listenfd EXCEPT ![f] = Lowest(FreeFds)]
          /\ fdOwner' = [fdOwner EXCEPT ![Lowest(FreeFds)] = Listener(f)]
          /\ UNCHANGED IPv
       \/ /\ IPv' = IPv \ {f}
          /\ UNCHANGED <<listenfd, fdOwner>>
    /\ UNCHANGED <<regVars, main_loop, exit_sig_caught, main_exit_code, addr_set, argFd,
                   initialized, createFailed, workVars, signalVars, pending, watched>>

OpenSocket6 == OpenSocket("v6", "sockets6", "sockets4")
OpenSocket4 == OpenSocket("v4", "sockets4", "listen")

\* bind() and listen(); a family that fails keeps its open socket.
Listen ==
    /\ \E bound \in SUBSET {f \in IPv : Listening(f)} :
         /\ IPv' = bound
         /\ \/ bound # {} /\ At("listen", "modules") /\ UNCHANGED main_exit_code
            \/ bound = {} /\ At("listen", "deinit") /\ main_exit_code' = "failure"
    /\ UNCHANGED <<regVars, main_loop, exit_sig_caught, listenfd, addr_set, argFd,
                   initialized, createFailed, workVars, signalVars, kernelVars>>

\* The modules in the order of their initialization, until one fails;
\* scripting may be disabled.
InitModules ==
    /\ \/ /\ At("modules", "loop")
          /\ \E l \in SUBSET {"luasp"} :
               initialized' = initialized \cup {"commands", "threads", "sessions"} \cup l
          /\ UNCHANGED main_exit_code
       \/ /\ At("modules", "deinit")
          /\ \E m \in { {}, {"commands"}, {"commands", "threads"},
                        {"commands", "threads", "sessions"} } :
               initialized' = initialized \cup m
          /\ main_exit_code' = "failure"
    /\ UNCHANGED <<regVars, main_loop, exit_sig_caught, listenfd, IPv, addr_set, argFd,
                   createFailed, workVars, signalVars, kernelVars>>

-----------------------------------------------------------------------------
(***************************************************************************)
(* The main loop.                                                          *)
(***************************************************************************)
\* while( main_loop ), and the fd_set of the served families.
LoopTest ==
    /\ \/ /\ main_loop
          /\ At("loop", "select")
          /\ addr_set' = IPv
       \/ /\ ~main_loop
          /\ At("loop", "deinit")
          /\ UNCHANGED addr_set
    /\ UNCHANGED <<regVars, main_loop, exit_sig_caught, main_exit_code, listenfd, IPv,
                   argFd, initialized, createFailed, workVars, signalVars, kernelVars>>

\* select() fails on a number that is not open; else it waits for what the
\* numbers are at this moment.
SelectCall ==
    /\ \/ /\ \E f \in addr_set : OwnerOf(listenfd[f]) = Free
          /\ At("select", "select_failed")
          /\ UNCHANGED watched
       \/ /\ \A f \in addr_set : OwnerOf(listenfd[f]) # Free
          /\ At("select", "selecting")
          /\ watched' = [f \in Families |->
                           IF f \in addr_set THEN OwnerOf(listenfd[f])[1] ELSE "nothing"]
    /\ UNCHANGED <<regVars, main_loop, exit_sig_caught, main_exit_code, listenfd, IPv,
                   addr_set, argFd, initialized, createFailed, workVars, signalVars,
                   fdOwner, pending>>

\* A listener is ready when it has a connection, a file always, and the
\* connection of a client when the client says something.
Ready(f) == \/ watched[f] = "listener" /\ f \in pending
            \/ watched[f] = "file"
MayBeReady(f) == Ready(f) \/ watched[f] = "connection"

\* The end of a blocked call: its listeners are let go, and a listener that
\* was closed in the meantime is gone with its connections.
LetGo ==
    /\ watched' = [f \in Families |-> "nothing"]
    /\ pending' = {f \in pending : Listening(f)}

SelectReturns ==
    /\ At("selecting", "accept")
    /\ \E ready \in SUBSET {f \in addr_set : MayBeReady(f)} :
         /\ ready # {}
         /\ {f \in addr_set : Ready(f)} \subseteq ready
         /\ addr_set' = ready
    /\ LetGo
    /\ UNCHANGED <<regVars, main_loop, exit_sig_caught, main_exit_code, listenfd, IPv,
                   argFd, initialized, createFailed, workVars, signalVars, fdOwner>>

\* closesocket of the listeners left in the fd_set.
CloseListeners == Close({listenfd[f] : f \in addr_set})

SelectFailed ==
    /\ At("select_failed", "deinit")
    /\ \/ exit_sig_caught /\ CloseListeners /\ UNCHANGED main_exit_code
       \/ ~exit_sig_caught /\ main_exit_code' = "failure" /\ UNCHANGED <<fdOwner, pending>>
    /\ UNCHANGED <<regVars, main_loop, exit_sig_caught, listenfd, IPv, addr_set, argFd,
                   initialized, createFailed, workVars, signalVars, watched>>

\* accept() on the IPv6 listener if it is in the fd_set, else on the IPv4 one.
Family == IF "v6" \in addr_set THEN "v6" ELSE "v4"

\* Wrong variant: no limit on the descriptors.
BugTakeConnection ==
    /\ mainPc' = "create"
    /\ argFd' = IF FreeFds = {} THEN MaxFd + 1 ELSE Lowest(FreeFds)
    /\ fdOwner' = IF FreeFds = {} THEN fdOwner
                  ELSE [fdOwner EXCEPT ![Lowest(FreeFds)] = Accepted]
    /\ pending' = {f \in pending \ {Family} : Listening(f)}

\* A connection is there: it gets a descriptor, or fails for want of one.
TakeConnection ==
    \/ /\ FreeFds # {}
       /\ mainPc' = "create"
       /\ argFd' = Lowest(FreeFds)
       /\ fdOwner' = [fdOwner EXCEPT ![Lowest(FreeFds)] = Accepted]
       /\ pending' = {f \in pending \ {Family} : Listening(f)}
    \/ /\ FreeFds = {}
       /\ mainPc' = "accept_failed"
       /\ pending' = {f \in pending : Listening(f)}
       /\ UNCHANGED <<argFd, fdOwner>>

acceptFrame == <<regVars, main_loop, exit_sig_caught, main_exit_code, listenfd, IPv,
                 addr_set, initialized, createFailed, workVars, signalVars>>

AcceptCall ==
    /\ MainRuns /\ mainPc = "accept"
    /\ \/ Listening(Family) /\ Family \in pending /\ TakeConnection /\ UNCHANGED watched
       \* The client of the connection select saw has gone again.
       \/ /\ Listening(Family) /\ Family \notin pending
          /\ mainPc' = "accepting"
          /\ watched' = [watched EXCEPT ![Family] = "listener"]
          /\ UNCHANGED <<argFd, fdOwner, pending>>
       \* Not open, or not a listener any more.
       \/ /\ ~Listening(Family)
          /\ mainPc' = "accept_failed"
          /\ UNCHANGED <<argFd, fdOwner, pending, watched>>
    /\ UNCHANGED acceptFrame

AcceptReturns ==
    /\ MainRuns /\ mainPc = "accepting"
    /\ Family \in pending
    /\ TakeConnection
    /\ watched' = [f \in Families |-> "nothing"]
    /\ UNCHANGED acceptFrame

\* Wrong variant: an error of accept ends the main loop.
BugAcceptFailed ==
    /\ At("accept_failed", "deinit") /\ CloseListeners
    /\ UNCHANGED <<regVars, main_loop, exit_sig_caught, main_exit_code, listenfd, IPv,
                   addr_set, argFd, initialized, createFailed, workVars, signalVars, watched>>

AcceptFailed ==
    /\ \/ ~exit_sig_caught /\ At("accept_failed", "loop") /\ UNCHANGED <<fdOwner, pending>>
       \/ exit_sig_caught /\ At("accept_failed", "deinit") /\ CloseListeners
    /\ UNCHANGED <<regVars, main_loop, exit_sig_caught, main_exit_code, listenfd, IPv,
                   addr_set, argFd, initialized, createFailed, workVars, signalVars, watched>>

\* cthread_create starts web thread t with the connection.
StartThread(t) ==
    /\ At("create", "loop")
    /\ CreateThread(t)
    /\ work' = [work EXCEPT ![t] = "request"]
    /\ connFd' = [connFd EXCEPT ![t] = argFd]
    /\ fdOwner' = IF OwnerOf(argFd) = Accepted THEN [fdOwner EXCEPT ![argFd] = Conn(t)]
                  ELSE fdOwner
    /\ argFd' = NoFd
    /\ UNCHANGED <<main_loop, exit_sig_caught, main_exit_code, listenfd, IPv, addr_set,
                   initialized, createFailed, fileFd, signalVars, pending, watched>>

\* cthread_create fails: the listeners of the fd_set are closed, the
\* connection is not.
CreateFails ==
    /\ At("create", "loop")
    /\ CloseListeners
    /\ argFd' = NoFd
    /\ createFailed' = TRUE
    /\ UNCHANGED <<regVars, main_loop, exit_sig_caught, main_exit_code, listenfd, IPv,
                   addr_set, initialized, workVars, signalVars, watched>>

-----------------------------------------------------------------------------
(***************************************************************************)
(* The clean-up: webthread_free first, then the other modules, the log     *)
(* last; then the process exits with the web threads that still run.       *)
(***************************************************************************)
Deinitialize ==
    /\ At("deinit", "freeing")
    /\ IF "threads" \in initialized THEN FreeCall ELSE UNCHANGED regVars
    /\ UNCHANGED <<main_loop, exit_sig_caught, main_exit_code, listenfd, IPv, addr_set,
                   argFd, initialized, createFailed, workVars, signalVars, kernelVars>>

FreeThreads ==
    /\ MainRuns /\ mainPc = "freeing"
    /\ FreeStep
    /\ initialized' = IF freePc' = "returned" THEN initialized \ {"threads"} ELSE initialized
    /\ UNCHANGED <<mainPc, main_loop, exit_sig_caught, main_exit_code, listenfd, IPv,
                   addr_set, argFd, createFailed, workVars, signalVars, kernelVars>>

\* What is freed before module m.
FreedBefore == [ commands |-> {"threads"},
                 sessions |-> {"threads", "commands"},
                 settings |-> {"threads", "commands", "sessions"},
                 luasp    |-> {"threads", "commands", "sessions", "settings"},
                 log      |-> {"threads", "commands", "sessions", "settings", "luasp"} ]

\* Wrong variant: frees a module without a look at the order.
BugFreeModule(m) ==
    /\ MainRuns /\ mainPc = "freeing"
    /\ m \in initialized
    /\ initialized' = initialized \ {m}
    /\ UNCHANGED <<regVars, mainPc, main_loop, exit_sig_caught, main_exit_code, listenfd,
                   IPv, addr_set, argFd, createFailed, workVars, signalVars, kernelVars>>

FreeModule(m) ==
    /\ MainRuns /\ mainPc = "freeing"
    /\ m \in initialized
    /\ FreedBefore[m] \cap initialized = {}
    /\ initialized' = initialized \ {m}
    /\ UNCHANGED <<regVars, mainPc, main_loop, exit_sig_caught, main_exit_code, listenfd,
                   IPv, addr_set, argFd, createFailed, workVars, signalVars, kernelVars>>

Exit ==
    /\ At("freeing", "exited")
    /\ initialized = {}
    /\ UNCHANGED <<regVars, main_loop, exit_sig_caught, main_exit_code, listenfd, IPv,
                   addr_set, argFd, initialized, createFailed, workVars, signalVars,
                   kernelVars>>

-----------------------------------------------------------------------------
(***************************************************************************)
(* exit_signal_handler, on any thread of the process.  On the main thread  *)
(* it ends a blocked select or accept with EINTR; on another thread it     *)
(* does not.  A signal during the handler of the same thread is left out.  *)
(***************************************************************************)
\* The handler is installed: Configure sets up the log before.
Signal(w) ==
    /\ Alive /\ handler[w] = "none"
    /\ w # Main => pc[w] # "none"
    /\ "log" \in initialized
    /\ signals < MaxSignals
    /\ signals' = signals + 1
    /\ handler' = [handler EXCEPT ![w] = "close4"]
    /\ main_loop' = FALSE
    /\ exit_sig_caught' = TRUE
    /\ \/ /\ w = Main /\ mainPc = "selecting"
          /\ mainPc' = "select_failed" /\ LetGo
       \/ /\ w = Main /\ mainPc = "accepting"
          /\ mainPc' = "accept_failed" /\ LetGo
       \/ /\ w = Main => mainPc \notin {"selecting", "accepting"}
          /\ UNCHANGED <<mainPc, pending, watched>>
    /\ UNCHANGED <<regVars, main_exit_code, listenfd, IPv, addr_set, argFd, initialized,
                   createFailed, workVars, fdOwner>>

\* Wrong variant: only sets the two variables.
BugHandlerClose(w, f, from, to) ==
    /\ Alive
    /\ handler[w] = from
    /\ handler' = [handler EXCEPT ![w] = to]
    /\ UNCHANGED <<regVars, mainVars, workVars, signals, kernelVars>>

HandlerClose(w, f, from, to) ==
    /\ Alive
    /\ handler[w] = from
    /\ handler' = [handler EXCEPT ![w] = to]
    /\ Close({listenfd[f]})
    /\ UNCHANGED <<regVars, mainVars, workVars, signals, watched>>

HandlerClose4(w) == HandlerClose(w, "v4", "close4", "close6")
HandlerClose6(w) == HandlerClose(w, "v6", "close6", "none")

-----------------------------------------------------------------------------
(***************************************************************************)
(* A web thread: it registers, reads the request and answers it, from a    *)
(* file or without one, closes its connection and unregisters.             *)
(***************************************************************************)
\* The register's functions; the thread unregisters after closesocket.
RegisterStep(t) ==
    /\ Runs(t)
    /\ pc[t] = "serving" => work[t] = "closed"
    /\ ThreadStep(t)
    /\ UNCHANGED <<mainVars, workVars, signalVars, kernelVars>>

\* fopen of a static file or of a script.
OpenFile(t) ==
    /\ Runs(t)
    /\ pc[t] = "serving" /\ work[t] = "request"
    /\ FreeFds # {}
    /\ work' = [work EXCEPT ![t] = "file"]
    /\ fileFd' = [fileFd EXCEPT ![t] = Lowest(FreeFds)]
    /\ fdOwner' = [fdOwner EXCEPT ![Lowest(FreeFds)] = File(t)]
    /\ UNCHANGED <<regVars, mainVars, connFd, signalVars, pending, watched>>

\* Wrong variant: closes the connection in place of the file.
BugCloseFile(t) ==
    /\ Runs(t)
    /\ pc[t] = "serving" /\ work[t] = "file"
    /\ work' = [work EXCEPT ![t] = "replied"]
    /\ fileFd' = [fileFd EXCEPT ![t] = NoFd]
    /\ Close({connFd[t]})
    /\ UNCHANGED <<regVars, mainVars, connFd, signalVars, watched>>

CloseFile(t) ==
    /\ Runs(t)
    /\ pc[t] = "serving" /\ work[t] = "file"
    /\ work' = [work EXCEPT ![t] = "replied"]
    /\ fileFd' = [fileFd EXCEPT ![t] = NoFd]
    /\ Close({fileFd[t]})
    /\ UNCHANGED <<regVars, mainVars, connFd, signalVars, watched>>

\* The end of the request, with or without a file, and closesocket(args->fd).
CloseConnection(t) ==
    /\ Runs(t)
    /\ pc[t] = "serving" /\ work[t] \in {"request", "replied"}
    /\ work' = [work EXCEPT ![t] = "closed"]
    /\ connFd' = [connFd EXCEPT ![t] = NoFd]
    /\ Close({connFd[t]})
    /\ UNCHANGED <<regVars, mainVars, fileFd, signalVars, watched>>

-----------------------------------------------------------------------------
(***************************************************************************)
(* The clients (external).  Bound: no more connections at a time than      *)
(* there are threads in the model.                                         *)
(***************************************************************************)
Connections == Cardinality({t \in Threads : pc[t] # "none"}) + Cardinality(pending)
                  + (IF argFd = NoFd THEN 0 ELSE 1)

Arrive(f) ==
    /\ Alive
    /\ mainPc \notin {"start", "sockets6", "sockets4", "listen"} /\ f \in IPv
    /\ Listening(f) \/ watched[f] = "listener"
    /\ f \notin pending
    /\ Connections < Cardinality(Threads)
    /\ pending' = pending \cup {f}
    /\ UNCHANGED <<regVars, mainVars, workVars, signalVars, fdOwner, watched>>

\* The client resets a connection that is not accepted yet.
Reset(f) ==
    /\ Alive
    /\ f \in pending
    /\ pending' = pending \ {f}
    /\ UNCHANGED <<regVars, mainVars, workVars, signalVars, fdOwner, watched>>

-----------------------------------------------------------------------------
MainStep ==
    \/ Configure \/ OpenSocket6 \/ OpenSocket4 \/ Listen \/ InitModules
    \/ LoopTest \/ SelectCall \/ SelectReturns \/ SelectFailed
    \/ AcceptCall \/ AcceptReturns \/ AcceptFailed
    \/ \E t \in Threads : StartThread(t)
    \/ CreateFails
    \/ Deinitialize \/ FreeThreads
    \/ \E m \in DOMAIN FreedBefore : FreeModule(m)
    \/ Exit

HandlerStep(w) == HandlerClose4(w) \/ HandlerClose6(w)

Next ==
    \/ MainStep
    \/ \E t \in Threads :
         RegisterStep(t) \/ OpenFile(t) \/ CloseFile(t) \/ CloseConnection(t)
    \/ \E w \in Workers : Signal(w) \/ HandlerStep(w)
    \/ \E f \in Families : Arrive(f) \/ Reset(f)

Spec == Init /\ [][Next]_vars

(***************************************************************************)
(* The scheduler runs the main thread, a handler, and a web thread inside  *)
(* the register.  Nothing makes a client connect or a web thread finish    *)
(* its request.                                                            *)
(***************************************************************************)
Fairness ==
    /\ WF_vars(MainStep)
    /\ \A w \in Workers : WF_vars(HandlerStep(w))
    /\ \A t \in Threads : WF_vars(RegisterStep(t))

FairSpec == Spec /\ Fairness

-----------------------------------------------------------------------------
(***************************************************************************)
(* Properties                                                              *)
(***************************************************************************)
\* Every variable has its type.
TypeOK ==
    /\ RegTypeOK
    /\ mainPc \in MainPCs
    /\ main_loop \in BOOLEAN /\ exit_sig_caught \in BOOLEAN
    /\ main_exit_code \in {"success", "failure"}
    /\ listenfd \in [Families -> Fds \cup {NoFd}]
    /\ IPv \in SUBSET Families /\ addr_set \in SUBSET Families
    /\ argFd \in Fds \cup {NoFd}
    /\ initialized \in SUBSET Modules
    /\ createFailed \in BOOLEAN
    /\ work \in [Threads -> {"request", "file", "replied", "closed"}]
    /\ connFd \in [Threads -> Fds \cup {NoFd}]
    /\ fileFd \in [Threads -> Fds \cup {NoFd}]
    /\ handler \in [Workers -> {"none", "close4", "close6"}]
    /\ signals \in 0..MaxSignals
    /\ fdOwner \in [Fds -> Owners]
    /\ pending \in SUBSET Families
    /\ watched \in [Families -> {"nothing", "listener", "file", "connection"}]

\* Until a signal or a failed cthread_create, a descriptor a thread uses is
\* its own: nobody closes it under the thread, and every accepted connection
\* is the main thread's or a web thread's.
DescriptorsOwned ==
    ~exit_sig_caught /\ ~createFailed =>
        /\ \A t \in Threads :
             /\ work[t] # "closed" => OwnerOf(connFd[t]) = Conn(t)
             /\ work[t] = "file" => OwnerOf(fileFd[t]) = File(t)
        /\ \A fd \in Fds : fdOwner[fd] = Accepted <=> fd = argFd
        /\ \A f \in IPv : listenfd[f] # NoFd => Listening(f)

\* The server serves until it is told to stop: an error of accept, a client
\* that goes away or a full descriptor table does not end the main loop.
ServesUntilTold ==
    [][ (mainPc \in {"select_failed", "accept_failed", "loop"} /\ mainPc' = "deinit")
           => (exit_sig_caught \/ createFailed) ]_vars

\* While a web thread has anything left to do but to end, no module is freed
\* under it, unless webthread_free gave up waiting or missed a thread that
\* was just started.
ModulesOutliveThreads ==
    mainPc = "freeing" /\ ~timedOut /\ ~late =>
        \/ \A t \in Threads : pc[t] \in {"none", "ending"}
        \/ {"settings", "log", "commands", "threads", "sessions"} \subseteq initialized

\* webthread.c:109-110: no thread is started and registered after the call
\* to webthread_free.
NoThreadAfterFree == freePc # "not_called" => Unregistered = {}

\* A signal whose handler ran ends the server, unless it ran on a web thread
\* while the main thread was blocked: the handler closes the listeners, so
\* the main thread cannot block again, even if a web thread opens a file
\* under the number of a listener.
SignalEndsServer ==
    /\ exit_sig_caught
    /\ \A w \in Workers : handler[w] = "none"
    /\ mainPc \notin {"selecting", "accepting"}
    ~> mainPc = "exited" \/ Deadlocked \/ crashed
=============================================================================
