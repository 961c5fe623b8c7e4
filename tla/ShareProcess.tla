---------------------------- MODULE ShareProcess ----------------------------
(***************************************************************************)
(* The `lw share` processes of one machine (cmd/lw/share.go, pidfile.go),  *)
(* the PID file they share, their control sockets (internal/ipc) and the   *)
(* commands `lw list`, `lw revoke` and `lw stop` that look for them.       *)
(*                                                                         *)
(* runShare is followed through its set-up steps, which each register a    *)
(* deferred clean-up, through Sharer.Run with its two loops, and back      *)
(* through the clean-ups in reverse order.  The effect of `lw revoke` on   *)
(* the session is in module Sharing; here it is a command like any other.  *)
(*                                                                         *)
(* A process has its own PID (PIDs are not reused) and its own shell,      *)
(* which exits when its terminal is closed.  Old is a `lw share` that was  *)
(* killed earlier: its PID file and its socket may still be there.         *)
(* A definition XBug is a plausible mistake, used only to see that the     *)
(* properties below notice it.                                             *)
(***************************************************************************)
EXTENDS Naturals, Sequences, FiniteSets

CONSTANTS
    Proc,       \* PIDs of the processes that are started
    Client,     \* runs of lw list, lw revoke, lw stop
    Old,        \* the PID of a process killed earlier
    Empty,      \* what a file holds after O_TRUNC
    None        \* no file

ASSUME PIDAssumption ==
    /\ Old \notin Proc
    /\ {Empty, None} \cap (Proc \cup {Old}) = {}
    /\ None \notin [file : Proc \cup {Old}, pid : Proc \cup {Old, Empty}]

VARIABLES
    pidFile,    \* $TMPDIR/lw.pid: the file there and the PID it holds
    sockets,    \* the processes whose socket file exists
    proc,       \* the state of each process
    client,     \* the state of each command
    overlapped, \* history: a process started while another one was starting
    served      \* history: the processes that have served since a command started

vars == <<pidFile, sockets, proc, client, overlapped, served>>

\* What runShare defers, in the order of registration.
Deferred == <<"removePIDFile", "sess.Close", "relay.Close", "term.Close", "cancel",
              "ipcSrv.Close">>

\* A process: where runShare is, the PID it read from the PID file, the file it
\* has open for writing, how many clean-ups are registered, the ctx of
\* runShare, its relay connection, the terminal, the shell, and the loops of Run.
NewProc == [pc |-> "off", read |-> None, file |-> None, defers |-> 0, cancelled |-> FALSE,
            relayUp |-> FALSE, ptmx |-> "none", shell |-> "none", loops |-> {}]

\* A command: where it is and the process whose socket it found.
NewClient == [pc |-> "idle", target |-> None]

Init ==
    /\ pidFile \in {None, [file |-> Old, pid |-> Old]}
    /\ sockets \in SUBSET {Old}
    /\ proc = [p \in Proc |-> NewProc]
    /\ client = [c \in Client |-> NewClient]
    /\ overlapped = FALSE
    /\ served = [c \in Client |-> {}]

Starting == {"signal", "stale", "open", "write"}
Ended    == {"off", "refused", "exited", "killed"}

\* Signal 0 reaches process p.
isProcessAlive(p) == p \in Proc /\ proc[p].pc \notin Ended

\* Process p accepts connections on its socket.
Listening(p) == isProcessAlive(p) /\ p \in sockets

-----------------------------------------------------------------------------
\* checkExistingSession and writePIDFile.

\* Start of runShare: the PID file is read.
checkRead(p) ==
    /\ proc[p].pc = "off"
    /\ overlapped' = (overlapped \/ \E q \in Proc : proc[q].pc \in Starting)
    /\ \/ /\ pidFile = None
          /\ proc' = [proc EXCEPT ![p].pc = "open"]
       \/ /\ pidFile # None /\ pidFile.pid = Empty
          /\ proc' = [proc EXCEPT ![p].pc = "stale"]
       \/ /\ pidFile # None /\ pidFile.pid # Empty
          /\ proc' = [proc EXCEPT ![p].pc = "signal", ![p].read = pidFile.pid]
    /\ UNCHANGED <<pidFile, sockets>>

\* Whether the PID that was read is refused as an active session.
ActiveBug(q) == FALSE
Active(q) == isProcessAlive(q)

checkSignal(p) ==
    /\ proc[p].pc = "signal"
    /\ proc' = [proc EXCEPT ![p].pc = IF Active(proc[p].read) THEN "refused" ELSE "stale",
                            ![p].read = None]
    /\ UNCHANGED <<pidFile, sockets, overlapped>>

\* os.Remove takes away whatever file is there by now.
checkRemove(p) ==
    /\ proc[p].pc = "stale"
    /\ pidFile' = None
    /\ proc' = [proc EXCEPT ![p].pc = "open"]
    /\ UNCHANGED <<sockets, overlapped>>

\* os.WriteFile opens with O_CREATE|O_TRUNC ...
writePIDFileOpen(p) ==
    /\ proc[p].pc = "open"
    /\ LET f == IF pidFile = None THEN p ELSE pidFile.file
       IN  /\ pidFile' = [file |-> f, pid |-> Empty]
           /\ proc' = [proc EXCEPT ![p].pc = "write", ![p].file = f]
    /\ UNCHANGED <<sockets, overlapped>>

\* ... and writes into that file, which may have been removed meanwhile.
WrittenBug(p) == [file |-> proc[p].file, pid |-> proc[p].read]
Written(p) ==
    IF pidFile # None /\ pidFile.file = proc[p].file THEN [pidFile EXCEPT !.pid = p] ELSE pidFile

writePIDFile(p) ==
    /\ proc[p].pc = "write"
    /\ pidFile' = Written(p)
    /\ proc' = [proc EXCEPT ![p].pc = "setup", ![p].file = None, ![p].defers = 1]
    /\ UNCHANGED <<sockets, overlapped>>

-----------------------------------------------------------------------------
\* The rest of runShare.

\* The next set-up step succeeds: NewSession, dialRelay, lwpty.Start, the
\* context with the goroutine that waits for it, and ipc.NewServer, after
\* which Run starts its loops.
Setup(p) ==
    LET w    == proc[p]
        step == Deferred[w.defers + 1]
    IN  /\ w.pc = "setup"
        /\ proc' = [proc EXCEPT ![p] =
             [w EXCEPT !.defers  = w.defers + 1,
                       !.relayUp = w.relayUp \/ step = "relay.Close",
                       !.ptmx    = IF step = "term.Close" THEN "open" ELSE w.ptmx,
                       !.shell   = IF step = "term.Close" THEN "up" ELSE w.shell,
                       !.pc      = IF step = "ipcSrv.Close" THEN "run" ELSE w.pc,
                       !.loops   = IF step = "ipcSrv.Close" THEN {"relay", "stream"}
                                                            ELSE w.loops]]
        /\ sockets' = IF step = "ipcSrv.Close" THEN sockets \cup {p} ELSE sockets
        /\ UNCHANGED <<pidFile, overlapped>>

\* Where a set-up step that fails sends runShare: to the clean-ups.
AfterFailureBug == "exited"
AfterFailure == "unwind"

SetupFails(p) ==
    /\ proc[p].pc = "setup"
    /\ Deferred[proc[p].defers + 1] # "cancel"
    /\ proc' = [proc EXCEPT ![p].pc = AfterFailure]
    /\ UNCHANGED <<pidFile, sockets, overlapped>>

\* Run's own context is cancelled: by runShare's, or since one loop has ended.
RunCancelled(p) == proc[p].cancelled \/ proc[p].loops # {"relay", "stream"}

\* relayLoop returns when Recv fails.
relayLoopEnds(p) ==
    /\ proc[p].pc = "run"
    /\ "relay" \in proc[p].loops
    /\ ~proc[p].relayUp \/ RunCancelled(p)
    /\ proc' = [proc EXCEPT ![p].loops = @ \ {"relay"}]
    /\ UNCHANGED <<pidFile, sockets, overlapped>>

\* streamLoop returns when there is nothing more to read ...
streamLoopEnds(p) ==
    /\ proc[p].pc = "run"
    /\ "stream" \in proc[p].loops
    /\ proc[p].ptmx = "closed" \/ proc[p].shell = "gone"
    /\ proc' = [proc EXCEPT ![p].loops = @ \ {"stream"}]
    /\ UNCHANGED <<pidFile, sockets, overlapped>>

\* ... or when the shell has printed something that cannot be sent.
streamLoopSendFails(p) ==
    /\ proc[p].pc = "run"
    /\ "stream" \in proc[p].loops
    /\ proc[p].shell = "up"
    /\ ~proc[p].relayUp \/ RunCancelled(p)
    /\ proc' = [proc EXCEPT ![p].loops = @ \ {"stream"}]
    /\ UNCHANGED <<pidFile, sockets, overlapped>>

\* The goroutine that closes the terminal once ctx is done.
CtxDoneBug(p) == FALSE
CtxDone(p) == proc[p].cancelled

closeOnDone(p) ==
    /\ isProcessAlive(p)
    /\ CtxDone(p)
    /\ proc[p].ptmx = "open"
    /\ proc' = [proc EXCEPT ![p].ptmx = "closed"]
    /\ UNCHANGED <<pidFile, sockets, overlapped>>

\* Run returns when both loops have.
RunReturns(p) ==
    /\ proc[p].pc = "run"
    /\ proc[p].loops = {}
    /\ proc' = [proc EXCEPT ![p].pc = "unwind"]
    /\ UNCHANGED <<pidFile, sockets, overlapped>>

\* term.Close closes the terminal and then waits for the shell.
termClose(p) ==
    /\ proc[p].pc = "unwind"
    /\ Deferred[proc[p].defers] = "term.Close"
    /\ proc[p].ptmx = "open"
    /\ proc' = [proc EXCEPT ![p].ptmx = "closed"]
    /\ UNCHANGED <<pidFile, sockets, overlapped>>

\* The last clean-up registered runs; after the first one the process exits.
Unwind(p) ==
    LET w    == proc[p]
        step == Deferred[w.defers]
    IN  /\ w.pc = "unwind"
        /\ step = "term.Close" => w.ptmx = "closed" /\ w.shell = "gone"
        /\ proc' = [proc EXCEPT ![p] =
             IF step = "removePIDFile" THEN [NewProc EXCEPT !.pc = "exited", !.shell = w.shell]
             ELSE [w EXCEPT !.defers    = w.defers - 1,
                            !.cancelled = w.cancelled \/ step = "cancel",
                            !.relayUp   = w.relayUp /\ step # "relay.Close"]]
        /\ sockets' = IF step = "ipcSrv.Close" THEN sockets \ {p} ELSE sockets
        /\ pidFile' = IF step = "removePIDFile" THEN None ELSE pidFile
        /\ UNCHANGED overlapped

-----------------------------------------------------------------------------
\* What happens to a process.

\* SIGINT or SIGTERM, once runShare listens for them.
Interrupt(p) ==
    /\ proc[p].pc = "run"
    /\ ~proc[p].cancelled
    /\ proc' = [proc EXCEPT ![p].cancelled = TRUE]
    /\ UNCHANGED <<pidFile, sockets, overlapped>>

\* Any signal that ends the process at once; the kernel closes what it had open.
Killed(p) ==
    /\ isProcessAlive(p)
    /\ proc' = [proc EXCEPT ![p] = [NewProc EXCEPT !.pc = "killed"]]
    /\ UNCHANGED <<pidFile, sockets, overlapped>>

\* The connection to the relay is lost; only Run can notice it.
RelayDrops(p) ==
    /\ proc[p].pc = "run"
    /\ proc[p].relayUp
    /\ proc' = [proc EXCEPT ![p].relayUp = FALSE]
    /\ UNCHANGED <<pidFile, sockets, overlapped>>

\* The shell exits: the user leaves it, or its terminal has been closed.  Only
\* streamLoop and term.Close can notice it.
ShellExits(p) ==
    /\ proc[p].pc \in {"run", "unwind"}
    /\ proc[p].shell = "up"
    /\ proc' = [proc EXCEPT ![p].shell = "gone"]
    /\ UNCHANGED <<pidFile, sockets, overlapped>>
HangUp(p) == proc[p].ptmx = "closed" /\ ShellExits(p)

-----------------------------------------------------------------------------
\* The commands.  resolveSocketPath reads the PID file ...
resolveRead(c) ==
    /\ client[c].pc = "idle"
    /\ client' = [client EXCEPT ![c] =
         IF pidFile # None /\ pidFile.pid # Empty
         THEN [@ EXCEPT !.pc = "stat", !.target = pidFile.pid]
         ELSE [@ EXCEPT !.pc = "glob"]]
    /\ UNCHANGED <<pidFile, sockets, proc, overlapped>>

\* ... looks for the socket of that process, alive or not ...
resolveStat(c) ==
    /\ client[c].pc = "stat"
    /\ client' = [client EXCEPT ![c].pc =
                    IF client[c].target \in sockets THEN "dial" ELSE "glob"]
    /\ UNCHANGED <<pidFile, sockets, proc, overlapped>>

\* ... and otherwise takes a socket of any live process.
resolveGlob(c) ==
    /\ client[c].pc = "glob"
    /\ \/ \E p \in sockets :
            /\ isProcessAlive(p)
            /\ client' = [client EXCEPT ![c].pc = "dial", ![c].target = p]
       \/ /\ \A p \in sockets : ~isProcessAlive(p)
          /\ client' = [client EXCEPT ![c].pc = "none"]
    /\ UNCHANGED <<pidFile, sockets, proc, overlapped>>

\* sendClientRequest connects and sends.
sendClientRequest(c) ==
    /\ client[c].pc = "dial"
    /\ client' = [client EXCEPT ![c].pc =
                    IF Listening(client[c].target) THEN "queued" ELSE "failed"]
    /\ UNCHANGED <<pidFile, sockets, proc, overlapped>>

\* Serve accepts the connection.
Accept(c) ==
    /\ client[c].pc = "queued"
    /\ Listening(client[c].target)
    /\ client' = [client EXCEPT ![c].pc = "accepted"]
    /\ UNCHANGED <<pidFile, sockets, proc, overlapped>>

\* handle runs the command: stop cancels runShare's ctx, list and revoke do not.
handle(c) ==
    /\ client[c].pc = "accepted"
    /\ isProcessAlive(client[c].target)
    /\ client' = [client EXCEPT ![c].pc = "handled"]
    /\ \/ proc' = [proc EXCEPT ![client[c].target].cancelled = TRUE]
       \/ UNCHANGED proc
    /\ UNCHANGED <<pidFile, sockets, overlapped>>

\* handle's goroutine sends the response.
respond(c) ==
    /\ client[c].pc = "handled"
    /\ isProcessAlive(client[c].target)
    /\ client' = [client EXCEPT ![c].pc = "ok"]
    /\ UNCHANGED <<pidFile, sockets, proc, overlapped>>

\* The connection ends without a response: nobody accepts it any more, or the
\* process has exited, since ipcSrv.Close does not wait for handle.
requestFails(c) ==
    /\ \/ client[c].pc = "queued" /\ ~Listening(client[c].target)
       \/ client[c].pc \in {"accepted", "handled"} /\ ~isProcessAlive(client[c].target)
    /\ client' = [client EXCEPT ![c].pc = "failed"]
    /\ UNCHANGED <<pidFile, sockets, proc, overlapped>>

-----------------------------------------------------------------------------

\* The steps the process takes by itself, and the end of a shell without terminal.
Progress(p) ==
    \/ checkSignal(p) \/ checkRemove(p) \/ writePIDFileOpen(p) \/ writePIDFile(p)
    \/ Setup(p) \/ SetupFails(p)
    \/ relayLoopEnds(p) \/ streamLoopEnds(p) \/ closeOnDone(p) \/ RunReturns(p)
    \/ termClose(p) \/ Unwind(p) \/ HangUp(p)

Environment(p) ==
    \/ checkRead(p) \/ streamLoopSendFails(p)
    \/ Interrupt(p) \/ Killed(p) \/ RelayDrops(p) \/ ShellExits(p)

Command(c) ==
    \/ resolveRead(c) \/ resolveStat(c) \/ resolveGlob(c) \/ sendClientRequest(c)
    \/ Accept(c) \/ handle(c) \/ respond(c) \/ requestFails(c)

\* Processes that serve commands and have not been told to end.
Serving == {p \in Proc : proc[p].pc = "run" /\ ~proc[p].cancelled /\ p \in sockets}

\* What a step leaves of the processes that have served all along.
History == served' = [c \in Client |-> IF client[c].pc = "idle" THEN Serving'
                                       ELSE served[c] \cap Serving']

Runs(p) == Progress(p) /\ UNCHANGED client /\ History

Next ==
    \/ \E p \in Proc : Runs(p)
    \/ \E p \in Proc : Environment(p) /\ UNCHANGED client /\ History
    \/ \E c \in Client : Command(c) /\ History

Spec == Init /\ [][Next]_vars

-----------------------------------------------------------------------------

\* The files, the processes and the commands have their types.
TypeOK ==
    /\ pidFile \in {None} \cup [file : Proc \cup {Old}, pid : Proc \cup {Old, Empty}]
    /\ sockets \subseteq Proc \cup {Old}
    /\ proc \in [Proc -> [pc : Starting \cup Ended \cup {"setup", "run", "unwind"},
                          read : Proc \cup {Old, None}, file : Proc \cup {Old, None},
                          defers : 0..Len(Deferred), cancelled : BOOLEAN, relayUp : BOOLEAN,
                          ptmx : {"none", "open", "closed"}, shell : {"none", "up", "gone"},
                          loops : SUBSET {"relay", "stream"}]]
    /\ client \in [Client -> [pc : {"idle", "stat", "glob", "dial", "queued", "accepted",
                                    "handled", "ok", "failed", "none"},
                              target : Proc \cup {Old, None}]]
    /\ overlapped \in BOOLEAN
    /\ served \in [Client -> SUBSET Proc]

\* Unless two processes started at the same time, one process at most is past
\* checkExistingSession, and the PID file names it until it exits, whatever
\* process was killed before and however another one ends.
SingleShare ==
    ~overlapped => \A p \in Proc : proc[p].pc \in {"setup", "run", "unwind"} =>
        /\ pidFile # None /\ pidFile.pid = p
        /\ \A q \in Proc \ {p} : proc[q].pc \notin {"setup", "run", "unwind"}

\* A command does not fail while one process serves from its start to its
\* end, although it looks the process up in several steps and files of killed
\* processes lie around (unless two processes started at the same time).
CommandFindsSession ==
    ~overlapped => \A c \in Client : client[c].pc \in {"failed", "none"} => served[c] = {}

\* A process that exits, after Run or from a set-up step that failed, leaves
\* no socket, no shell and no PID file of its own.
NothingLeftBehind ==
    \A p \in Proc : proc[p].pc = "exited" =>
        /\ p \notin sockets
        /\ proc[p].shell # "up"
        /\ pidFile # None => pidFile.pid # p

\* `lw stop`, SIGINT, SIGTERM and a failed set-up step end the process: no loop
\* and no clean-up waits for ever, though streamLoop may be blocked in a read of
\* the terminal.  (A process takes every step of Progress at most a fixed
\* number of times, so it ends if it can always take one.)
NeverStuck ==
    \A p \in Proc :
        isProcessAlive(p) /\ (proc[p].cancelled \/ proc[p].pc = "unwind") => ENABLED Runs(p)
=============================================================================
