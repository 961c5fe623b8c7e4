------------------------- MODULE ShareProcessProofs -------------------------
(***************************************************************************)
(* ShareProcess: for any number of processes and commands, what exits      *)
(* leaves nothing behind, the PID file keeps two sessions apart unless     *)
(* they start together, and a command finds the session that is there.     *)
(***************************************************************************)
EXTENDS ShareProcess, TLAPS

USE PIDAssumption

\* Past checkExistingSession and not yet gone.
Live == {"setup", "run", "unwind"}

\* The state of a process.
Process ==
    [pc : Starting \cup Ended \cup Live,
     read : Proc \cup {Old, None}, file : Proc \cup {Old, None},
     defers : 0..6, cancelled : BOOLEAN, relayUp : BOOLEAN,
     ptmx : {"none", "open", "closed"}, shell : {"none", "up", "gone"},
     loops : SUBSET {"relay", "stream"}]

\* The PID file when there is one.
File == [file : Proc \cup {Old}, pid : Proc \cup {Old, Empty}]

\* The state of a command.
Request ==
    [pc : {"idle", "stat", "glob", "dial", "queued", "accepted", "handled", "ok", "failed",
           "none"},
     target : Proc \cup {Old, None}]

\* How many clean-ups are registered where runShare is, and what they have left:
\* the socket is there while the last one is registered, the shell runs
\* while term.Close is.
Registered(p) ==
    /\ proc[p].pc \in Starting \cup Ended => proc[p].defers = 0
    /\ proc[p].pc = "setup" => proc[p].defers \in 1..5
    /\ proc[p].pc = "run" => proc[p].defers = 6
    /\ proc[p].pc = "unwind" => proc[p].defers \in 1..6
    /\ p \in sockets => proc[p].pc = "killed" \/ proc[p].defers = 6
    /\ proc[p].shell = "up" => proc[p].defers \in 4..6

CleanUps == \A p \in Proc : Registered(p)

\* Without overlapping starts: one process at most is starting; one that
\* starts beside a live session has read that session's PID and will find it
\* alive; and the file just opened for writing is still the PID file.
OneStarts ==
    ~overlapped => \A p, q \in Proc : p # q =>
        /\ proc[p].pc \in Starting => proc[q].pc \notin Starting
        /\ proc[p].pc \in Live /\ proc[q].pc \in Starting =>
             proc[q].pc = "signal" /\ proc[q].read = p

OpenedIsThere ==
    ~overlapped => \A p \in Proc :
        proc[p].pc = "write" => pidFile # None /\ pidFile.file = proc[p].file

\* A command has found the process that has served all along, if there is one.
FoundServing ==
    \A c \in Client :
        /\ client[c].pc # "idle" => served[c] \subseteq Serving
        /\ ~overlapped /\ client[c].pc \in {"stat", "dial", "queued", "accepted", "handled"} =>
             served[c] \subseteq {client[c].target}
        /\ ~overlapped /\ client[c].pc \in {"glob", "failed", "none"} => served[c] = {}

\* The inductive invariant.
IInv ==
    /\ CleanUps
    /\ NothingLeftBehind
    /\ SingleShare
    /\ OneStarts
    /\ OpenedIsThere
    /\ FoundServing

-----------------------------------------------------------------------------
\* The clean-ups in the order of registration.
LEMMA DeferredSteps ==
    /\ Deferred[1] = "removePIDFile" /\ Deferred[2] = "sess.Close"
    /\ Deferred[3] = "relay.Close" /\ Deferred[4] = "term.Close"
    /\ Deferred[5] = "cancel" /\ Deferred[6] = "ipcSrv.Close"
    /\ Len(Deferred) = 6
  BY DEF Deferred

\* TypeOK in terms of the sets above.
LEMMA TypeParts ==
    TypeOK <=> /\ pidFile \in {None} \cup File
               /\ sockets \in SUBSET (Proc \cup {Old})
               /\ proc \in [Proc -> Process]
               /\ client \in [Client -> Request]
               /\ overlapped \in BOOLEAN
               /\ served \in [Client -> SUBSET Proc]
  BY DeferredSteps DEF TypeOK, File, Process, Live, Request

\* TypeOK of the next state, variable by variable.
LEMMA TypeNext ==
    ASSUME pidFile' \in {None} \cup File, sockets' \in SUBSET (Proc \cup {Old}),
           proc' \in [Proc -> Process], client' \in [Client -> Request],
           overlapped' \in BOOLEAN, served' \in [Client -> SUBSET Proc]
    PROVE  TypeOK'
  BY DeferredSteps DEF TypeOK, File, Process, Live, Request

\* A step of process p changes the state of no other process.
OnlySelf(p) ==
    /\ proc' \in [Proc -> Process]
    /\ \A q \in Proc \ {p} : proc'[q] = proc[q]

\* Replacing the state of p by one of the type is such a step.
LEMMA Replaced ==
    ASSUME proc \in [Proc -> Process], NEW p \in Proc, NEW n \in Process,
           proc' = [proc EXCEPT ![p] = n]
    PROVE  OnlySelf(p) /\ proc'[p] = n
  BY Zenon DEF OnlySelf

\* Steps that neither set up nor clean up: loops end, the terminal is closed,
\* the shell exits, the connection drops, ctx is cancelled.
Quiet(p) ==
    /\ OnlySelf(p)
    /\ proc'[p].pc = proc[p].pc /\ proc'[p].read = proc[p].read
    /\ proc'[p].file = proc[p].file /\ proc'[p].defers = proc[p].defers
    /\ proc'[p].shell = "up" => proc[p].shell = "up"
    /\ proc[p].cancelled => proc'[p].cancelled
    /\ UNCHANGED <<pidFile, sockets, overlapped>>

\* A process whose context is cancelled is a process.
LEMMA CancelledIsProcess ==
    ASSUME NEW q \in Process
    PROVE  [q EXCEPT !.cancelled = TRUE] \in Process
<1> DEFINE PCs    == Starting \cup Ended \cup Live
           PIDs   == Proc \cup {Old, None}
           Defers == 0..6
           Ptmx   == {"none", "open", "closed"}
           Shell  == {"none", "up", "gone"}
           Loops  == SUBSET {"relay", "stream"}
<1>1. Process = [pc : PCs, read : PIDs, file : PIDs, defers : Defers, cancelled : BOOLEAN,
                 relayUp : BOOLEAN, ptmx : Ptmx, shell : Shell, loops : Loops]
  BY DEF Process
<1> HIDE DEF PCs, PIDs, Defers, Ptmx, Shell, Loops
<1> QED
  BY <1>1, Zenon

\* Cancelling the context of p changes nothing the safety properties look at.
LEMMA CancelIsQuiet ==
    ASSUME TypeOK, NEW p \in Proc, proc' = [proc EXCEPT ![p].cancelled = TRUE],
           UNCHANGED <<pidFile, sockets, overlapped>>
    PROVE  Quiet(p)
<1> DEFINE n == [proc[p] EXCEPT !.cancelled = TRUE]
<1>1. proc \in [Proc -> Process]
  BY TypeParts
<1>2. n \in Process
  <2>1. proc[p] \in Process
    BY <1>1
  <2> QED
    BY <2>1, CancelledIsProcess
<1>3. proc' = [proc EXCEPT ![p] = n]
  OBVIOUS
<1> HIDE DEF n
<1>4. OnlySelf(p) /\ proc'[p] = n
  BY <1>1, <1>2, <1>3, Replaced
<1>5. /\ n.pc = proc[p].pc /\ n.read = proc[p].read /\ n.file = proc[p].file
      /\ n.defers = proc[p].defers /\ n.shell = proc[p].shell
  BY <1>1 DEF n, Process
<1>6. n.cancelled
  BY <1>1, Zenon DEF n, Process
<1> QED
  BY <1>4, <1>5, <1>6 DEF Quiet

\* The goroutines of Run, signals and the ends of relay, shell and terminal are quiet steps.
LEMMA QuietSteps ==
    ASSUME TypeOK, NEW p \in Proc,
           \/ relayLoopEnds(p) \/ streamLoopEnds(p) \/ streamLoopSendFails(p)
           \/ closeOnDone(p) \/ termClose(p) \/ Interrupt(p) \/ RelayDrops(p)
           \/ ShellExits(p) \/ HangUp(p)
    PROVE  Quiet(p)
<1>0. proc \in [Proc -> Process] /\ proc[p] \in Process
  BY TypeParts
<1>1. CASE relayLoopEnds(p) \/ streamLoopEnds(p) \/ streamLoopSendFails(p)
  <2>1. PICK x : proc' = [proc EXCEPT ![p].loops = @ \ {x}]
    BY <1>1 DEF relayLoopEnds, streamLoopEnds, streamLoopSendFails
  <2> DEFINE n == [proc[p] EXCEPT !.loops = @ \ {x}]
  <2>2. n \in Process
    BY <1>0, Zenon DEF Process
  <2>3. OnlySelf(p) /\ proc'[p] = n
    BY <1>0, <2>1, <2>2, Replaced
  <2> QED
    BY <1>0, <1>1, <2>3 DEF Quiet, Process, relayLoopEnds, streamLoopEnds, streamLoopSendFails
<1>2. CASE closeOnDone(p) \/ termClose(p)
  BY <1>0, <1>2 DEF closeOnDone, termClose, Quiet, Process, OnlySelf
<1>3. CASE Interrupt(p)
  BY <1>3, CancelIsQuiet DEF Interrupt
<1>4. CASE RelayDrops(p)
  <2> DEFINE n == [proc[p] EXCEPT !.relayUp = FALSE]
  <2>1. proc' = [proc EXCEPT ![p] = n]
    BY <1>4 DEF RelayDrops
  <2>2. n \in Process
    BY <1>0, Zenon DEF Process
  <2> HIDE DEF n
  <2>3. OnlySelf(p) /\ proc'[p] = n
    BY <1>0, <2>1, <2>2, Replaced
  <2>4. /\ n.pc = proc[p].pc /\ n.read = proc[p].read /\ n.file = proc[p].file
        /\ n.defers = proc[p].defers /\ n.shell = proc[p].shell
        /\ n.cancelled = proc[p].cancelled
    BY <1>0 DEF n, Process
  <2> QED
    BY <1>4, <2>3, <2>4 DEF RelayDrops, Quiet
<1>5. CASE ShellExits(p) \/ HangUp(p)
  BY <1>0, <1>5 DEF ShellExits, HangUp, Quiet, Process, OnlySelf
<1> QED
  BY <1>1, <1>2, <1>3, <1>4, <1>5

\* checkExistingSession and writePIDFile, in the fields the invariants speak of.
LEMMA CheckReadEffect ==
    ASSUME TypeOK, NEW p \in Proc, checkRead(p)
    PROVE  /\ OnlySelf(p) /\ UNCHANGED <<pidFile, sockets>>
           /\ overlapped' = (overlapped \/ \E q \in Proc : proc[q].pc \in Starting)
           /\ proc[p].pc = "off" /\ proc'[p].pc \in {"open", "stale", "signal"}
           /\ proc'[p].defers = proc[p].defers /\ proc'[p].shell = proc[p].shell
           /\ pidFile # None /\ pidFile.pid # Empty =>
                proc'[p].pc = "signal" /\ proc'[p].read = pidFile.pid
<1>0. proc \in [Proc -> Process] /\ proc[p] \in Process /\ pidFile \in {None} \cup File
  BY TypeParts
<1>1. proc' = [proc EXCEPT ![p].pc = "open"] \/ proc' = [proc EXCEPT ![p].pc = "stale"]
      => OnlySelf(p)
  BY <1>0 DEF OnlySelf, Process, Starting
<1>2. pidFile # None /\ proc' = [proc EXCEPT ![p].pc = "signal", ![p].read = pidFile.pid]
      /\ pidFile.pid # Empty => OnlySelf(p)
  <2> DEFINE n == [proc[p] EXCEPT !.pc = "signal", !.read = pidFile.pid]
  <2> SUFFICES ASSUME pidFile # None, pidFile.pid # Empty,
                      proc' = [proc EXCEPT ![p].pc = "signal", ![p].read = pidFile.pid]
               PROVE  OnlySelf(p)
    OBVIOUS
  <2>1. proc' = [proc EXCEPT ![p] = n]
    BY <1>0 DEF Process
  <2>2. "signal" \in Starting /\ pidFile.pid \in Proc \cup {Old, None}
    BY <1>0 DEF Starting, File
  <2>3. n \in Process
    BY <1>0, <2>2, Zenon DEF Process
  <2> QED
    BY <1>0, <2>1, <2>3, Replaced
<1>3. OnlySelf(p)
  BY <1>1, <1>2 DEF checkRead
<1>4. /\ UNCHANGED <<pidFile, sockets>> /\ proc[p].pc = "off"
      /\ overlapped' = (overlapped \/ \E q \in Proc : proc[q].pc \in Starting)
  BY DEF checkRead
<1>5. /\ proc'[p].pc \in {"open", "stale", "signal"}
      /\ proc'[p].defers = proc[p].defers /\ proc'[p].shell = proc[p].shell
      /\ pidFile # None /\ pidFile.pid # Empty =>
           proc'[p].pc = "signal" /\ proc'[p].read = pidFile.pid
  BY <1>0 DEF checkRead, Process
<1> QED
  BY <1>3, <1>4, <1>5

\* kill(pid, 0) refuses to start beside a live process and finds the rest stale.
LEMMA CheckSignalEffect ==
    ASSUME TypeOK, NEW p \in Proc, checkSignal(p)
    PROVE  /\ OnlySelf(p) /\ UNCHANGED <<pidFile, sockets, overlapped>>
           /\ proc[p].pc = "signal" /\ proc'[p].pc \in {"refused", "stale"}
           /\ isProcessAlive(proc[p].read) => proc'[p].pc = "refused"
           /\ proc'[p].defers = proc[p].defers /\ proc'[p].shell = proc[p].shell
<1> DEFINE x == IF Active(proc[p].read) THEN "refused" ELSE "stale"
           n == [proc[p] EXCEPT !.pc = x, !.read = None]
<1>0. proc \in [Proc -> Process] /\ proc[p] \in Process
  BY TypeParts
<1>1. x \in {"refused", "stale"} /\ (isProcessAlive(proc[p].read) => x = "refused")
  BY DEF Active
<1>2. proc' = [proc EXCEPT ![p] = n] /\ UNCHANGED <<pidFile, sockets, overlapped>>
      /\ proc[p].pc = "signal"
  BY <1>0 DEF checkSignal, Process
<1> HIDE DEF x
<1>3. x \in Starting \cup Ended \cup Live
  BY <1>1 DEF Starting, Ended
<1>4. n \in Process
  BY <1>0, <1>3, Zenon DEF Process
<1>5. OnlySelf(p) /\ proc'[p] = n
  BY <1>0, <1>2, <1>4, Replaced
<1>6. n.pc = x /\ n.defers = proc[p].defers /\ n.shell = proc[p].shell
  BY <1>0 DEF Process
<1> QED
  BY <1>1, <1>2, <1>5, <1>6

\* A stale PID file is removed, whoever has written it meanwhile.
LEMMA CheckRemoveEffect ==
    ASSUME TypeOK, NEW p \in Proc, checkRemove(p)
    PROVE  /\ OnlySelf(p) /\ pidFile' = None /\ UNCHANGED <<sockets, overlapped>>
           /\ proc[p].pc = "stale" /\ proc'[p].pc = "open"
           /\ proc'[p].defers = proc[p].defers /\ proc'[p].shell = proc[p].shell
  BY TypeParts DEF checkRemove, OnlySelf, Process, Starting

\* os.WriteFile opens: the PID file exists, is empty, and p holds its inode.
LEMMA OpenEffect ==
    ASSUME TypeOK, NEW p \in Proc, writePIDFileOpen(p)
    PROVE  /\ OnlySelf(p) /\ UNCHANGED <<sockets, overlapped>>
           /\ pidFile' \in File /\ pidFile' # None
           /\ pidFile'.pid = Empty /\ proc'[p].file = pidFile'.file
           /\ proc[p].pc = "open" /\ proc'[p].pc = "write"
           /\ proc'[p].defers = proc[p].defers /\ proc'[p].shell = proc[p].shell
<1> DEFINE f == IF pidFile = None THEN p ELSE pidFile.file
           n == [proc[p] EXCEPT !.pc = "write", !.file = f]
<1>0. proc \in [Proc -> Process] /\ proc[p] \in Process /\ pidFile \in {None} \cup File
  BY TypeParts
<1>1. f \in Proc \cup {Old}
  BY <1>0 DEF File
<1> HIDE DEF f
<1>2. /\ proc' = [proc EXCEPT ![p] = n] /\ UNCHANGED <<sockets, overlapped>>
      /\ pidFile' = [file |-> f, pid |-> Empty] /\ proc[p].pc = "open"
  BY <1>0 DEF writePIDFileOpen, Process, f
<1>3. "write" \in Starting /\ f \in Proc \cup {Old, None}
  BY <1>1 DEF Starting
<1>4. n \in Process
  BY <1>0, <1>3, Zenon DEF Process
<1>5. OnlySelf(p) /\ proc'[p] = n
  BY <1>0, <1>2, <1>4, Replaced
<1>6. n.pc = "write" /\ n.file = f /\ n.defers = proc[p].defers /\ n.shell = proc[p].shell
  BY <1>0 DEF Process
<1>7. pidFile' \in File /\ pidFile' # None /\ pidFile'.pid = Empty /\ pidFile'.file = f
  BY <1>1, <1>2 DEF File
<1> QED
  BY <1>2, <1>5, <1>6, <1>7

\* os.WriteFile writes: the PID goes into the inode p holds, if that is still the PID file.
LEMMA WriteEffect ==
    ASSUME TypeOK, NEW p \in Proc, writePIDFile(p)
    PROVE  /\ OnlySelf(p) /\ UNCHANGED <<sockets, overlapped>>
           /\ pidFile' \in {None} \cup File
           /\ \/ pidFile' = pidFile
              \/ pidFile' # None /\ pidFile'.pid = p
           /\ pidFile # None /\ pidFile.file = proc[p].file =>
                pidFile' # None /\ pidFile'.pid = p
           /\ proc[p].pc = "write" /\ proc'[p].pc = "setup"
           /\ proc'[p].defers = 1 /\ proc'[p].shell = proc[p].shell
<1> DEFINE n == [proc[p] EXCEPT !.pc = "setup", !.file = None, !.defers = 1]
<1>0. proc \in [Proc -> Process] /\ proc[p] \in Process /\ pidFile \in {None} \cup File
  BY TypeParts
<1>2. /\ proc' = [proc EXCEPT ![p] = n] /\ UNCHANGED <<sockets, overlapped>>
      /\ pidFile' = Written(p) /\ proc[p].pc = "write"
  BY <1>0 DEF writePIDFile, Process
<1>3. "setup" \in Live /\ 1 \in 0..6
  BY DEF Live
<1>4. n \in Process
  BY <1>0, <1>3, Zenon DEF Process
<1>5. OnlySelf(p) /\ proc'[p] = n
  BY <1>0, <1>2, <1>4, Replaced
<1>6. n.pc = "setup" /\ n.defers = 1 /\ n.shell = proc[p].shell
  BY <1>0 DEF Process
<1>7. CASE pidFile # None /\ pidFile.file = proc[p].file
  <2>1. pidFile' = [pidFile EXCEPT !.pid = p]
    BY <1>2, <1>7 DEF Written
  <2>2. pidFile' \in File /\ pidFile'.pid = p
    BY <1>0, <1>7, <2>1 DEF File
  <2> QED
    BY <1>2, <1>5, <1>6, <1>7, <2>2 DEF File
<1>8. CASE ~(pidFile # None /\ pidFile.file = proc[p].file)
  BY <1>0, <1>2, <1>5, <1>6, <1>8 DEF Written
<1> QED
  BY <1>7, <1>8

\* The rest of runShare and a kill.
LEMMA SetupEffect ==
    ASSUME TypeOK, CleanUps, NEW p \in Proc, Setup(p)
    PROVE  /\ OnlySelf(p) /\ UNCHANGED <<pidFile, overlapped>>
           /\ proc[p].pc = "setup" /\ proc[p].defers \in 1..5
           /\ proc'[p].defers = proc[p].defers + 1
           /\ proc'[p].pc = IF proc[p].defers = 5 THEN "run" ELSE "setup"
           /\ sockets' = IF proc[p].defers = 5 THEN sockets \cup {p} ELSE sockets
           /\ proc'[p].shell = IF proc[p].defers = 3 THEN "up" ELSE proc[p].shell
<1> DEFINE step == Deferred[proc[p].defers + 1]
           a == proc[p].defers + 1
           b == (proc[p].relayUp \/ step = "relay.Close")
           c == IF step = "term.Close" THEN "open" ELSE proc[p].ptmx
           d == IF step = "term.Close" THEN "up" ELSE proc[p].shell
           e == IF step = "ipcSrv.Close" THEN "run" ELSE proc[p].pc
           f == IF step = "ipcSrv.Close" THEN {"relay", "stream"} ELSE proc[p].loops
           n == [proc[p] EXCEPT !.defers = a, !.relayUp = b, !.ptmx = c, !.shell = d,
                                !.pc = e, !.loops = f]
<1>0. proc \in [Proc -> Process] /\ proc[p] \in Process
  BY TypeParts
<1>1. proc[p].pc = "setup" /\ proc[p].defers \in 1..5
  BY DEF CleanUps, Registered, Setup
<1>2. /\ proc' = [proc EXCEPT ![p] = n] /\ UNCHANGED <<pidFile, overlapped>>
      /\ sockets' = IF step = "ipcSrv.Close" THEN sockets \cup {p} ELSE sockets
  BY DEF Setup
<1>3. /\ step = "term.Close" <=> proc[p].defers = 3
      /\ step = "ipcSrv.Close" <=> proc[p].defers = 5
  BY <1>1, DeferredSteps
<1> HIDE DEF step
<1>4. /\ a \in 0..6 /\ c \in {"none", "open", "closed"} /\ d \in {"none", "up", "gone"}
      /\ e \in Starting \cup Ended \cup Live /\ f \in SUBSET {"relay", "stream"}
  BY <1>0, <1>1 DEF Process, Live
<1>5. b \in BOOLEAN
  OBVIOUS
<1>6. /\ a = proc[p].defers + 1 /\ e = IF proc[p].defers = 5 THEN "run" ELSE "setup"
      /\ d = IF proc[p].defers = 3 THEN "up" ELSE proc[p].shell
  BY <1>1, <1>3
<1> HIDE DEF a, b, c, d, e, f
<1>7. n \in Process
  <2> DEFINE PCs    == Starting \cup Ended \cup Live
             PIDs   == Proc \cup {Old, None}
             Defers == 0..6
             Ptmx   == {"none", "open", "closed"}
             Shell  == {"none", "up", "gone"}
             Loops  == SUBSET {"relay", "stream"}
  <2>1. Process = [pc : PCs, read : PIDs, file : PIDs, defers : Defers, cancelled : BOOLEAN,
                   relayUp : BOOLEAN, ptmx : Ptmx, shell : Shell, loops : Loops]
    BY DEF Process
  <2>2. a \in Defers /\ c \in Ptmx /\ d \in Shell /\ e \in PCs /\ f \in Loops
    BY <1>4
  <2> HIDE DEF PCs, PIDs, Defers, Ptmx, Shell, Loops
  <2> QED
    BY <1>0, <1>5, <2>1, <2>2, Zenon
<1>8. OnlySelf(p) /\ proc'[p] = n
  BY <1>0, <1>2, <1>7, Replaced
<1>9. n.defers = a /\ n.pc = e /\ n.shell = d
  BY <1>0 DEF Process
<1> QED
  BY <1>1, <1>2, <1>3, <1>6, <1>8, <1>9

\* A failed set-up step and the return of Run leave the deferred calls to be made.
LEMMA ToUnwindEffect ==
    ASSUME TypeOK, CleanUps, NEW p \in Proc, SetupFails(p) \/ RunReturns(p)
    PROVE  /\ OnlySelf(p) /\ UNCHANGED <<pidFile, sockets, overlapped>>
           /\ proc[p].pc \in {"setup", "run"} /\ proc'[p].pc = "unwind"
           /\ proc'[p].defers = proc[p].defers /\ proc[p].defers \in 1..6
           /\ proc'[p].shell = proc[p].shell
  BY TypeParts DEF CleanUps, Registered, SetupFails, RunReturns, AfterFailure, OnlySelf,
                   Process, Live

\* A deferred call undoes its step: 6 is the socket, 4 waits for the shell, 1 is the PID file.
LEMMA UnwindEffect ==
    ASSUME TypeOK, CleanUps, NEW p \in Proc, Unwind(p)
    PROVE  /\ OnlySelf(p) /\ UNCHANGED overlapped
           /\ proc[p].pc = "unwind" /\ proc[p].defers \in 1..6
           /\ proc'[p].pc = IF proc[p].defers = 1 THEN "exited" ELSE "unwind"
           /\ proc'[p].defers = proc[p].defers - 1
           /\ proc'[p].shell = proc[p].shell
           /\ proc[p].defers = 4 => proc[p].shell = "gone"
           /\ sockets' = IF proc[p].defers = 6 THEN sockets \ {p} ELSE sockets
           /\ pidFile' = IF proc[p].defers = 1 THEN None ELSE pidFile
<1> DEFINE step == Deferred[proc[p].defers]
           a == proc[p].defers - 1
           b == (proc[p].cancelled \/ step = "cancel")
           c == (proc[p].relayUp /\ step # "relay.Close")
           m == [NewProc EXCEPT !.pc = "exited", !.shell = proc[p].shell]
           n == [proc[p] EXCEPT !.defers = a, !.cancelled = b, !.relayUp = c]
<1>0. proc \in [Proc -> Process] /\ proc[p] \in Process
  BY TypeParts
<1>1. proc[p].pc = "unwind" /\ proc[p].defers \in 1..6
  BY DEF CleanUps, Registered, Unwind
<1>2. /\ proc' = [proc EXCEPT ![p] = IF step = "removePIDFile" THEN m ELSE n]
      /\ sockets' = IF step = "ipcSrv.Close" THEN sockets \ {p} ELSE sockets
      /\ pidFile' = IF step = "removePIDFile" THEN None ELSE pidFile
      /\ step = "term.Close" => proc[p].shell = "gone"
      /\ UNCHANGED overlapped
  BY DEF Unwind
<1>3. /\ step = "term.Close" <=> proc[p].defers = 4
      /\ step = "ipcSrv.Close" <=> proc[p].defers = 6
      /\ step = "removePIDFile" <=> proc[p].defers = 1
  BY <1>1, DeferredSteps
<1> HIDE DEF step
<1>4. CASE proc[p].defers = 1
  <2>1. proc[p].shell \in {"none", "up", "gone"} /\ "exited" \in Ended
    BY <1>0 DEF Process, Ended
  <2>2. NewProc \in Process
    BY DEF NewProc, Process, Ended
  <2>3. m \in Process
    BY <2>1, <2>2, Zenon DEF Process
  <2>4. proc' = [proc EXCEPT ![p] = m]
    BY <1>2, <1>3, <1>4
  <2>5. OnlySelf(p) /\ proc'[p] = m
    BY <1>0, <2>3, <2>4, Replaced
  <2>6. m.pc = "exited" /\ m.defers = 0 /\ m.shell = proc[p].shell
    BY DEF NewProc
  <2> HIDE DEF m
  <2> QED
    BY <1>1, <1>2, <1>3, <1>4, <2>5, <2>6
<1>5. CASE proc[p].defers # 1
  <2>1. a \in 0..6 /\ a = proc[p].defers - 1
    BY <1>1
  <2>2. b \in BOOLEAN /\ c \in BOOLEAN
    OBVIOUS
  <2>3. proc' = [proc EXCEPT ![p] = n]
    BY <1>2, <1>3, <1>5
  <2> HIDE DEF a, b, c
  <2>4. n \in Process
    BY <1>0, <2>1, <2>2, Zenon DEF Process
  <2>5. OnlySelf(p) /\ proc'[p] = n
    BY <1>0, <2>3, <2>4, Replaced
  <2>6. n.pc = proc[p].pc /\ n.defers = a /\ n.shell = proc[p].shell
    BY <1>0 DEF Process
  <2> QED
    BY <1>1, <1>2, <1>3, <1>5, <2>1, <2>5, <2>6
<1> QED
  BY <1>4, <1>5

\* kill -9 runs no deferred call.
LEMMA KilledEffect ==
    ASSUME TypeOK, NEW p \in Proc, Killed(p)
    PROVE  /\ OnlySelf(p) /\ UNCHANGED <<pidFile, sockets, overlapped>>
           /\ proc'[p].pc = "killed" /\ proc'[p].defers = 0 /\ proc'[p].shell = "none"
           /\ proc[p].pc \notin Ended
<1> DEFINE n == [NewProc EXCEPT !.pc = "killed"]
<1>0. proc \in [Proc -> Process]
  BY TypeParts
<1>1. /\ proc' = [proc EXCEPT ![p] = n] /\ UNCHANGED <<pidFile, sockets, overlapped>>
      /\ proc[p].pc \notin Ended
  BY DEF Killed, isProcessAlive
<1>2. "killed" \in Ended /\ NewProc \in Process
  BY DEF Ended, NewProc, Process
<1>3. n \in Process
  BY <1>2, Zenon DEF Process
<1>4. OnlySelf(p) /\ proc'[p] = n
  BY <1>0, <1>1, <1>3, Replaced
<1>5. n.pc = "killed" /\ n.defers = 0 /\ n.shell = "none"
  BY DEF NewProc
<1> QED
  BY <1>1, <1>4, <1>5

\* The kinds of steps a process takes.
LEMMA Kinds ==
    ASSUME TypeOK, NEW p \in Proc, Progress(p) \/ Environment(p)
    PROVE  \/ Quiet(p) \/ checkRead(p) \/ checkSignal(p) \/ checkRemove(p)
           \/ writePIDFileOpen(p) \/ writePIDFile(p) \/ Setup(p)
           \/ (SetupFails(p) \/ RunReturns(p)) \/ Unwind(p) \/ Killed(p)
  BY QuietSteps DEF Progress, Environment

-----------------------------------------------------------------------------
\* A step of a process keeps the types.
LEMMA ProcessTypes ==
    ASSUME TypeOK, CleanUps, NEW p \in Proc, Progress(p) \/ Environment(p)
    PROVE  /\ proc' \in [Proc -> Process] /\ pidFile' \in {None} \cup File
           /\ sockets' \in SUBSET (Proc \cup {Old})
           /\ overlapped' \in BOOLEAN
<1>1. CASE Quiet(p)
  BY <1>1, TypeParts DEF Quiet, OnlySelf
<1>2. CASE checkRead(p)
  BY <1>2, CheckReadEffect, TypeParts DEF OnlySelf
<1>3. CASE checkSignal(p)
  BY <1>3, CheckSignalEffect, TypeParts DEF OnlySelf
<1>4. CASE checkRemove(p)
  BY <1>4, CheckRemoveEffect, TypeParts DEF OnlySelf
<1>5. CASE writePIDFileOpen(p)
  BY <1>5, OpenEffect, TypeParts DEF OnlySelf
<1>6. CASE writePIDFile(p)
  BY <1>6, WriteEffect, TypeParts DEF OnlySelf
<1>7. CASE Setup(p)
  BY <1>7, SetupEffect, TypeParts DEF OnlySelf
<1>8. CASE SetupFails(p) \/ RunReturns(p)
  BY <1>8, ToUnwindEffect, TypeParts DEF OnlySelf
<1>9. CASE Unwind(p)
  BY <1>9, UnwindEffect, TypeParts DEF OnlySelf
<1>10. CASE Killed(p)
  BY <1>10, KilledEffect, TypeParts DEF OnlySelf
<1> QED
  BY <1>1, <1>2, <1>3, <1>4, <1>5, <1>6, <1>7, <1>8, <1>9, <1>10, Kinds

\* A step of a process keeps the clean-ups in step with its pc.
LEMMA ProcessCleanUps ==
    ASSUME TypeOK, CleanUps, NEW p \in Proc, Progress(p) \/ Environment(p)
    PROVE  CleanUps'
<1>1. CASE Quiet(p)
  BY <1>1, TypeParts DEF Quiet, OnlySelf, CleanUps, Registered, Starting, Ended, Process
<1>2. CASE checkRead(p)
  BY <1>2, CheckReadEffect, TypeParts DEF OnlySelf, CleanUps, Registered, Starting, Ended, Process
<1>3. CASE checkSignal(p)
  BY <1>3, CheckSignalEffect, TypeParts DEF OnlySelf, CleanUps, Registered, Starting, Ended, Process
<1>4. CASE checkRemove(p)
  BY <1>4, CheckRemoveEffect, TypeParts DEF OnlySelf, CleanUps, Registered, Starting, Ended, Process
<1>5. CASE writePIDFileOpen(p)
  BY <1>5, OpenEffect, TypeParts DEF OnlySelf, CleanUps, Registered, Starting, Ended, Process
<1>6. CASE writePIDFile(p)
  BY <1>6, WriteEffect, TypeParts DEF OnlySelf, CleanUps, Registered, Starting, Ended, Process
<1>7. CASE Setup(p)
  BY <1>7, SetupEffect, TypeParts DEF OnlySelf, CleanUps, Registered, Starting, Ended, Process
<1>8. CASE SetupFails(p) \/ RunReturns(p)
  BY <1>8, ToUnwindEffect, TypeParts DEF OnlySelf, CleanUps, Registered, Starting, Ended, Process
<1>9. CASE Unwind(p)
  BY <1>9, UnwindEffect, TypeParts DEF OnlySelf, CleanUps, Registered, Starting, Ended, Process
<1>10. CASE Killed(p)
  BY <1>10, KilledEffect, TypeParts DEF OnlySelf, CleanUps, Registered, Starting, Ended, Process
<1> QED
  BY <1>1, <1>2, <1>3, <1>4, <1>5, <1>6, <1>7, <1>8, <1>9, <1>10, Kinds

\* A step of a process leaves nothing behind when it ends in "exited".
LEMMA ProcessLeavesNothing ==
    ASSUME TypeOK, CleanUps, NothingLeftBehind, NEW p \in Proc, Progress(p) \/ Environment(p)
    PROVE  NothingLeftBehind'
<1>1. CASE Quiet(p)
  BY <1>1, TypeParts DEF Quiet, OnlySelf, CleanUps, Registered, Starting, Ended, NothingLeftBehind
<1>2. CASE checkRead(p)
  BY <1>2, CheckReadEffect, TypeParts DEF OnlySelf, CleanUps, Registered, Starting, Ended, NothingLeftBehind
<1>3. CASE checkSignal(p)
  BY <1>3, CheckSignalEffect, TypeParts DEF OnlySelf, CleanUps, Registered, Starting, Ended, NothingLeftBehind
<1>4. CASE checkRemove(p)
  BY <1>4, CheckRemoveEffect, TypeParts DEF OnlySelf, CleanUps, Registered, Starting, Ended, NothingLeftBehind
<1>5. CASE writePIDFileOpen(p)
  BY <1>5, OpenEffect, TypeParts DEF OnlySelf, CleanUps, Registered, Starting, Ended, NothingLeftBehind
<1>6. CASE writePIDFile(p)
  BY <1>6, WriteEffect, TypeParts DEF OnlySelf, CleanUps, Registered, Starting, Ended, NothingLeftBehind
<1>7. CASE Setup(p)
  BY <1>7, SetupEffect, TypeParts DEF OnlySelf, CleanUps, Registered, Starting, Ended, NothingLeftBehind
<1>8. CASE SetupFails(p) \/ RunReturns(p)
  BY <1>8, ToUnwindEffect, TypeParts DEF OnlySelf, CleanUps, Registered, Starting, Ended, NothingLeftBehind
<1>9. CASE Unwind(p)
  BY <1>9, UnwindEffect, TypeParts DEF OnlySelf, CleanUps, Registered, Starting, Ended, NothingLeftBehind
<1>10. CASE Killed(p)
  BY <1>10, KilledEffect, TypeParts DEF OnlySelf, CleanUps, Registered, Starting, Ended, NothingLeftBehind
<1> QED
  BY <1>1, <1>2, <1>3, <1>4, <1>5, <1>6, <1>7, <1>8, <1>9, <1>10, Kinds

\* What keeps two sessions apart is preserved by a step of a process.
LEMMA ProcessSingle ==
    ASSUME TypeOK, CleanUps, SingleShare, OneStarts, OpenedIsThere,
           NEW p \in Proc, Progress(p) \/ Environment(p)
    PROVE  SingleShare' /\ OneStarts' /\ OpenedIsThere'
<1> USE DEF OnlySelf, SingleShare, OneStarts, OpenedIsThere, Starting, Live
<1>1. CASE Quiet(p)
  BY <1>1, TypeParts DEF Quiet
<1>2. CASE checkRead(p)
  <2>1. /\ OnlySelf(p) /\ UNCHANGED pidFile
        /\ proc'[p].pc \in {"open", "stale", "signal"}
        /\ pidFile # None /\ pidFile.pid # Empty =>
             proc'[p].pc = "signal" /\ proc'[p].read = pidFile.pid
    BY <1>2, CheckReadEffect
  <2>2. ~overlapped' => ~overlapped /\ \A q \in Proc : proc[q].pc \notin Starting
    BY <1>2, CheckReadEffect, Zenon
  <2> QED
    BY <2>1, <2>2
<1>3. CASE checkSignal(p)
  BY <1>3, CheckSignalEffect, TypeParts DEF isProcessAlive, Ended
<1>4. CASE checkRemove(p)
  BY <1>4, CheckRemoveEffect, TypeParts
<1>5. CASE writePIDFileOpen(p)
  BY <1>5, OpenEffect, TypeParts
<1>6. CASE writePIDFile(p)
  BY <1>6, WriteEffect, TypeParts
<1>7. CASE Setup(p)
  BY <1>7, SetupEffect, TypeParts
<1>8. CASE SetupFails(p) \/ RunReturns(p)
  BY <1>8, ToUnwindEffect, TypeParts
<1>9. CASE Unwind(p)
  BY <1>9, UnwindEffect, TypeParts
<1>10. CASE Killed(p)
  BY <1>10, KilledEffect, TypeParts
<1> QED
  BY <1>1, <1>2, <1>3, <1>4, <1>5, <1>6, <1>7, <1>8, <1>9, <1>10, Kinds

-----------------------------------------------------------------------------
\* What the history variable says after a step.
LEMMA HistoryStep ==
    ASSUME History, NEW c \in Client
    PROVE  /\ client[c].pc = "idle" => served'[c] = Serving'
           /\ client[c].pc # "idle" => served'[c] = served[c] \cap Serving'
  BY DEF History

\* The history of who was serving holds processes.
LEMMA HistoryTyped == History => served' \in [Client -> SUBSET Proc]
<1> SUFFICES ASSUME History PROVE served' \in [Client -> SUBSET Proc]
  OBVIOUS
<1>1. Serving' \in SUBSET Proc
  BY DEF Serving
<1> QED
  BY <1>1 DEF History

\* A process that serves is listening and, without overlapping starts, is
\* the one the PID file names.
LEMMA ServingIsFound ==
    ASSUME TypeOK, SingleShare, NEW p \in Serving
    PROVE  /\ Listening(p) /\ isProcessAlive(p) /\ p \in Proc
           /\ ~overlapped => pidFile # None /\ pidFile.pid = p /\ pidFile.pid # Empty
           /\ ~overlapped => \A q \in Serving : q = p
  BY DEF Serving, Listening, isProcessAlive, Ended, SingleShare

\* Starts that overlapped are not forgotten.
LEMMA OverlapStays ==
    ASSUME TypeOK, CleanUps, NEW p \in Proc, Progress(p) \/ Environment(p)
    PROVE  overlapped => overlapped'
<1>1. CASE Quiet(p)
  BY <1>1 DEF Quiet
<1>2. CASE checkRead(p)
  BY <1>2, CheckReadEffect
<1>3. CASE checkSignal(p)
  BY <1>3, CheckSignalEffect
<1>4. CASE checkRemove(p)
  BY <1>4, CheckRemoveEffect
<1>5. CASE writePIDFileOpen(p)
  BY <1>5, OpenEffect
<1>6. CASE writePIDFile(p)
  BY <1>6, WriteEffect
<1>7. CASE Setup(p)
  BY <1>7, SetupEffect
<1>8. CASE SetupFails(p) \/ RunReturns(p)
  BY <1>8, ToUnwindEffect
<1>9. CASE Unwind(p)
  BY <1>9, UnwindEffect
<1>10. CASE Killed(p)
  BY <1>10, KilledEffect
<1> QED
  BY <1>1, <1>2, <1>3, <1>4, <1>5, <1>6, <1>7, <1>8, <1>9, <1>10, Kinds

\* The steps of the processes keep what the commands have found.
LEMMA ProcessFound ==
    ASSUME TypeOK, CleanUps, FoundServing, NEW p \in Proc, Progress(p) \/ Environment(p),
           UNCHANGED client, History
    PROVE  FoundServing'
<1> SUFFICES ASSUME NEW c \in Client
             PROVE  /\ client[c].pc # "idle" => served'[c] \subseteq Serving'
                    /\ ~overlapped'
                       /\ client[c].pc \in {"stat", "dial", "queued", "accepted", "handled"} =>
                         served'[c] \subseteq {client[c].target}
                    /\ ~overlapped' /\ client[c].pc \in {"glob", "failed", "none"} =>
                         served'[c] = {}
  BY DEF FoundServing
<1>1. overlapped => overlapped'
  BY OverlapStays
<1>2. client[c].pc # "idle" => served'[c] = served[c] \cap Serving'
  BY HistoryStep
<1>3. /\ ~overlapped /\ client[c].pc \in {"stat", "dial", "queued", "accepted", "handled"} =>
            served[c] \subseteq {client[c].target}
      /\ ~overlapped /\ client[c].pc \in {"glob", "failed", "none"} => served[c] = {}
  BY DEF FoundServing
<1> QED
  BY <1>1, <1>2, <1>3

\* The commands change no file; only handle touches a process, and cancels it.
Asks(c) ==
    /\ client' \in [Client -> Request]
    /\ \A d \in Client \ {c} : client'[d] = client[d]
    /\ UNCHANGED <<pidFile, sockets, overlapped>>
    /\ proc' = proc \/ \E p \in Proc : Quiet(p)

\* A step of a command touches no process except through the request it sends.
LEMMA CommandEffect ==
    ASSUME TypeOK, NEW c \in Client, Command(c)
    PROVE  Asks(c)
<1>0. client \in [Client -> Request] /\ pidFile \in {None} \cup File
      /\ sockets \in SUBSET (Proc \cup {Old})
  BY TypeParts
<1> USE <1>0 DEF Asks, Request
<1>1. CASE resolveRead(c)
  <2>1. \E t \in Proc \cup {Old, None}, s \in {"stat", "glob"} :
          client' = [client EXCEPT ![c] = [client[c] EXCEPT !.pc = s, !.target = t]]
    <3>1. CASE pidFile # None /\ pidFile.pid # Empty
      <4>1. pidFile.pid \in Proc \cup {Old}
        BY <3>1 DEF File
      <4> QED
        BY <1>1, <3>1, <4>1 DEF resolveRead
    <3>2. CASE ~(pidFile # None /\ pidFile.pid # Empty)
      <4>1. client[c] \in Request
        OBVIOUS
      <4>2. [client[c] EXCEPT !.pc = "glob"]
              = [client[c] EXCEPT !.pc = "glob", !.target = client[c].target]
        BY <4>1
      <4>3. client[c].target \in Proc \cup {Old, None}
        BY <4>1
      <4> QED
        BY <1>1, <3>2, <4>2, <4>3 DEF resolveRead
    <3> QED
      BY <3>1, <3>2
  <2>2. UNCHANGED <<pidFile, sockets, proc, overlapped>>
    BY <1>1 DEF resolveRead
  <2>3. PICK t \in Proc \cup {Old, None}, s \in {"stat", "glob"} :
          client' = [client EXCEPT ![c] = [client[c] EXCEPT !.pc = s, !.target = t]]
    BY <2>1
  <2>4. client[c] \in Request
    BY <1>0
  <2> DEFINE q == [client[c] EXCEPT !.pc = s, !.target = t]
  <2>5. q \in Request
    BY <2>4
  <2> HIDE DEF q
  <2>6. client' = [client EXCEPT ![c] = q]
    BY <2>3 DEF q
  <2>7. client' \in [Client -> Request] /\ \A d \in Client \ {c} : client'[d] = client[d]
    BY <1>0, <2>5, <2>6, Zenon
  <2> QED
    BY <2>2, <2>7
<1>2. CASE resolveStat(c)
  BY <1>2 DEF resolveStat
<1>3. CASE resolveGlob(c)
  BY <1>3 DEF resolveGlob
<1>4. CASE sendClientRequest(c)
  BY <1>4 DEF sendClientRequest
<1>5. CASE Accept(c)
  BY <1>5 DEF Accept
<1>6. CASE handle(c)
  <2>1. client[c].target \in Proc
    BY <1>6 DEF handle, isProcessAlive
  <2>2. proc' = proc \/ Quiet(client[c].target)
    BY <1>6, <2>1, CancelIsQuiet DEF handle
  <2> QED
    BY <1>6, <2>1, <2>2 DEF handle
<1>7. CASE respond(c)
  BY <1>7 DEF respond
<1>8. CASE requestFails(c)
  BY <1>8 DEF requestFails
<1> QED
  BY <1>1, <1>2, <1>3, <1>4, <1>5, <1>6, <1>7, <1>8 DEF Command

\* The commands keep the invariant of the processes: a command cancels at most.
LEMMA CommandKeeps ==
    ASSUME TypeOK, CleanUps, NothingLeftBehind, SingleShare, OneStarts, OpenedIsThere,
           NEW c \in Client, Command(c)
    PROVE  /\ proc' \in [Proc -> Process]
           /\ CleanUps' /\ NothingLeftBehind' /\ SingleShare' /\ OneStarts' /\ OpenedIsThere'
<1>0. Asks(c)
  BY CommandEffect
<1> USE DEF CleanUps, Registered, NothingLeftBehind, SingleShare, OneStarts, OpenedIsThere,
            Starting, Ended, Live
<1>1. CASE proc' = proc
  BY <1>0, <1>1, TypeParts DEF Asks
<1>2. CASE \E p \in Proc : Quiet(p)
  <2> PICK p \in Proc : Quiet(p)
    BY <1>2
  <2>1. /\ proc' \in [Proc -> Process] /\ \A q \in Proc \ {p} : proc'[q] = proc[q]
        /\ UNCHANGED <<pidFile, sockets, overlapped>>
    BY DEF Quiet, OnlySelf
  <2>2. \A q \in Proc :
          /\ proc'[q].pc = proc[q].pc /\ proc'[q].read = proc[q].read
          /\ proc'[q].file = proc[q].file /\ proc'[q].defers = proc[q].defers
          /\ proc'[q].shell = "up" => proc[q].shell = "up"
    BY <2>1 DEF Quiet
  <2> QED
    BY <2>1, <2>2
<1> QED
  BY <1>0, <1>1, <1>2 DEF Asks

\* A step of command c keeps what it has found: reading the PID file finds the
\* serving process, and no later look-up fails while that one serves.
LEMMA CommandFoundOwn ==
    ASSUME TypeOK, SingleShare, FoundServing, NEW c \in Client, Command(c), History,
           ~overlapped
    PROVE  /\ client'[c].pc \in {"stat", "dial", "queued", "accepted", "handled"} =>
                served'[c] \subseteq {client'[c].target}
           /\ client'[c].pc \in {"glob", "failed", "none"} => served'[c] = {}
<1>0. client \in [Client -> Request] /\ client[c] \in Request
  BY TypeParts
<1>1. /\ client[c].pc = "idle" => served'[c] = Serving'
      /\ client[c].pc # "idle" => served'[c] = served[c] \cap Serving'
  BY HistoryStep
<1>2. /\ client[c].pc # "idle" => served[c] \subseteq Serving
      /\ client[c].pc \in {"stat", "dial", "queued", "accepted", "handled"} =>
           served[c] \subseteq {client[c].target}
      /\ client[c].pc \in {"glob", "failed", "none"} => served[c] = {}
  BY DEF FoundServing
<1>3. \A p \in Serving : /\ Listening(p) /\ isProcessAlive(p) /\ p \in Proc /\ p \in sockets
                         /\ pidFile # None /\ pidFile.pid = p /\ pidFile.pid # Empty
  BY ServingIsFound DEF Serving
<1>4. CASE resolveRead(c)
  <2>1. Serving' = Serving /\ client[c].pc = "idle"
    BY <1>4 DEF resolveRead, Serving
  <2>2. CASE pidFile # None /\ pidFile.pid # Empty
    <3>1. client'[c].pc = "stat" /\ client'[c].target = pidFile.pid
      BY <1>0, <1>4, <2>2 DEF resolveRead, Request
    <3> QED
      BY <1>1, <1>3, <2>1, <3>1
  <2>3. CASE ~(pidFile # None /\ pidFile.pid # Empty)
    <3>1. client'[c].pc = "glob"
      BY <1>0, <1>4, <2>3 DEF resolveRead, Request
    <3> QED
      BY <1>1, <1>3, <2>1, <2>3, <3>1
  <2> QED
    BY <2>2, <2>3
<1>5. CASE resolveStat(c)
  <2>1. /\ client[c].pc = "stat" /\ client'[c].target = client[c].target
        /\ client'[c].pc = IF client[c].target \in sockets THEN "dial" ELSE "glob"
    BY <1>0, <1>5 DEF resolveStat, Request
  <2> QED
    BY <1>1, <1>2, <1>3, <2>1
<1>6. CASE resolveGlob(c)
  <2>1. client[c].pc = "glob" /\ client'[c].pc \in {"dial", "none"}
    BY <1>0, <1>6 DEF resolveGlob, Request
  <2> QED
    BY <1>1, <1>2, <2>1
<1>7. CASE sendClientRequest(c)
  <2>1. /\ client[c].pc = "dial" /\ client'[c].target = client[c].target
        /\ client'[c].pc = IF Listening(client[c].target) THEN "queued" ELSE "failed"
    BY <1>0, <1>7 DEF sendClientRequest, Request
  <2> QED
    BY <1>1, <1>2, <1>3, <2>1
<1>8. CASE Accept(c) \/ handle(c) \/ respond(c)
  <2>1. /\ client[c].pc \in {"queued", "accepted", "handled"}
        /\ client'[c].target = client[c].target
        /\ client'[c].pc \in {"accepted", "handled", "ok"}
    BY <1>0, <1>8 DEF Accept, handle, respond, Request
  <2> QED
    BY <1>1, <1>2, <2>1
<1>9. CASE requestFails(c)
  <2>1. /\ \/ client[c].pc = "queued" /\ ~Listening(client[c].target)
           \/ client[c].pc \in {"accepted", "handled"} /\ ~isProcessAlive(client[c].target)
        /\ client'[c].pc = "failed"
    BY <1>0, <1>9 DEF requestFails, Request
  <2> QED
    BY <1>1, <1>2, <1>3, <2>1
<1> QED
  BY <1>4, <1>5, <1>6, <1>7, <1>8, <1>9 DEF Command

\* The steps of the commands keep what all of them have found.
LEMMA CommandFound ==
    ASSUME TypeOK, SingleShare, FoundServing, NEW c \in Client, Command(c), History
    PROVE  FoundServing'
<1>0. Asks(c)
  BY CommandEffect
<1>1. ASSUME NEW d \in Client
      PROVE  client'[d].pc # "idle" => served'[d] \subseteq Serving'
  BY <1>1, HistoryStep
<1>2. ASSUME NEW d \in Client, d # c, ~overlapped
      PROVE  /\ client'[d].pc \in {"stat", "dial", "queued", "accepted", "handled"} =>
                  served'[d] \subseteq {client'[d].target}
             /\ client'[d].pc \in {"glob", "failed", "none"} => served'[d] = {}
  <2>1. client'[d] = client[d]
    BY <1>0, <1>2 DEF Asks
  <2>2. client[d].pc # "idle" => served'[d] = served[d] \cap Serving'
    BY HistoryStep
  <2>3. /\ client[d].pc \in {"stat", "dial", "queued", "accepted", "handled"} =>
             served[d] \subseteq {client[d].target}
        /\ client[d].pc \in {"glob", "failed", "none"} => served[d] = {}
    BY <1>2 DEF FoundServing
  <2> QED
    BY <2>1, <2>2, <2>3
<1>3. overlapped' = overlapped
  BY <1>0 DEF Asks
<1> QED
  BY <1>1, <1>2, <1>3, CommandFoundOwn DEF FoundServing

-----------------------------------------------------------------------------
\* Types and inductive invariant hold at first ...
LEMMA InitIInv == Init => TypeOK /\ IInv
<1> SUFFICES ASSUME Init PROVE TypeOK /\ IInv
  OBVIOUS
<1>1. NewProc \in Process /\ NewClient \in Request
  BY DEF NewProc, Process, Ended, NewClient, Request
<1>2. /\ pidFile \in {None} \cup File /\ sockets \in SUBSET (Proc \cup {Old})
      /\ overlapped \in BOOLEAN /\ served \in [Client -> SUBSET Proc]
  <2>1. pidFile \in {None} \cup File
    BY DEF Init, File
  <2>2. sockets \in SUBSET (Proc \cup {Old}) /\ overlapped \in BOOLEAN
    BY DEF Init
  <2>3. served \in [Client -> SUBSET Proc]
    BY DEF Init
  <2> QED
    BY <2>1, <2>2, <2>3
<1>3. proc \in [Proc -> Process] /\ client \in [Client -> Request]
  BY <1>1 DEF Init
<1>4. TypeOK
  BY <1>2, <1>3, TypeParts
<1>5. /\ \A p \in Proc : proc[p].pc = "off" /\ proc[p].defers = 0 /\ proc[p].shell = "none"
      /\ \A c \in Client : client[c].pc = "idle"
      /\ \A p \in Proc : p \notin sockets
  BY DEF Init, NewProc, NewClient
<1> QED
  BY <1>4, <1>5 DEF IInv, CleanUps, Registered, NothingLeftBehind, SingleShare, OneStarts,
                    OpenedIsThere, FoundServing, Starting, Live, Ended

\* ... and every step keeps them.
LEMMA NextIInv == TypeOK /\ IInv /\ [Next]_vars => TypeOK' /\ IInv'
<1> SUFFICES ASSUME TypeOK, IInv, [Next]_vars PROVE TypeOK' /\ IInv'
  OBVIOUS
<1>0. CleanUps /\ NothingLeftBehind /\ SingleShare /\ OneStarts /\ OpenedIsThere /\ FoundServing
  BY DEF IInv
<1>1. ASSUME NEW p \in Proc, Progress(p) \/ Environment(p), UNCHANGED client, History
      PROVE  TypeOK' /\ IInv'
  <2>1. TypeOK'
    <3>1. client' \in [Client -> Request] /\ served' \in [Client -> SUBSET Proc]
      BY <1>1, HistoryTyped, TypeParts
    <3> QED
      BY <1>0, <1>1, <3>1, ProcessTypes, TypeNext
  <2>2. CleanUps' /\ NothingLeftBehind' /\ SingleShare' /\ OneStarts' /\ OpenedIsThere'
    BY <1>0, <1>1, ProcessCleanUps, ProcessLeavesNothing, ProcessSingle
  <2>3. FoundServing'
    BY <1>0, <1>1, ProcessFound
  <2> QED
    BY <2>1, <2>2, <2>3 DEF IInv
<1>2. ASSUME NEW c \in Client, Command(c), History
      PROVE  TypeOK' /\ IInv'
  <2>1. Asks(c)
    BY <1>2, CommandEffect
  <2>2. /\ proc' \in [Proc -> Process]
        /\ CleanUps' /\ NothingLeftBehind' /\ SingleShare' /\ OneStarts' /\ OpenedIsThere'
    BY <1>0, <1>2, CommandKeeps
  <2>3. TypeOK'
    <3>1. /\ client' \in [Client -> Request] /\ served' \in [Client -> SUBSET Proc]
          /\ pidFile' \in {None} \cup File /\ sockets' \in SUBSET (Proc \cup {Old})
          /\ overlapped' \in BOOLEAN
      BY <1>2, <2>1, HistoryTyped, TypeParts DEF Asks
    <3> QED
      BY <2>2, <3>1, TypeNext
  <2>4. FoundServing'
    BY <1>0, <1>2, CommandFound
  <2> QED
    BY <2>2, <2>3, <2>4 DEF IInv
<1>3. CASE UNCHANGED vars
  BY <1>3 DEF vars, TypeOK, IInv, CleanUps, Registered, NothingLeftBehind, SingleShare,
              OneStarts, OpenedIsThere, FoundServing, Serving
<1> QED
  BY <1>1, <1>2, <1>3 DEF Next, Runs

\* The inductive invariant holds in every reachable state of any number of
\* `lw share` processes and commands.
THEOREM Inductive == Spec => [](TypeOK /\ IInv)
  BY InitIInv, NextIInv, PTL DEF Spec

\* The PID file, the sockets, the processes and the commands keep their types.
THEOREM TypeCorrect == Spec => []TypeOK
  BY Inductive, PTL

\* Whatever fails in runShare and whoever ends it short of a kill: the
\* process that exits leaves no socket, no shell and no PID file of its own.
THEOREM ExitIsClean == Spec => []NothingLeftBehind
<1>1. IInv => NothingLeftBehind
  BY DEF IInv
<1> QED
  BY <1>1, Inductive, PTL

\* checkExistingSession admits one session at a time unless two processes
\* start together, and the PID file then names that session.
THEOREM OneSession == Spec => []SingleShare
<1>1. IInv => SingleShare
  BY DEF IInv
<1> QED
  BY <1>1, Inductive, PTL

\* A command fails or finds nothing only if no process served all along.
THEOREM CommandsFind == Spec => []CommandFindsSession
<1>1. IInv => CommandFindsSession
  BY DEF IInv, FoundServing, CommandFindsSession
<1> QED
  BY <1>1, Inductive, PTL
=============================================================================
