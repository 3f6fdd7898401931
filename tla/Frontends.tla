----------------------------- MODULE Frontends -----------------------------
(***************************************************************************)
(* What lies between an operator and the commands: the console (its        *)
(* prompt, its background starts, PENDING, INTERRUPT), its batch mode, the *)
(* desktop client (native, or in front of WSL) and the two ways to follow  *)
(* a log, logs -f of the command line and of the console.                  *)
(*                                                                         *)
(* There is one process, of the kind chosen in Init, and one container;    *)
(* start and stop themselves are taken apart in ContainerRuntime.  Here    *)
(* start blocks while the engine is up, and stop until it is down.         *)
(***************************************************************************)
EXTENDS Integers, Sequences, FiniteSets, SequencesExt

CONSTANTS
  Tasks,         \* background threads of the console
  OutFragments,  \* bound on what the engine writes to stdout, two fragments to a line
  ErrFragments,  \* and to stderr
  MaxRequests    \* bound on the requests to the desktop client

ASSUME ConstantsAssumption ==
  /\ IsFiniteSet(Tasks)
  /\ OutFragments \in Nat /\ ErrFragments \in Nat /\ MaxRequests \in Nat

Kinds == {"repl", "batch", "cli", "native", "wsl"}
Consoles == {"repl", "batch"}
Desktops == {"native", "wsl"}

VARIABLES
  kind,
  alive,        \* the process runs
  engine,       \* "down" or "up"
  fg,           \* what the foreground, or the main thread of the client, is at
  task,         \* where each background start is
  pending,      \* number of entries in PENDING, all with the label of the container
  twins,        \* two starts of the container have been in the background together
  warned,       \* the console has said that tasks are still running
  interrupted,  \* INTERRUPT
  asked,        \* Ctrl-C has been pressed since the command in the foreground began
  log,          \* fragments in stdout.log and stderr.log
  torn,         \* the logs that end in the middle of a character
  previous,     \* what the console has read last
  shown,        \* how often it has shown each line
  seen,         \* prev_out and prev_err: how long the logs were to the command line
  printed,      \* the fragments it has printed of each log
  requests,     \* requests to the desktop client, the first of them being served
  issued        \* number of requests so far

background == <<task, pending, twins, warned>>
logs == <<log, torn>>
following == <<previous, shown, seen, printed>>
desktop == <<requests, issued>>
vars == <<kind, alive, engine, fg, background, interrupted, asked, logs, following, desktop>>

Requests == {"start", "stop", "query", "quit"}
Streams == {"out", "err"}
Fragments(f) == IF f = "out" THEN OutFragments ELSE ErrFragments

\* A line has two fragments; the same line of stdout and of stderr are the same text.
EndsLine(i) == i % 2 = 0

\* The lines of the first n fragments; the last may be without an end.
LinesOf(n) ==
  [l \in 1 .. (n + 1) \div 2 |-> IF 2 * l <= n THEN <<2 * l - 1, 2 * l>> ELSE <<n>>]

\* str::lines of stdout and stderr put together: a line of stdout without an end goes on
\* with the first of stderr.
Combined(o, e) ==
  LET out == LinesOf(o) err == LinesOf(e) IN
  IF EndsLine(o) \/ e = 0 THEN out \o err
  ELSE Append(Front(out), Last(out) \o Head(err)) \o Tail(err)

AllLines ==
  UNION {ToSet(Combined(o, e)) : o \in 0 .. OutFragments, e \in 0 .. ErrFragments}

Count(l, lines) == Cardinality({i \in DOMAIN lines : lines[i] = l})
MaxShown == 2   \* no line is there more often

Phases == {"ready", "start", "stop", "stopping", "follow", "followed", "watch", "watched"}
InFlight(t) == task[t] \in {"start", "wait", "refused", "ended"}

TypeOK ==
  /\ kind \in Kinds /\ alive \in BOOLEAN /\ engine \in {"down", "up"}
  /\ fg \in Phases
  /\ task \in [Tasks -> {"none", "start", "wait", "refused", "ended", "report"}]
  /\ pending \in 0 .. Cardinality(Tasks)
  /\ twins \in BOOLEAN /\ warned \in BOOLEAN
  /\ interrupted \in BOOLEAN /\ asked \in BOOLEAN
  /\ log \in [Streams -> Nat] /\ \A f \in Streams : log[f] <= Fragments(f)
  /\ torn \subseteq Streams
  /\ ToSet(previous) \subseteq AllLines
  /\ shown \in [AllLines -> 0 .. MaxShown]
  /\ seen \in [Streams -> Nat]
  /\ \A f \in Streams : ToSet(printed[f]) \subseteq 1 .. Fragments(f)
  /\ requests \in BoundedSeq(Requests, MaxRequests)
  /\ issued \in 0 .. MaxRequests

Init ==
  /\ kind \in Kinds
  /\ alive = TRUE /\ engine \in {"down", "up"}
  /\ fg = IF kind = "cli" THEN "follow" ELSE "ready"
  /\ task = [t \in Tasks |-> "none"]
  /\ pending = 0 /\ twins = FALSE /\ warned = FALSE
  /\ interrupted = FALSE /\ asked = FALSE
  /\ log = [f \in Streams |-> 0] /\ torn = {}
  /\ previous = <<>>
  /\ shown = [l \in AllLines |-> 0]
  /\ seen = [f \in Streams |-> 0] /\ printed = [f \in Streams |-> <<>>]
  /\ requests = <<>> /\ issued = 0

Go(phase) == fg' = phase
Move(t, to) == task' = [task EXCEPT ![t] = to]

-----------------------------------------------------------------------------
(***************************************************************************)
(* The engine, as start and stop see it, and its logs (stream_pipe): what  *)
(* is written when nobody follows is there at the first poll.              *)
(***************************************************************************)
EngineDies ==
  /\ engine = "up"
  /\ engine' = "down"
  /\ UNCHANGED <<kind, alive, fg, background, interrupted, asked, logs, following, desktop>>

\* All of the next fragment, or its first bytes.
Write(f) ==
  /\ fg \in {"follow", "followed"}
  /\ log[f] < Fragments(f)
  /\ \/ log' = [log EXCEPT ![f] = @ + 1] /\ torn' = torn \ {f}
     \/ f \notin torn /\ torn' = torn \cup {f} /\ UNCHANGED log
  /\ UNCHANGED <<kind, alive, engine, fg, background, interrupted, asked, following, desktop>>

\* read_log_content: a file that is not UTF-8 to its end reads as empty.
Read(f) == IF f \in torn THEN 0 ELSE log[f]

-----------------------------------------------------------------------------
(***************************************************************************)
(* The console: one command in the foreground.                             *)
(***************************************************************************)
Ready == alive /\ kind \in Consoles /\ fg = "ready"

\* inspect, then run_detached.
run_start ==
  /\ Ready
  /\ \E t \in Tasks : task[t] = "none" /\ Move(t, "start")
  /\ pending' = pending + 1
  /\ twins' = (twins \/ \E t \in Tasks : InFlight(t))
  /\ UNCHANGED <<kind, alive, engine, fg, warned, interrupted, asked, logs, following, desktop>>

run_stop ==
  /\ Ready
  /\ Go("stop") /\ asked' = FALSE
  /\ UNCHANGED <<kind, alive, engine, background, interrupted, logs, following, desktop>>

\* Mutant: INTERRUPT is left as it is.
FollowAsItIs ==
  /\ Ready
  /\ Go("follow") /\ asked' = FALSE
  /\ UNCHANGED <<kind, alive, engine, background, interrupted, logs, following, desktop>>

run_logs ==
  /\ Ready
  /\ Go("follow") /\ asked' = FALSE
  /\ interrupted' = FALSE
  /\ UNCHANGED <<kind, alive, engine, background, logs, following, desktop>>

run_watch ==
  /\ Ready
  /\ Go("watch") /\ asked' = FALSE
  /\ interrupted' = FALSE
  /\ UNCHANGED <<kind, alive, engine, background, logs, following, desktop>>

\* The end of run_repl, of run_batch or run_stdin_batch; a batch ends with its first error
\* as well.  Only run_repl looks at PENDING.  The threads end with the process.
Exit ==
  /\ Ready
  /\ alive' = FALSE
  /\ warned' = (kind = "repl" /\ pending > 0)
  /\ UNCHANGED <<kind, engine, fg, task, pending, twins, interrupted, asked, logs, following, desktop>>

\* What is in the foreground ends, with an error if so: the prompt, the end of the batch,
\* or the next request to the client.
Returns(error) ==
  /\ IF kind = "batch" /\ error THEN alive' = FALSE /\ UNCHANGED fg
     ELSE Go("ready") /\ UNCHANGED alive
  /\ requests' = IF kind \in Desktops THEN Tail(requests) ELSE requests
  /\ previous' = <<>> /\ shown' = [l \in AllLines |-> 0]
  /\ UNCHANGED <<kind, background, interrupted, asked, logs, seen, printed, issued>>

\* Neither running nor reserved: an error.
StopRefused == alive /\ fg = "stop" /\ engine = "down" /\ Returns(TRUE) /\ UNCHANGED engine

StopSignals ==
  /\ alive /\ fg = "stop" /\ engine = "up"
  /\ Go("stopping")
  /\ UNCHANGED <<kind, alive, engine, background, interrupted, asked, logs, following, desktop>>

StopReturns == alive /\ fg = "stopping" /\ engine = "down" /\ Returns(FALSE) /\ UNCHANGED engine

\* The handler of run_repl sets the flag; at the prompt the line editor takes the key, and
\* run_repl clears it.  Other processes have no handler.
CtrlC ==
  /\ alive /\ kind \notin Desktops
  /\ IF kind = "repl" THEN /\ interrupted' = (fg # "ready")
                           /\ asked' = (fg # "ready")
                           /\ UNCHANGED alive
     ELSE alive' = FALSE /\ UNCHANGED <<interrupted, asked>>
  /\ UNCHANGED <<kind, engine, fg, background, logs, following, desktop>>

-----------------------------------------------------------------------------
(***************************************************************************)
(* A start in the background: a thread of the console (run_detached), or,  *)
(* for the client in front of WSL, a process of its own (wsl::spawn),      *)
(* which outlives the client and whose outcome nobody asks for.            *)
(***************************************************************************)
Thread(t) ==
  /\ alive \/ kind = "wsl"
  /\ UNCHANGED <<kind, alive, fg, twins, warned, interrupted, asked, logs, following, desktop>>

StartReturns(t) ==
  /\ Thread(t)
  /\ \/ task[t] = "start" /\ engine = "down" /\ engine' = "up" /\ Move(t, "wait")
     \/ task[t] = "start" /\ UNCHANGED engine /\ Move(t, "refused")
     \/ task[t] = "wait" /\ engine = "down" /\ UNCHANGED engine /\ Move(t, "ended")
  /\ UNCHANGED pending

\* Mutant: a start that failed is reported at once.
UnlistEnded(t) ==
  /\ kind \in Consoles /\ Thread(t)
  /\ task[t] \in {"refused", "ended"}
  /\ pending' = IF task[t] = "ended" THEN 0 ELSE pending
  /\ Move(t, "report")
  /\ UNCHANGED engine

\* retain removes every entry that has the label.
Unlist(t) ==
  /\ kind \in Consoles /\ Thread(t)
  /\ task[t] \in {"refused", "ended"}
  /\ pending' = 0
  /\ Move(t, "report")
  /\ UNCHANGED engine

Report(t) ==
  /\ alive /\ task[t] = "report"
  /\ Move(t, "none")
  /\ twins' = (twins /\ \E u \in Tasks : InFlight(u))
  /\ UNCHANGED <<kind, alive, engine, fg, pending, warned, interrupted, asked, logs, following, desktop>>

-----------------------------------------------------------------------------
(***************************************************************************)
(* Following a log.                                                        *)
(***************************************************************************)
CommonPrefix(old, new) ==
  Cardinality({n \in 1 .. Len(old) : n <= Len(new) /\ SubSeq(old, 1, n) = SubSeq(new, 1, n)})

\* Mutant: as many lines are passed over as there were.
LinesBeyond(old, new) == SubSeq(new, Len(old) + 1, Len(new))

delta_lines(old, new) == SubSeq(new, CommonPrefix(old, new) + 1, Len(new))

\* The lines that are new are shown.
Show ==
  LET current == Combined(Read("out"), Read("err"))
      delta == delta_lines(previous, current)
  IN  /\ previous' = current
      /\ shown' = [l \in AllLines |->
                     IF shown[l] + Count(l, delta) > MaxShown THEN MaxShown ELSE shown[l] + Count(l, delta)]

\* follow_logs of the console: one poll.
Poll ==
  /\ alive /\ kind \in Consoles /\ fg = "follow"
  /\ Show /\ Go("followed")
  /\ UNCHANGED <<kind, alive, engine, background, interrupted, asked, logs, seen, printed, desktop>>

\* The list of watch_loop is drawn.
Draw ==
  /\ alive /\ fg = "watch"
  /\ Go("watched")
  /\ UNCHANGED <<kind, alive, engine, background, interrupted, asked, logs, following, desktop>>

\* After the pause: stop(), or once more.
Again ==
  /\ alive /\ fg \in {"followed", "watched"} /\ ~interrupted
  /\ Go(IF fg = "followed" THEN "follow" ELSE "watch")
  /\ UNCHANGED <<kind, alive, engine, background, interrupted, asked, logs, following, desktop>>

Interrupted ==
  /\ alive /\ fg \in {"followed", "watched"} /\ interrupted
  /\ Returns(FALSE) /\ UNCHANGED engine

\* The container cannot be found: an error of logs, while watch reports it itself.
LookupFails ==
  /\ alive /\ kind \in Consoles /\ fg \in {"follow", "watch"}
  /\ Returns(fg = "follow") /\ UNCHANGED engine

\* The numbers of the fragments beyond the first n.
Beyond(f, n) == [i \in 1 .. (IF Read(f) > n THEN Read(f) - n ELSE 0) |-> n + i]

\* Of each log, what is beyond the length of what was read before.
PrintNew ==
  /\ printed' = [f \in Streams |-> printed[f] \o Beyond(f, seen[f])]
  /\ seen' = [f \in Streams |-> IF Read(f) > seen[f] THEN Read(f) ELSE seen[f]]

\* follow_logs of the command line: one poll and its pause.
follow_logs ==
  /\ alive /\ kind = "cli"
  /\ PrintNew
  /\ UNCHANGED <<kind, alive, engine, fg, background, interrupted, asked, logs, previous, shown, desktop>>

-----------------------------------------------------------------------------
(***************************************************************************)
(* The desktop client: its commands are not async, so the main thread      *)
(* serves them one after the other, and the events of the tray with them.  *)
(***************************************************************************)
Request(r) ==
  /\ alive /\ kind \in Desktops /\ issued < MaxRequests
  /\ requests' = Append(requests, r)
  /\ issued' = issued + 1
  /\ UNCHANGED <<kind, alive, engine, fg, background, interrupted, asked, logs, following>>

Serving(r) == alive /\ kind \in Desktops /\ fg = "ready" /\ requests # <<>> /\ Head(requests) = r

\* start_container of the native client: svc.start within the lock of the service.
StartServed ==
  /\ Serving("start") /\ kind = "native"
  /\ \/ engine = "down" /\ engine' = "up" /\ Go("start")
        /\ UNCHANGED <<kind, alive, background, interrupted, asked, logs, following, desktop>>
     \/ Returns(TRUE) /\ UNCHANGED engine

StartEnds == alive /\ fg = "start" /\ engine = "down" /\ Returns(FALSE) /\ UNCHANGED engine

\* Mutant: the client waits for wsl.exe, as for every other command.
StartCaptured ==
  /\ Serving("start") /\ kind = "wsl"
  /\ engine' = "up" /\ Go("start")
  /\ UNCHANGED <<kind, alive, background, interrupted, asked, logs, following, desktop>>

\* start_container in front of WSL: the child is kept in PERSISTENT_CHILDREN, and forgotten.
StartSpawned ==
  /\ Serving("start") /\ kind = "wsl"
  /\ \E t \in Tasks : task[t] = "none" /\ Move(t, "start")
  /\ requests' = Tail(requests)
  /\ UNCHANGED <<kind, alive, engine, fg, pending, twins, warned, interrupted, asked, logs, following, issued>>

stop_container ==
  /\ Serving("stop")
  /\ Go("stop")
  /\ UNCHANGED <<kind, alive, engine, background, interrupted, asked, logs, following, desktop>>

\* The lists, inspect, logs, and what else returns at once.
QueryServed == Serving("query") /\ Returns(FALSE) /\ UNCHANGED engine

Quit ==
  /\ Serving("quit")
  /\ alive' = FALSE
  /\ UNCHANGED <<kind, engine, fg, background, interrupted, asked, logs, following, desktop>>

-----------------------------------------------------------------------------
Console == run_start \/ run_stop \/ run_logs \/ run_watch \/ Exit
Loop == StopRefused \/ StopSignals \/ StopReturns \/ Poll \/ Draw \/ Again \/ Interrupted
Serve == StartServed \/ StartEnds \/ StartSpawned \/ stop_container \/ QueryServed \/ Quit
Background(t) == StartReturns(t) \/ Unlist(t) \/ Report(t)

Next ==
  \/ EngineDies
  \/ \E f \in Streams : Write(f)
  \/ Console
  \/ Loop
  \/ CtrlC
  \/ LookupFails
  \/ \E t \in Tasks : Background(t)
  \/ follow_logs
  \/ \E r \in Requests : Request(r)
  \/ Serve

(***************************************************************************)
(* The loops and the main thread go on; an engine that has been asked to   *)
(* stop does, or is killed.  Nobody has to press a key, to ask for         *)
(* anything, or to stop an engine.                                         *)
(***************************************************************************)
Spec ==
  /\ Init /\ [][Next]_vars
  /\ WF_vars(Loop) /\ WF_vars(Serve)
  /\ WF_vars(EngineDies /\ fg = "stopping")

-----------------------------------------------------------------------------
\* Leaving the console warns exactly when a start is in the background (README.md:419),
\* unless two starts of one container have been there together: retain takes both entries
\* when the first of them ends, and the other goes unmentioned.
ExitTellsOfTasks ==
  [][kind = "repl" /\ alive /\ ~alive' /\ ~twins
       => (warned' <=> \E t \in Tasks : InFlight(t))]_vars

\* A log or a list is followed until Ctrl-C is pressed while it is: a key pressed during an
\* earlier command does not end it.
EndsOnlyWhenAsked == [][Interrupted => asked]_vars

\* Whatever order the two logs grow in, and whatever a poll cannot read, the console has
\* shown every line of what it read last, and as often as it is there.
EachLineShown ==
  fg = "followed" => \A l \in ToSet(previous) : Count(l, previous) <= shown[l]

\* logs -f prints each log from its beginning, in order, nothing twice, whatever a poll
\* cannot read.
PrintsExactlyOnce ==
  \A f \in Streams : /\ Len(printed[f]) <= log[f]
                     /\ \A i \in DOMAIN printed[f] : printed[f][i] = i

\* Ctrl-C ends what the console follows.
InterruptEnds ==
  fg \in {"follow", "followed", "watch", "watched"} /\ interrupted ~> fg = "ready" \/ ~alive

\* The desktop client answers, unless it is the native one and an engine it has started
\* goes on: until that ends, it serves nothing else, a stop of the engine least of all.
OnlyANativeStartBlocks ==
  requests # <<>> ~> \/ requests = <<>> \/ ~alive
                     \/ kind = "native" /\ fg = "start"

\* The types, and that what is followed is shown as it was written (follow_logs of the
\* console and of the command line).
FollowInv == TypeOK /\ EachLineShown /\ PrintsExactlyOnce

\* What is followed ends when Ctrl-C is pressed, and not for a Ctrl-C of before (INTERRUPT).
FollowEnds == EndsOnlyWhenAsked /\ InterruptEnds
=============================================================================
