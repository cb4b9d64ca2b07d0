------------------------------- MODULE Process -------------------------------
(***************************************************************************)
(* The life of the server process (main.cpp): the log (instance.h), the    *)
(* configuration file (read_config.cpp), the signal handlers, the pipe and *)
(* the two threads of Handover, the way down, and crashes and restarts.    *)
(***************************************************************************)
EXTENDS Handover

CONSTANTS Lines,      \* lines a configuration file may have
          Entries,    \* those of the form key=value, each with a key of its own
          Understood  \* those without a second "=", which split_boost takes apart

ASSUME ProcessAssumption == Understood \subseteq Entries /\ Entries \subseteq Lines

VARIABLES phase,      \* the statement main has reached, "down" without a process
          log,        \* Singleton<LogSystem>::instance_
          pipe_open,  \* the descriptors of the pipe are open
          file,       \* the lines of config.ini on the disk
          config,     \* _config_map
          unread,     \* config.ini could not be opened for reading
          wanted,     \* the entries that the operator last wrote into config.ini
          lost        \* config.ini was emptied by a process that had not read it,
                      \* or that crashed before it was written

mainVars == <<log, pipe_open, file, config, unread, wanted, lost>>
allVars == <<vars, phase, mainVars>>

At(from, to) == phase = from /\ phase' = to

Init ==
    /\ Stopped /\ running = FALSE
    /\ phase = "down" /\ log = "null" /\ pipe_open = FALSE
    /\ file \in SUBSET Lines /\ config = {} /\ unread = FALSE
    /\ wanted = file \cap Entries /\ lost = FALSE

(*------------------------------ the operator ------------------------------*)
EditConfig(lines) ==
    /\ phase = "down" /\ file' = lines /\ wanted' = lines \cap Entries /\ lost' = FALSE
    /\ UNCHANGED <<vars, phase, log, pipe_open, config, unread>>

Start ==
    /\ At("down", "init") /\ log' = "live"
    /\ UNCHANGED <<vars, pipe_open, file, config, unread, wanted, lost>>

(*---------------------------------- main ----------------------------------*)
ReadsOneLine ==
    /\ At("init", "read")
    /\ \/ file = {} /\ config' = {}
       \/ \E line \in file : config' = {line} \cap Understood
    /\ UNCHANGED <<vars, log, pipe_open, file, unread, wanted, lost>>

(* ReadConfig's constructor reads what it understands, or nothing when fopen *)
(* "rb" fails (it only logs that).                                           *)
ReadAllConfig ==
    /\ At("init", "read")
    /\ \/ config' = file \cap Understood /\ unread' = FALSE
       \/ config' = {} /\ unread' = TRUE
    /\ UNCHANGED <<vars, log, pipe_open, file, wanted, lost>>

(* Its destructor empties the file (fopen "wb") and writes back what was     *)
(* understood (fclose); when fopen fails the file stays as it is.            *)
TruncateConfig ==
    \/ /\ At("read", "truncated") /\ file' = {} /\ lost' = (lost \/ unread)
       /\ UNCHANGED <<vars, log, pipe_open, config, unread, wanted>>
    \/ /\ At("read", "sigaction")
       /\ UNCHANGED <<vars, mainVars>>

WriteAllConfig ==
    /\ At("truncated", "sigaction") /\ file' = config
    /\ UNCHANGED <<vars, log, pipe_open, config, unread, wanted, lost>>

SetHandlers ==
    /\ At("sigaction", "handlers")
    /\ UNCHANGED <<vars, mainVars>>

SetRunning ==
    /\ At("handlers", "pipe") /\ running' = TRUE
    /\ UNCHANGED <<conn, pipe, acceptVars, readVars, mainVars>>

(* exit(): the kernel closes and forgets everything of the process.         *)
Exit ==
    /\ phase' = "down" /\ running' = FALSE /\ log' = "null" /\ pipe_open' = FALSE
    /\ conn' = Nobody /\ pipe' = <<>>
    /\ accepting' = "none" /\ held' = NoMsg
    /\ reading' = "none" /\ known' = Nobody /\ closing' = 0
    /\ config' = {} /\ unread' = FALSE

MakePipe ==
    /\ phase = "pipe"
    /\ \/ /\ phase' = "create_accept" /\ pipe_open' = TRUE
          /\ UNCHANGED <<vars, log, file, config, unread, wanted, lost>>
       \/ Exit /\ UNCHANGED <<file, wanted, lost>>

CreateAccept ==
    /\ phase = "create_accept"
    /\ \/ /\ phase' = "create_read" /\ accepting' = "start"
          /\ UNCHANGED <<running, conn, pipe, held, readVars, mainVars>>
       \/ Exit /\ UNCHANGED <<file, wanted, lost>>

(* Without a read thread the accept thread is stopped and joined.           *)
CreateRead ==
    /\ phase = "create_read"
    /\ \/ /\ phase' = "loop" /\ reading' = "start"
          /\ UNCHANGED <<running, conn, pipe, acceptVars, known, closing, mainVars>>
       \/ /\ phase' = "abandon" /\ running' = FALSE
          /\ UNCHANGED <<conn, pipe, acceptVars, readVars, mainVars>>

Abandon ==
    /\ phase = "abandon" /\ accepting = "ended"
    /\ Exit /\ UNCHANGED <<file, wanted, lost>>

LeaveLoop ==
    /\ ~ running /\ At("loop", "join_accept")
    /\ UNCHANGED <<vars, mainVars>>

JoinAccept ==
    /\ accepting = "ended" /\ At("join_accept", "join_read")
    /\ UNCHANGED <<vars, mainVars>>

JoinReadAtOnce ==
    /\ At("join_read", "close")
    /\ UNCHANGED <<vars, mainVars>>

JoinRead ==
    /\ reading = "ended" /\ At("join_read", "close")
    /\ UNCHANGED <<vars, mainVars>>

ClosePipe ==
    /\ At("close", "release") /\ pipe_open' = FALSE
    /\ UNCHANGED <<vars, log, file, config, unread, wanted, lost>>

(* Singleton::release: the object is deleted, then the pointer cleared, both*)
(* under the lock; then the lock is given back and main returns.            *)
DeleteLog ==
    /\ At("release", "deleted") /\ log' = "dangling"
    /\ UNCHANGED <<vars, pipe_open, file, config, unread, wanted, lost>>

ClearLog ==
    /\ At("deleted", "cleared") /\ log' = "null"
    /\ UNCHANGED <<vars, pipe_open, file, config, unread, wanted, lost>>

Return ==
    /\ phase = "cleared" /\ Exit
    /\ UNCHANGED <<file, wanted, lost>>

(* sig_pro logs and, for SIGQUIT, clears running.  On main's own stack, in  *)
(* the middle of release, it uses the deleted log (which may go well, or    *)
(* not) or waits for the lock that main holds.  Before sigaction SIGQUIT    *)
(* ends the process: that is a Crash.                                       *)
Signal(quit) ==
    /\ phase \notin {"down", "init", "read", "truncated", "sigaction"}
    /\ running' = (running /\ ~ quit)
    /\ phase' \in CASE log = "live"     -> {phase}
                    [] log = "dangling" -> {phase, "wedged"}
                    [] log = "null"     -> {"wedged"}
    /\ UNCHANGED <<conn, pipe, acceptVars, readVars, mainVars>>

Crash ==
    /\ phase # "down" /\ Exit
    /\ lost' = (lost \/ phase = "truncated")
    /\ UNCHANGED <<file, wanted>>

Main ==
    \/ ReadAllConfig \/ TruncateConfig \/ WriteAllConfig \/ SetHandlers \/ SetRunning
    \/ MakePipe \/ CreateAccept \/ CreateRead \/ Abandon
    \/ LeaveLoop \/ JoinAccept \/ JoinRead \/ ClosePipe \/ DeleteLog \/ ClearLog \/ Return

Threads == (AcceptThread \/ ReadThread) /\ UNCHANGED <<phase, mainVars>>

Next ==
    \/ \E lines \in SUBSET Lines : EditConfig(lines)
    \/ Start \/ Main \/ Threads \/ Crash
    \/ \E quit \in BOOLEAN : Signal(quit)

Spec == Init /\ [][Next]_allVars

(* Every thread is scheduled.  Nothing is assumed of the clients: while the  *)
(* server runs, a turn of the read thread need not end; once it is told to   *)
(* stop, the loops over the events end.                                      *)
FairSpec ==
    /\ Spec /\ WF_allVars(Main)
    /\ WF_allVars(AcceptThread /\ UNCHANGED <<phase, mainVars>>)
    /\ WF_allVars(ReadSteps /\ UNCHANGED <<phase, mainVars>>)
    /\ WF_allVars(~ running /\ TurnEnds /\ UNCHANGED <<phase, mainVars>>)

(*------------------------------- properties -------------------------------*)
TypeOK ==
    /\ HandoverTypeOK
    /\ log \in {"null", "live", "dangling"} /\ pipe_open \in BOOLEAN
    /\ file \subseteq Lines /\ config \subseteq Understood /\ wanted \subseteq Entries
    /\ unread \in BOOLEAN /\ lost \in BOOLEAN

(* As long as one of the threads runs, what it uses without asking is there:*)
(* the pipe (recv_thread.cpp:114, read_thread.cpp:842) and the log, which   *)
(* main takes away on its way out (main.cpp:126-130).                       *)
Alive(at) == at \notin {"none", "ended"}
ResourcesOutlive == Alive(accepting) \/ Alive(reading) => pipe_open /\ log = "live"

(* Whatever crashes and restarts there are, config.ini keeps the entries its *)
(* operator wrote, apart from those with a second "=", which the first start *)
(* drops; unless a crash fell between emptying and writing it, or it was     *)
(* emptied by a process that could not open it to read (read_config.cpp:73). *)
ConfigSurvives ==
    lost \/ phase = "truncated" \/ file \cap Understood = wanted \cap Understood

(* Once running is cleared after the threads were told to run, the process  *)
(* comes down: main's joins end (main.cpp:120-131).  Left over are the two  *)
(* ways to hang: the dispatch loop turning in circles, and a signal that    *)
(* falls into the release of the log.                                       *)
QuitEnds ==
    (~ running /\ phase \in {"pipe", "create_accept", "create_read", "abandon", "loop"})
        ~> (phase \in {"down", "wedged"} \/ reading = "spin")

(* A message of the pipe does not stay there: the reader takes it, unless it *)
(* has ended, turns in circles, or is held at its events for ever by a       *)
(* client that keeps sending.                                                *)
TurnsEnd == []<>(reading \notin {"events", "forget"})
PipeDrains ==
    TurnsEnd => \A fd \in Fds : InPipe(fd) ~>
        (~ InPipe(fd) \/ reading \in {"spin", "ended"} \/ ~ running)

=============================================================================
