---------------------------- MODULE ProcessProofs ----------------------------
(***************************************************************************)
(* Connections, the pipe, the log and the configuration through the whole  *)
(* life of the process, for any set of descriptor numbers: proofs of       *)
(* TypeOK, Custody, AcceptNeverBlocks, ResourcesOutlive and ConfigSurvives.*)
(***************************************************************************)
EXTENDS Process, FiniteSetTheorems, TLAPS

HInv == HandoverTypeOK /\ Custody

LEMMA HandoverStopped == Stopped /\ running \in BOOLEAN => HInv
  BY HandoverAssumption
     DEF Stopped, HInv, HandoverTypeOK, Custody, Nobody, NoMsg, InPipe, Connections

LEMMA PipeMessages ==
    ASSUME HInv
    PROVE  \A i \in DOMAIN pipe : pipe[i].fd \in Fds /\ pipe[i].mark \in Marks /\ pipe[i].mark # 0
  <1> SUFFICES ASSUME NEW i \in DOMAIN pipe
               PROVE  pipe[i].fd \in Fds /\ pipe[i].mark \in Marks /\ pipe[i].mark # 0
    OBVIOUS
  <1>1. pipe[i] \in Connections
    BY DEF HInv, HandoverTypeOK
  <1> QED
    BY <1>1, HandoverAssumption DEF Connections

LEMMA HandoverQuiet ==
    ASSUME HInv, running' \in BOOLEAN, UNCHANGED <<conn, pipe, known, closing, held>>,
           accepting' \in {"none", "start", "wait", "accept", "write", "ended"},
           reading' \in {"none", "start", "top", "pipe", "events", "forget", "spin", "ended"},
           accepting = "write" <=> accepting' = "write",
           reading = "forget" <=> reading' = "forget"
    PROVE  HInv'
  BY DEF HInv, HandoverTypeOK, Custody, InPipe

LEMMA AcceptKeeps == ASSUME HInv, NEW mark \in Marks, Accept(mark) PROVE HInv'
  <1>1. PICK fd \in Fds : /\ conn[fd] = 0 /\ conn' = [conn EXCEPT ![fd] = mark]
                          /\ held' = [fd |-> fd, mark |-> mark]
    BY DEF Accept
  <1>2. /\ accepting = "accept" /\ accepting' = "write" /\ held = NoMsg
        /\ UNCHANGED <<running, pipe, reading, known, closing>>
    BY DEF Accept, AcceptMove, readVars, HInv, HandoverTypeOK
  <1>3. 0 \notin Fds /\ mark # 0 /\ \A i \in DOMAIN pipe : pipe[i].mark # 0
    BY HandoverAssumption, PipeMessages
  <1>4. HandoverTypeOK'
    BY <1>1, <1>2 DEF HInv, HandoverTypeOK, Connections
  <1>5. \A i \in DOMAIN pipe : pipe[i].fd # fd
    BY <1>1, <1>3 DEF HInv, Custody
  <1>6. ~ (known[fd] # 0 /\ closing # fd)
    BY <1>1 DEF HInv, Custody
  <1>7. Custody'
    BY <1>1, <1>2, <1>3, <1>5, <1>6 DEF HInv, HandoverTypeOK, Custody, InPipe, NoMsg, Connections
  <1> QED
    BY <1>4, <1>7 DEF HInv


LEMMA WriteKeeps == ASSUME HInv, Write PROVE HInv'
  <1>1. /\ accepting = "write" /\ accepting' \in {"accept", "wait"}
        /\ pipe' = Append(pipe, held) /\ held' = NoMsg
        /\ UNCHANGED <<running, conn, reading, known, closing>>
    BY DEF Write, AcceptMove, readVars
  <1>2. pipe \in Seq(Connections) /\ held \in Connections /\ held # NoMsg
    BY <1>1, HandoverAssumption DEF HInv, HandoverTypeOK, Connections, NoMsg
  <1>3. /\ pipe' \in Seq(Connections) /\ DOMAIN pipe' = DOMAIN pipe \cup {Len(pipe) + 1}
        /\ pipe'[Len(pipe) + 1] = held /\ Len(pipe) + 1 \notin DOMAIN pipe
        /\ \A i \in DOMAIN pipe : pipe'[i] = pipe[i]
    BY <1>1, <1>2
  <1>4. held.fd \in Fds /\ held.mark \in Marks /\ NoMsg.fd = 0 /\ 0 \notin Fds
    BY <1>2, HandoverAssumption DEF Connections, NoMsg
  <1>5. HandoverTypeOK'
    BY <1>1, <1>3 DEF HInv, HandoverTypeOK
  <1>6. \A i \in DOMAIN pipe : pipe[i].fd \in Fds
    BY PipeMessages
  <1>7. \A fd \in Fds : InPipe(fd)' <=> InPipe(fd) \/ held.fd = fd
    BY <1>3 DEF InPipe
  <1>8. \A i \in DOMAIN pipe' : conn'[pipe'[i].fd] = pipe'[i].mark /\ held'.fd # pipe'[i].fd
    BY <1>1, <1>2, <1>3, <1>4, <1>6 DEF HInv, Custody
  <1>9. \A i, j \in DOMAIN pipe' : pipe'[i].fd = pipe'[j].fd => i = j
    BY <1>3 DEF HInv, Custody
  <1>10. Custody'
    BY <1>1, <1>4, <1>7, <1>8, <1>9 DEF HInv, Custody
  <1> QED
    BY <1>5, <1>10 DEF HInv

LEMMA WriteFailsKeeps == ASSUME HInv, WriteFails PROVE HInv'
  <1>1. /\ accepting = "write" /\ accepting' \in {"accept", "wait"}
        /\ conn' = [conn EXCEPT ![held.fd] = 0] /\ held' = NoMsg
        /\ UNCHANGED <<running, pipe, reading, known, closing>>
    BY DEF WriteFails, AcceptMove, readVars
  <1>2. held.fd \in Fds /\ held # NoMsg /\ NoMsg.fd = 0 /\ 0 \notin Fds
    BY <1>1, HandoverAssumption DEF HInv, HandoverTypeOK, Connections, NoMsg
  <1>3. HandoverTypeOK'
    BY <1>1 DEF HInv, HandoverTypeOK
  <1>4. Custody'
    BY <1>1, <1>2, PipeMessages DEF HInv, HandoverTypeOK, Custody, InPipe
  <1> QED
    BY <1>3, <1>4 DEF HInv

LEMMA RegisterKeeps == ASSUME HInv, NEW ok \in BOOLEAN, Register(ok) PROVE HInv'
  <1> PICK m : m = Head(pipe)
    OBVIOUS
  <1>1. /\ reading = "pipe" /\ reading' \in {"pipe", "events"}
        /\ pipe # <<>> /\ pipe' = Tail(pipe)
        /\ known' = (IF ok THEN [known EXCEPT ![m.fd] = m.mark] ELSE known)
        /\ conn' = (IF ok THEN conn ELSE [conn EXCEPT ![m.fd] = 0])
        /\ UNCHANGED <<running, accepting, held, closing>>
    BY DEF Register, ReadMove, acceptVars
  <1>2. /\ pipe \in Seq(Connections) /\ pipe' \in Seq(Connections)
        /\ m = pipe[1] /\ 1 \in DOMAIN pipe
        /\ \A i \in DOMAIN pipe' : i + 1 \in DOMAIN pipe /\ i + 1 # 1 /\ pipe'[i] = pipe[i + 1]
        /\ \A i \in DOMAIN pipe : i # 1 => i - 1 \in DOMAIN pipe' /\ pipe'[i - 1] = pipe[i]
    BY <1>1 DEF HInv, HandoverTypeOK
  <1>3. m.fd \in Fds /\ m.mark \in Marks /\ m.mark # 0 /\ closing = 0 /\ 0 \notin Fds
    BY <1>1, <1>2, PipeMessages, HandoverAssumption DEF HInv, HandoverTypeOK
  <1>4. HandoverTypeOK'
    BY <1>1, <1>2, <1>3 DEF HInv, HandoverTypeOK
  <1>5. conn[m.fd] = m.mark /\ held.fd # m.fd /\ \A i \in DOMAIN pipe' : pipe'[i].fd # m.fd
    BY <1>2 DEF HInv, Custody
  <1>6. \A fd \in Fds : fd # m.fd => (InPipe(fd)' <=> InPipe(fd))
    BY <1>2 DEF InPipe
  <1>7. ~ InPipe(m.fd)' /\ InPipe(m.fd)
    BY <1>2, <1>5 DEF InPipe
  <1>8. \A i \in DOMAIN pipe' : conn'[pipe'[i].fd] = pipe'[i].mark /\ held'.fd # pipe'[i].fd
    BY <1>1, <1>2, <1>3, <1>5, PipeMessages DEF HInv, HandoverTypeOK, Custody
  <1>9. \A i, j \in DOMAIN pipe' : pipe'[i].fd = pipe'[j].fd => i = j
    <2> SUFFICES ASSUME NEW i \in DOMAIN pipe', NEW j \in DOMAIN pipe', pipe'[i].fd = pipe'[j].fd
                 PROVE  i = j
      OBVIOUS
    <2>1. i + 1 = j + 1
      <3>1. \A k, l \in DOMAIN pipe : pipe[k].fd = pipe[l].fd => k = l
        BY DEF HInv, Custody
      <3>2. /\ i + 1 \in DOMAIN pipe /\ j + 1 \in DOMAIN pipe
            /\ pipe[i + 1] = pipe'[i] /\ pipe[j + 1] = pipe'[j]
        BY <1>2
      <3>3. pipe[i + 1].fd = pipe[j + 1].fd
        BY <3>2
      <3> QED
        BY <3>1, <3>2, <3>3
    <2>2. i \in Nat /\ j \in Nat
      <3>1. pipe' \in Seq(Connections)
        BY <1>2
      <3> QED
        BY <3>1
    <2> QED
      BY <2>1, <2>2
  <1>10. \A fd \in Fds : conn'[fd] # 0 =>
            InPipe(fd)' \/ held'.fd = fd \/ (known'[fd] # 0 /\ closing' # fd)
    BY <1>1, <1>3, <1>5, <1>6, <1>7 DEF HInv, HandoverTypeOK, Custody
  <1>11. held' # NoMsg => conn'[held'.fd] = held'.mark
    BY <1>1, <1>3, <1>5 DEF HInv, HandoverTypeOK, Custody, Connections
  <1>12. \A fd \in Fds : known'[fd] # 0 /\ closing' # fd =>
            conn'[fd] = known'[fd] /\ ~ InPipe(fd)' /\ held'.fd # fd
    BY <1>1, <1>3, <1>5, <1>6, <1>7 DEF HInv, HandoverTypeOK, Custody
  <1> QED
    BY <1>4, <1>8, <1>9, <1>10, <1>11, <1>12 DEF HInv, Custody

LEMMA CloseFdKeeps == ASSUME HInv, NEW fd \in Fds, CloseFd(fd) PROVE HInv'
  <1>1. /\ reading = "events" /\ reading' = "forget" /\ known[fd] # 0 /\ closing = 0
        /\ conn' = [conn EXCEPT ![fd] = 0] /\ closing' = fd
        /\ UNCHANGED <<running, pipe, accepting, held, known>>
    BY DEF CloseFd, ReadMove, acceptVars, HInv, HandoverTypeOK
  <1>2. ~ InPipe(fd) /\ held.fd # fd /\ 0 \notin Fds
    BY <1>1, HandoverAssumption DEF HInv, Custody
  <1>3. HandoverTypeOK'
    BY <1>1 DEF HInv, HandoverTypeOK
  <1>4. Custody'
    BY <1>1, <1>2, PipeMessages DEF HInv, HandoverTypeOK, Custody, InPipe, Connections
  <1> QED
    BY <1>3, <1>4 DEF HInv

LEMMA ForgetKeeps == ASSUME HInv, Forget PROVE HInv'
  <1>1. /\ reading = "forget" /\ reading' = "events" /\ closing \in Fds /\ 0 \notin Fds
        /\ known' = [known EXCEPT ![closing] = 0] /\ closing' = 0
        /\ UNCHANGED <<running, conn, pipe, accepting, held>>
    BY HandoverAssumption DEF Forget, ReadMove, acceptVars, HInv, HandoverTypeOK
  <1>2. HandoverTypeOK'
    BY <1>1 DEF HInv, HandoverTypeOK
  <1>3. Custody'
    BY <1>1 DEF HInv, HandoverTypeOK, Custody, InPipe
  <1> QED
    BY <1>2, <1>3 DEF HInv

LEMMA ReadEndsKeeps == ASSUME HInv, ReadEnds PROVE HInv'
  <1>1. /\ reading = "top" /\ reading' = "ended" /\ closing = 0 /\ 0 \notin Fds
        /\ conn' = [fd \in Fds |-> IF known[fd] # 0 THEN 0 ELSE conn[fd]]
        /\ known' = Nobody
        /\ UNCHANGED <<running, pipe, accepting, held, closing>>
    BY HandoverAssumption DEF ReadEnds, ReadMove, acceptVars, HInv, HandoverTypeOK
  <1>2. HandoverTypeOK'
    BY <1>1 DEF HInv, HandoverTypeOK, Nobody
  <1>3. \A fd \in Fds : known[fd] # 0 => ~ InPipe(fd) /\ held.fd # fd
    BY <1>1 DEF HInv, Custody
  <1>4. \A i \in DOMAIN pipe : conn'[pipe[i].fd] = pipe[i].mark
    BY <1>1, <1>3, PipeMessages DEF HInv, Custody, InPipe
  <1>5. Custody'
    BY <1>1, <1>3, <1>4 DEF HInv, HandoverTypeOK, Custody, InPipe, Nobody, Connections
  <1> QED
    BY <1>2, <1>5 DEF HInv

LEMMA AcceptThreadKeeps == ASSUME HInv, AcceptThread PROVE HInv'
  <1>1. CASE AcceptGivesUp \/ AcceptListens \/ AcceptLoop
    <2>1. /\ UNCHANGED <<running, conn, pipe, known, closing, held, reading>>
          /\ accepting # "write" /\ accepting' \in {"wait", "accept", "ended"}
      BY <1>1 DEF AcceptGivesUp, AcceptListens, AcceptLoop, AcceptMove, readVars
    <2> QED
      BY <2>1, HandoverQuiet DEF HInv, HandoverTypeOK
  <1>2. CASE Write
    BY <1>2, WriteKeeps
  <1>3. CASE WriteFails
    BY <1>3, WriteFailsKeeps
  <1>4. ASSUME NEW mark \in Marks, Accept(mark) PROVE HInv'
    BY <1>4, AcceptKeeps
  <1> QED
    BY <1>1, <1>2, <1>3, <1>4 DEF AcceptThread

LEMMA ReadThreadKeeps == ASSUME HInv, ReadThread PROVE HInv'
  <1>1. CASE ReadGivesUp \/ ReadStarts \/ ReadLoop \/ PipeEmpty \/ EventsDone \/ DispatchSpins
    <2>1. /\ UNCHANGED <<running, conn, pipe, known, closing, held, accepting>>
          /\ reading # "forget" /\ reading' \in {"ended", "top", "pipe", "events", "spin"}
      BY <1>1 DEF ReadGivesUp, ReadStarts, ReadLoop, PipeEmpty, EventsDone, DispatchSpins,
                  ReadMove, acceptVars
    <2> QED
      BY <2>1, HandoverQuiet DEF HInv, HandoverTypeOK
  <1>2. CASE ReadEnds
    BY <1>2, ReadEndsKeeps
  <1>3. CASE Forget
    BY <1>3, ForgetKeeps
  <1>4. ASSUME NEW ok \in BOOLEAN, Register(ok) PROVE HInv'
    BY <1>4, RegisterKeeps
  <1>5. ASSUME NEW fd \in Fds, CloseFd(fd) PROVE HInv'
    BY <1>5, CloseFdKeeps
  <1> QED
    BY <1>1, <1>2, <1>3, <1>4, <1>5 DEF ReadThread, ReadSteps, TurnEnds


(* What main has reached says which threads there are and what they may use,*)
(* and what config.ini and _config_map hold of the wanted entries.          *)
Phases == {"down", "init", "read", "truncated", "sigaction", "handlers", "pipe",
           "create_accept", "create_read", "abandon", "loop", "join_accept",
           "join_read", "close", "release", "deleted", "cleared", "wedged"}
NoThreads == ~ Alive(accepting) /\ ~ Alive(reading)
Threaded == {"create_read", "abandon", "loop", "join_accept", "join_read"}

MInv ==
    /\ phase \in Phases /\ TypeOK
    /\ phase \notin Threaded => NoThreads
    /\ phase \in Threaded \cup {"create_accept", "close"} => pipe_open /\ log = "live"
    /\ phase \in {"init", "read", "truncated", "sigaction", "handlers", "pipe", "release"}
         => log = "live"
    /\ phase = "deleted" => log = "dangling"
    /\ phase \in {"create_read", "abandon"} => reading = "none"
    /\ phase = "join_read" => accepting = "ended"
    /\ phase \in {"down", "init", "read", "truncated", "sigaction", "handlers", "pipe",
                  "create_accept"} => accepting = "none" /\ reading = "none"
    /\ phase \in {"cleared", "down"} => log # "live"
    /\ phase = "read" /\ ~ unread /\ ~ lost => config = wanted \cap Understood
    /\ phase = "truncated" /\ ~ lost => config = wanted \cap Understood
    /\ ConfigSurvives

PInv == HInv /\ MInv

LEMMA ProcessInit == Init => PInv
  <1> SUFFICES ASSUME Init PROVE PInv
    OBVIOUS
  <1>1. HInv
    BY HandoverStopped DEF Init
  <1>2. /\ phase = "down" /\ accepting = "none" /\ reading = "none" /\ log = "null"
        /\ pipe_open = FALSE /\ file \subseteq Lines /\ config = {}
        /\ unread = FALSE /\ wanted = file \cap Entries /\ lost = FALSE
    BY DEF Init, Stopped
  <1>3. file \cap Understood = wanted \cap Understood
    BY <1>2, ProcessAssumption
  <1> QED
    BY <1>1, <1>2, <1>3
       DEF PInv, MInv, HInv, TypeOK, Phases, NoThreads, Alive, Threaded, ConfigSurvives

LEMMA ExitKeeps ==
    ASSUME PInv, Exit, UNCHANGED <<file, wanted>>, lost' \in BOOLEAN,
           lost => lost', phase = "truncated" => lost'
    PROVE  PInv'
  <1>1. HInv'
    <2>1. Stopped' /\ running' \in BOOLEAN
      BY DEF Exit, Stopped
    <2>2. HandoverTypeOK'
      BY <2>1, HandoverAssumption DEF Stopped, HandoverTypeOK, Nobody, NoMsg, Connections
    <2>3. Custody'
      BY <2>1, HandoverAssumption DEF Stopped, Custody, Nobody, NoMsg, InPipe
    <2> QED
      BY <2>2, <2>3 DEF HInv
  <1>2. MInv'
    BY <1>1 DEF PInv, MInv, HInv, TypeOK, Phases, NoThreads, Alive, Threaded,
                ConfigSurvives, Exit
  <1> QED
    BY <1>1, <1>2 DEF PInv

(* Steps that leave the threads and what they share alone.                  *)
LEMMA MainAlone == ASSUME PInv, UNCHANGED vars PROVE HInv'
  BY DEF PInv, HInv, HandoverTypeOK, Custody, InPipe, vars

LEMMA ConfigKeeps ==
    ASSUME PInv, Start \/ ReadAllConfig \/ TruncateConfig \/ WriteAllConfig
                 \/ \E lines \in SUBSET Lines : EditConfig(lines)
    PROVE  PInv'
  <1>1. HInv'
    BY MainAlone DEF Start, ReadAllConfig, TruncateConfig, WriteAllConfig, EditConfig
  <1>2. CASE Start
    BY <1>1, <1>2 DEF PInv, MInv, HInv, TypeOK, Phases, NoThreads, Alive, Threaded,
                      ConfigSurvives, Start, At, vars
  <1>3. CASE ReadAllConfig
    BY <1>1, <1>3 DEF PInv, MInv, HInv, TypeOK, Phases, NoThreads, Alive, Threaded,
                      ConfigSurvives, ReadAllConfig, At, vars
  <1>4. CASE TruncateConfig
    <2>1. CASE At("read", "sigaction") /\ UNCHANGED <<vars, mainVars>>
      BY <1>1, <2>1 DEF PInv, MInv, HInv, TypeOK, Phases, NoThreads, Alive, Threaded,
                        ConfigSurvives, At, vars, mainVars
    <2>2. CASE /\ At("read", "truncated") /\ file' = {} /\ lost' = (lost \/ unread)
               /\ UNCHANGED <<vars, log, pipe_open, config, unread, wanted>>
      BY <1>1, <2>2 DEF PInv, MInv, HInv, TypeOK, Phases, NoThreads, Alive, Threaded,
                        ConfigSurvives, At, vars
    <2> QED
      BY <1>4, <2>1, <2>2 DEF TruncateConfig
  <1>5. CASE WriteAllConfig
    BY <1>1, <1>5, ProcessAssumption
       DEF PInv, MInv, HInv, TypeOK, Phases, NoThreads, Alive, Threaded,
           ConfigSurvives, WriteAllConfig, At, vars
  <1>6. ASSUME NEW lines \in SUBSET Lines, EditConfig(lines) PROVE PInv'
    <2>1. lines \cap Understood = (lines \cap Entries) \cap Understood
      BY ProcessAssumption
    <2> QED
      BY <1>1, <1>6, <2>1
         DEF PInv, MInv, HInv, TypeOK, Phases, NoThreads, Alive, Threaded,
             ConfigSurvives, EditConfig, At, vars
  <1> QED
    BY <1>2, <1>3, <1>4, <1>5, <1>6

LEMMA CreateKeeps ==
    ASSUME PInv, SetHandlers \/ SetRunning \/ MakePipe \/ CreateAccept \/ CreateRead
    PROVE  PInv'
  <1>1. CASE SetHandlers
    BY <1>1, MainAlone DEF PInv, MInv, HInv, TypeOK, Phases, NoThreads, Alive, Threaded,
                           ConfigSurvives, SetHandlers, At, vars, mainVars
  <1>2. CASE SetRunning
    <2>1. HInv'
      BY <1>2, HandoverQuiet DEF SetRunning, acceptVars, readVars, PInv, HInv, HandoverTypeOK
    <2> QED
      BY <1>2, <2>1 DEF PInv, MInv, HInv, TypeOK, Phases, NoThreads, Alive, Threaded,
                        ConfigSurvives, SetRunning, At, acceptVars, readVars, mainVars
  <1>3. CASE MakePipe
    <2>1. CASE Exit /\ UNCHANGED <<file, wanted, lost>>
      BY <1>3, <2>1, ExitKeeps DEF MakePipe, PInv, MInv, TypeOK
    <2>2. CASE phase' = "create_accept" /\ pipe_open' = TRUE
                  /\ UNCHANGED <<vars, log, file, config, unread, wanted, lost>>
      BY <1>3, <2>2, MainAlone DEF MakePipe, PInv, MInv, HInv, TypeOK, Phases, NoThreads,
                                   Alive, Threaded, ConfigSurvives, vars
    <2> QED
      BY <1>3, <2>1, <2>2 DEF MakePipe
  <1>4. CASE CreateAccept
    <2>1. CASE Exit /\ UNCHANGED <<file, wanted, lost>>
      BY <1>4, <2>1, ExitKeeps DEF CreateAccept, PInv, MInv, TypeOK
    <2>2. CASE phase' = "create_read" /\ accepting' = "start"
                  /\ UNCHANGED <<running, conn, pipe, held, readVars, mainVars>>
      <3>1. accepting = "none" /\ phase = "create_accept"
        BY <1>4 DEF CreateAccept, PInv, MInv
      <3>2. HInv'
        BY <2>2, <3>1, HandoverQuiet DEF readVars, PInv, HInv, HandoverTypeOK
      <3> QED
        BY <2>2, <3>1, <3>2 DEF PInv, MInv, HInv, TypeOK, Phases, NoThreads, Alive, Threaded,
                                ConfigSurvives, readVars, mainVars
    <2> QED
      BY <1>4, <2>1, <2>2 DEF CreateAccept
  <1>5. CASE CreateRead
    <2>1. HInv'
      BY <1>5, HandoverQuiet
         DEF CreateRead, acceptVars, readVars, PInv, MInv, HInv, HandoverTypeOK
    <2> QED
      BY <1>5, <2>1 DEF CreateRead, PInv, MInv, HInv, TypeOK, Phases, NoThreads, Alive,
                        Threaded, ConfigSurvives, acceptVars, readVars, mainVars
  <1> QED
    BY <1>1, <1>2, <1>3, <1>4, <1>5

LEMMA ShutdownKeeps ==
    ASSUME PInv, LeaveLoop \/ JoinAccept \/ JoinRead \/ ClosePipe \/ DeleteLog \/ ClearLog
    PROVE  PInv'
  <1>1. HInv'
    BY MainAlone DEF LeaveLoop, JoinAccept, JoinRead, ClosePipe, DeleteLog, ClearLog
  <1>2. CASE LeaveLoop \/ JoinAccept \/ JoinRead
    BY <1>1, <1>2 DEF PInv, MInv, HInv, TypeOK, Phases, NoThreads, Alive, Threaded,
                      ConfigSurvives, LeaveLoop, JoinAccept, JoinRead, At, vars, mainVars
  <1>3. CASE ClosePipe \/ DeleteLog \/ ClearLog
    BY <1>1, <1>3 DEF PInv, MInv, HInv, TypeOK, Phases, NoThreads, Alive, Threaded,
                      ConfigSurvives, ClosePipe, DeleteLog, ClearLog, At, vars
  <1> QED
    BY <1>2, <1>3

LEMMA SignalKeeps == ASSUME PInv, NEW quit \in BOOLEAN, Signal(quit) PROVE PInv'
  <1>1. /\ running' \in BOOLEAN /\ UNCHANGED <<conn, pipe, acceptVars, readVars, mainVars>>
        /\ phase \notin {"down", "init", "read", "truncated", "sigaction"}
        /\ phase' = phase \/ (log # "live" /\ phase' = "wedged")
    BY DEF Signal, PInv, MInv, TypeOK
  <1>2. HInv'
    BY <1>1, HandoverQuiet DEF acceptVars, readVars, PInv, HInv, HandoverTypeOK
  <1>3. log # "live" => NoThreads
    BY <1>1 DEF PInv, MInv
  <1> QED
    BY <1>1, <1>2, <1>3
       DEF PInv, MInv, HInv, TypeOK, Phases, NoThreads, Alive, Threaded,
           ConfigSurvives, acceptVars, readVars, mainVars

LEMMA ThreadsKeep == ASSUME PInv, Threads PROVE PInv'
  <1>1. HInv'
    BY AcceptThreadKeeps, ReadThreadKeeps DEF Threads, PInv
  <1>2. /\ UNCHANGED <<phase, mainVars>>
        /\ accepting' = accepting \/ (accepting \notin {"none", "ended"} /\ accepting' # "none")
        /\ reading' = reading \/ (reading \notin {"none", "ended"} /\ reading' # "none")
    BY DEF Threads, AcceptThread, ReadThread, AcceptGivesUp, AcceptListens, AcceptLoop,
           Accept, Write, WriteFails, ReadGivesUp, ReadStarts, ReadLoop, ReadEnds,
           Register, PipeEmpty, CloseFd, Forget, ReadSteps, TurnEnds,
           EventsDone, DispatchSpins, AcceptMove, ReadMove, acceptVars, readVars
  <1> QED
    BY <1>1, <1>2 DEF PInv, MInv, HInv, TypeOK, Phases, NoThreads, Alive, Threaded,
                      ConfigSurvives, mainVars

LEMMA ProcessStep == PInv /\ [Next]_allVars => PInv'
  <1> SUFFICES ASSUME PInv, [Next]_allVars PROVE PInv'
    OBVIOUS
  <1>1. CASE Abandon \/ Return
    BY <1>1, ExitKeeps DEF Abandon, Return, PInv, MInv, TypeOK
  <1>2. CASE Crash
    BY <1>2, ExitKeeps DEF Crash, PInv, MInv, TypeOK
  <1>3. CASE Threads
    BY <1>3, ThreadsKeep
  <1>4. ASSUME NEW quit \in BOOLEAN, Signal(quit) PROVE PInv'
    BY <1>4, SignalKeeps
  <1>5. CASE UNCHANGED allVars
    BY <1>5, MainAlone DEF allVars, mainVars, vars, PInv, MInv, HInv, TypeOK, Phases,
                           NoThreads, Alive, Threaded, ConfigSurvives
  <1> QED
    BY <1>1, <1>2, <1>3, <1>4, <1>5, ConfigKeeps, CreateKeeps, ShutdownKeeps DEF Next, Main

LEMMA ProcessInvariant == Spec => []PInv
  BY ProcessInit, ProcessStep, PTL DEF Spec

(* No two messages of the pipe are about the same number, and none is about *)
(* the number the accept thread holds: with as much room as there are       *)
(* numbers there is room for one more.                                      *)
LEMMA PipeHasRoom == HInv => AcceptNeverBlocks
  <1> SUFFICES ASSUME HInv, accepting = "write" PROVE Len(pipe) < PipeCap
    BY DEF AcceptNeverBlocks
  <1> DEFINE others == Fds \ {held.fd}
             number == [i \in 1 .. Len(pipe) |-> pipe[i].fd]
  <1>1. pipe \in Seq(Connections) /\ Len(pipe) \in Nat /\ DOMAIN pipe = 1 .. Len(pipe)
        /\ held.fd \in Fds
    BY DEF HInv, HandoverTypeOK, Connections
  <1>2. IsFiniteSet(others) /\ Cardinality(others) = Cardinality(Fds) - 1
        /\ Cardinality(Fds) \in Nat /\ Cardinality(Fds) <= PipeCap /\ PipeCap \in Nat
    BY <1>1, HandoverAssumption, FS_RemoveElement, FS_CardinalityType
  <1>3. number \in Injection(1 .. Len(pipe), others)
    <2>1. \A i \in 1 .. Len(pipe) : pipe[i].fd \in others
      BY <1>1, PipeMessages DEF HInv, Custody
    <2>2. \A i, j \in 1 .. Len(pipe) : pipe[i].fd = pipe[j].fd => i = j
      BY <1>1 DEF HInv, Custody
    <2> QED
      BY <2>1, <2>2 DEF Injection, IsInjective
  <1>4. Cardinality(1 .. Len(pipe)) <= Cardinality(others)
    BY <1>2, <1>3, FS_Injection
  <1>5. Cardinality(1 .. Len(pipe)) = Len(pipe)
    BY <1>1, FS_Interval
  <1> QED
    BY <1>1, <1>2, <1>4, <1>5

(* The state of main, of the two threads and of the pipe keeps its types,   *)
(* through starts, crashes and signals.                                     *)
THEOREM ProcessType == Spec => []TypeOK
  BY ProcessInvariant, PTL DEF PInv, MInv

(* However the two threads interleave with each other and with the kernel   *)
(* giving numbers out again, every open connection is in one pair of hands, *)
(* and whoever holds a number means the connection that is open under it    *)
(* (recv_thread.cpp:104-120, read_thread.cpp:813-885).                      *)
THEOREM ConnectionCustody == Spec => []Custody
  BY ProcessInvariant, PTL DEF PInv, HInv

(* With a pipe of as many messages as there are descriptors, the write of   *)
(* the accept thread never waits (recv_thread.cpp:114).                     *)
THEOREM AcceptThreadRuns == Spec => []AcceptNeverBlocks
  <1>1. PInv => AcceptNeverBlocks
    BY PipeHasRoom DEF PInv
  <1> QED
    BY <1>1, ProcessInvariant, PTL

(* The pipe and the log outlive the threads that use them (main.cpp:97-131).*)
THEOREM ThreadsHaveResources == Spec => []ResourcesOutlive
  <1>1. PInv => ResourcesOutlive
    BY DEF PInv, MInv, NoThreads, Threaded, ResourcesOutlive
  <1> QED
    BY <1>1, ProcessInvariant, PTL

(* config.ini keeps the entries of its operator that have no second "="    *)
(* through any sequence of starts and crashes, but for a crash between      *)
(* emptying it and writing it, and for a start that could not open it to    *)
(* read (read_config.cpp:19-48, 54-113).                                    *)
THEOREM ConfigKept == Spec => []ConfigSurvives
  BY ProcessInvariant, PTL DEF PInv, MInv

=============================================================================
