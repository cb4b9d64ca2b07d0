------------------------------- MODULE Handover -------------------------------
(***************************************************************************)
(* How a connection gets from the accept thread (recv_thread.cpp,          *)
(* common::accept_thread) through the pipe to the read thread              *)
(* (read_thread.cpp, common::read_thread), and how it is closed.           *)
(*                                                                         *)
(* A connection is known to both threads only by its descriptor number,    *)
(* and the kernel gives a number out again as soon as it is closed.  A     *)
(* connection therefore also has a mark that the code does not see: it     *)
(* tells a connection from an earlier one of the same number.              *)
(***************************************************************************)
EXTENDS Integers, Sequences, FiniteSets

CONSTANTS Fds,        \* descriptor numbers there are for connections
          Marks,      \* marks of connections
          PipeCap     \* messages that fit into the pipe

(* 65536 bytes of pipe hold 4681 messages of 14 bytes, and a process has    *)
(* 1024 descriptors unless somebody raises the limit, which the code does   *)
(* not do.                                                                  *)
ASSUME HandoverAssumption ==
    /\ Fds \subseteq Nat \ {0} /\ IsFiniteSet(Fds)
    /\ 0 \notin Marks /\ Marks # {}
    /\ PipeCap \in Nat /\ Cardinality(Fds) <= PipeCap

VARIABLES running,      \* comm.running
          conn,         \* per number: the mark of the open connection, 0 if closed
          pipe,         \* the messages in the pipe: [fd, mark]
          accepting,    \* where the accept thread is
          held,         \* the connection the accept thread is writing to the pipe
          reading,      \* where the read thread is
          known,        \* per number: the mark of the connection in epoll, mIpPort
                        \* and the session maps, 0 if none
          closing       \* the number func_close is at work on, 0 if none

vars == <<running, conn, pipe, accepting, held, reading, known, closing>>
acceptVars == <<accepting, held>>
readVars == <<reading, known, closing>>

Nobody == [fd \in Fds |-> 0]
NoMsg == [fd |-> 0, mark |-> 0]

Stopped == /\ conn = Nobody /\ pipe = <<>>
           /\ accepting = "none" /\ held = NoMsg
           /\ reading = "none" /\ known = Nobody /\ closing = 0

(*------------------------------ accept thread -----------------------------*)
AcceptMove(from, to) == accepting = from /\ accepting' = to

(* No epoll or no listening socket, at the start or when the listening      *)
(* socket had to be made again: the thread returns, the process goes on.    *)
AcceptGivesUp ==
    /\ AcceptMove("start", "ended") \/ AcceptMove("accept", "ended")
    /\ UNCHANGED <<running, conn, pipe, held, readVars>>

AcceptListens ==
    /\ AcceptMove("start", "wait")
    /\ UNCHANGED <<running, conn, pipe, held, readVars>>

AcceptLoopForever ==
    /\ AcceptMove("wait", "accept") \/ AcceptMove("accept", "wait")
    /\ UNCHANGED <<running, conn, pipe, held, readVars>>

(* The top of the loop, and accept() that finds nobody (or not running).    *)
AcceptLoop ==
    /\ \/ running /\ AcceptMove("wait", "accept")
       \/ AcceptMove("accept", "wait")
       \/ ~ running /\ AcceptMove("wait", "ended")
    /\ UNCHANGED <<running, conn, pipe, held, readVars>>

(* accept() returns the lowest free number.                                 *)
Accept(mark) ==
    /\ AcceptMove("accept", "write")
    /\ \E fd \in Fds :
          /\ conn[fd] = 0 /\ \A g \in Fds : g < fd => conn[g] # 0
          /\ conn' = [conn EXCEPT ![fd] = mark]
          /\ held' = [fd |-> fd, mark |-> mark]
    /\ UNCHANGED <<running, pipe, readVars>>

(* write() to the pipe, which waits until there is room.                    *)
Write ==
    /\ Len(pipe) < PipeCap
    /\ AcceptMove("write", IF running THEN "accept" ELSE "wait")
    /\ pipe' = Append(pipe, held) /\ held' = NoMsg
    /\ UNCHANGED <<running, conn, readVars>>

WriteFails ==
    /\ AcceptMove("write", IF running THEN "accept" ELSE "wait")
    /\ conn' = [conn EXCEPT ![held.fd] = 0] /\ held' = NoMsg
    /\ UNCHANGED <<running, pipe, readVars>>

(*------------------------------- read thread ------------------------------*)
ReadMove(from, to) == reading = from /\ reading' = to

ReadGivesUp ==
    /\ ReadMove("start", "ended")
    /\ UNCHANGED <<running, conn, pipe, acceptVars, known, closing>>

ReadStarts ==
    /\ ReadMove("start", "top")
    /\ UNCHANGED <<running, conn, pipe, acceptVars, known, closing>>

ReadLoopSkipsPipe ==
    /\ running /\ ReadMove("top", "events")
    /\ UNCHANGED <<running, conn, pipe, acceptVars, known, closing>>

ReadEndsClosingAll ==
    /\ ~ running /\ ReadMove("top", "ended")
    /\ conn' = Nobody /\ known' = Nobody
    /\ UNCHANGED <<running, pipe, acceptVars, closing>>

(* while (comm->running): the pipe is read, or everything known is closed   *)
(* and the thread returns.                                                  *)
ReadLoop ==
    /\ running /\ ReadMove("top", "pipe")
    /\ UNCHANGED <<running, conn, pipe, acceptVars, known, closing>>

ReadEnds ==
    /\ ~ running /\ ReadMove("top", "ended")
    /\ conn' = [fd \in Fds |-> IF known[fd] # 0 THEN 0 ELSE conn[fd]]
    /\ known' = Nobody
    /\ UNCHANGED <<running, pipe, acceptVars, closing>>

RegisterLeaks(ok) ==
    /\ ReadMove("pipe", IF running THEN "pipe" ELSE "events") /\ pipe # <<>>
    /\ pipe' = Tail(pipe)
    /\ known' = IF ok THEN [known EXCEPT ![Head(pipe).fd] = Head(pipe).mark] ELSE known
    /\ UNCHANGED <<running, conn, acceptVars, closing>>

(* One message of the pipe: the socket goes into epoll and mIpPort, or is   *)
(* closed when epoll_ctl fails.                                             *)
Register(ok) ==
    /\ ReadMove("pipe", IF running THEN "pipe" ELSE "events") /\ pipe # <<>>
    /\ pipe' = Tail(pipe)
    /\ LET m == Head(pipe) IN
       /\ known' = IF ok THEN [known EXCEPT ![m.fd] = m.mark] ELSE known
       /\ conn' = IF ok THEN conn ELSE [conn EXCEPT ![m.fd] = 0]
    /\ UNCHANGED <<running, acceptVars, closing>>

PipeEmpty ==
    /\ pipe = <<>> /\ ReadMove("pipe", "events")
    /\ UNCHANGED <<running, conn, pipe, acceptVars, known, closing>>

(* func_close closes the number first ...                                   *)
CloseFd(fd) ==
    /\ running /\ ReadMove("events", "forget") /\ known[fd] # 0
    /\ conn' = [conn EXCEPT ![fd] = 0] /\ closing' = fd
    /\ UNCHANGED <<running, pipe, acceptVars, known>>

ForgetKeepsNumber ==
    /\ ReadMove("forget", "events")
    /\ known' = [known EXCEPT ![closing] = 0]
    /\ UNCHANGED <<running, conn, pipe, acceptVars, closing>>

(* ... and then takes it out of epoll, of the session maps and of mIpPort.  *)
Forget ==
    /\ ReadMove("forget", "events")
    /\ known' = [known EXCEPT ![closing] = 0] /\ closing' = 0
    /\ UNCHANGED <<running, conn, pipe, acceptVars>>

(* The events are handled and the messages dispatched.  It need not come to *)
(* this while running: a socket is read until it has no more, and a client  *)
(* may keep sending (read_thread.cpp:976).                                  *)
EventsDone ==
    /\ ReadMove("events", "top")
    /\ UNCHANGED <<running, conn, pipe, acceptVars, known, closing>>

(* A message for somebody who is no friend stays at the front of msg_list   *)
(* and the dispatch loop turns for ever.                                    *)
DispatchSpins ==
    /\ ReadMove("events", "spin")
    /\ UNCHANGED <<running, conn, pipe, acceptVars, known, closing>>

AcceptThread ==
    \/ AcceptGivesUp \/ AcceptListens \/ AcceptLoop \/ Write \/ WriteFails
    \/ \E mark \in Marks : Accept(mark)

(* What the read thread does without anybody's doing... *)
ReadSteps ==
    \/ ReadGivesUp \/ ReadStarts \/ ReadLoop \/ ReadEnds \/ PipeEmpty \/ Forget
    \/ \E ok \in BOOLEAN : Register(ok)

(* ...and how a turn is left. *)
TurnEnds == EventsDone \/ DispatchSpins

ReadThread == \/ ReadSteps \/ TurnEnds
              \/ \E fd \in Fds : CloseFd(fd)

(*------------------------------- properties -------------------------------*)
Connections == [fd : Fds, mark : Marks]

HandoverTypeOK ==
    /\ running \in BOOLEAN
    /\ conn \in [Fds -> Marks \cup {0}] /\ known \in [Fds -> Marks \cup {0}]
    /\ pipe \in Seq(Connections)
    /\ accepting \in {"none", "start", "wait", "accept", "write", "ended"}
    /\ held \in (IF accepting = "write" THEN Connections ELSE {NoMsg})
    /\ reading \in {"none", "start", "top", "pipe", "events", "forget", "spin", "ended"}
    /\ closing \in (IF reading = "forget" THEN Fds ELSE {0})

(* Every open connection is in the hands of exactly one: the accept thread, *)
(* one message in the pipe, or the read thread; and every one of these      *)
(* means a connection that is still open and still the same one, although   *)
(* func_close gives the number back (:816) before it clears its maps (:818).*)
InPipe(fd) == \E i \in DOMAIN pipe : pipe[i].fd = fd
Custody ==
    /\ \A fd \in Fds : conn[fd] # 0 =>
          InPipe(fd) \/ held.fd = fd \/ (known[fd] # 0 /\ closing # fd)
    /\ \A i \in DOMAIN pipe : conn[pipe[i].fd] = pipe[i].mark /\ held.fd # pipe[i].fd
    /\ \A i, j \in DOMAIN pipe : pipe[i].fd = pipe[j].fd => i = j
    /\ held # NoMsg => conn[held.fd] = held.mark
    /\ \A fd \in Fds : known[fd] # 0 /\ closing # fd =>
          conn[fd] = known[fd] /\ ~ InPipe(fd) /\ held.fd # fd

(* The accept thread writes to the pipe in blocking mode and main joins it  *)
(* before the read thread (main.cpp:126): it may never have to wait for     *)
(* room, for the reader may be gone.                                        *)
AcceptNeverBlocks == accepting = "write" => Len(pipe) < PipeCap

=============================================================================
