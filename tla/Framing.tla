------------------------------- MODULE Framing -------------------------------
(***************************************************************************)
(* The read loop of the read thread (read_thread.cpp, common::read_thread, *)
(* the part under EPOLLIN): how the bytes of the clients become packages.  *)
(* All sockets share one buffer buf and one index buf_index into it.       *)
(*                                                                         *)
(* A byte string is a sequence of units; a unit knows the package head it  *)
(* belongs to and its place in that package.  A package is HeadLen units   *)
(* of header and sub units of payload.  Only what the loop looks at is     *)
(* kept: the header it reads (always at the front of buf) and the place    *)
(* where it takes the payload (at read_index).  Lengths are unsigned       *)
(* numbers below UintMod: bytes that are no header can give a length whose *)
(* sum with HeadLen wraps.                                                 *)
(***************************************************************************)
EXTENDS Integers, Sequences, FiniteSets

CONSTANTS Fds,          \* numbers of the sockets
          GuidOf,       \* the sender guid the client of each socket writes
          Known,        \* the guids that are in users_map or groups_map
          Kinds,        \* the requests: pairs of a type and a payload length
          HeadLen,      \* recv_msg_head_length
          UintMod,      \* one more than the greatest uint32_t
          MaxBuf,       \* MAXBUFSIZE
          MaxStream     \* bound: units under way, per socket

ASSUME FramingAssumption ==
    /\ HeadLen \in Nat \ {0} /\ MaxBuf \in Nat \ {0} /\ MaxStream \in [Fds -> Nat]
    /\ UintMod \in Nat /\ MaxBuf < UintMod
    /\ \A k \in Kinds : k.sub \in Nat /\ HeadLen + k.sub < UintMod
    /\ 0 \notin Fds

VARIABLES stream,      \* per socket: units sent and not read
          hung,        \* sockets whose client has closed
          cut,         \* sockets the server closed while their client was there
          pc,          \* "wait" (epoll_wait), "read", "parse" or "over" (crashed)
          fd_now,      \* the socket of the event being handled, 0 if none
          buf,         \* the meaningful front of the buffer
          buf_index, nread, read_index,
          tidy,        \* this read is whole packages of one kind, into an empty buf
          handled      \* <<the package of this read handled last>>, or <<>>

vars == <<stream, hung, cut, pc, fd_now, buf, buf_index, nread, read_index, tidy, handled>>

(*-------------------------------- packages --------------------------------*)
Heads == {[from |-> GuidOf[fd], type |-> k.type, sub |-> k.sub] : fd \in Fds, k \in Kinds}
Headers == [from : {GuidOf[fd] : fd \in Fds}, type : {k.type : k \in Kinds},
            sub : 0 .. UintMod - 1]
Size(h) == (HeadLen + h.sub) % UintMod
Wraps(h) == HeadLen + h.sub >= UintMod
Unit(h, i) == [head |-> h, i |-> i]
Package(h) == [i \in 1 .. Size(h) |-> Unit(h, i)]
Payload(h) == [i \in 1 .. h.sub |-> Unit(h, HeadLen + i)]

(* What fill_head can find at the front of the buffer: the header, when the *)
(* front is one; any numbers, when bytes of something else lie there.       *)
HeaderAt(b) ==
    LET real == {h \in Heads : \A i \in 1 .. HeadLen : b[i] = Unit(h, i)}
    IN  IF real = {} THEN Headers ELSE real

(* Payload that parse_msg accepts for header h: that of a package of the    *)
(* same type and length, whoever sent it.                                   *)
Aligned(h, body) ==
    \E g \in {g \in Heads : g.type = h.type /\ g.sub = h.sub} : body = Payload(g)

(* A chunk of whole packages that all have the same head.                   *)
WholePackages(c) ==
    /\ c # <<>> /\ c[1].i = 1 /\ c[Len(c)].i = Size(c[1].head)
    /\ \A k \in 1 .. Len(c) : c[k].head = c[1].head

Init ==
    /\ stream = [fd \in Fds |-> <<>>] /\ hung = {} /\ cut = {}
    /\ pc = "wait" /\ fd_now = 0
    /\ buf = <<>> /\ buf_index = 0 /\ nread = 0 /\ read_index = 0
    /\ tidy = TRUE /\ handled = <<>>

(*--------------------------- the clients (external) -----------------------*)
Send(fd, h) ==
    /\ fd \notin hung \cup cut /\ h.from = GuidOf[fd]
    /\ Len(stream[fd]) + Size(h) <= MaxStream[fd]
    /\ stream' = [stream EXCEPT ![fd] = @ \o Package(h)]
    /\ UNCHANGED <<hung, cut, pc, fd_now, buf, buf_index, nread, read_index, tidy, handled>>

Hangup(fd) ==
    /\ fd \notin hung \cup cut
    /\ hung' = hung \cup {fd}
    /\ UNCHANGED <<stream, cut, pc, fd_now, buf, buf_index, nread, read_index, tidy, handled>>

(*------------------------------ the read loop -----------------------------*)
Event(fd) ==
    /\ pc = "wait" /\ fd \notin cut /\ (stream[fd] # <<>> \/ fd \in hung)
    /\ pc' = "read" /\ fd_now' = fd
    /\ UNCHANGED <<stream, hung, cut, buf, buf_index, nread, read_index, tidy, handled>>

(* read() returns n > 0 units.                                              *)
Read(n) ==
    /\ pc = "read" /\ n <= Len(stream[fd_now]) /\ n <= MaxBuf - buf_index
    /\ LET chunk == SubSeq(stream[fd_now], 1, n) IN
       /\ buf' = SubSeq(buf, 1, buf_index) \o chunk
       /\ tidy' = (buf_index = 0 /\ WholePackages(chunk))
    /\ stream' = [stream EXCEPT ![fd_now] = SubSeq(@, n + 1, Len(@))]
    /\ nread' = n /\ read_index' = 0 /\ pc' = "parse"
    /\ UNCHANGED <<hung, cut, fd_now, buf_index, handled>>

(* read() returns -1 with EAGAIN.                                           *)
Again ==
    /\ pc = "read" /\ stream[fd_now] = <<>> /\ fd_now \notin hung /\ buf_index < MaxBuf
    /\ pc' = "wait" /\ fd_now' = 0
    /\ UNCHANGED <<stream, hung, cut, buf, buf_index, nread, read_index, tidy, handled>>

(* read() returns 0, because the client has closed or because no room is    *)
(* left in buf: func_close.  The number may come back with another client.  *)
Close ==
    /\ pc = "read"
    /\ \/ stream[fd_now] = <<>> /\ fd_now \in hung
       \/ buf_index = MaxBuf
    /\ cut' = IF fd_now \in hung THEN cut ELSE cut \cup {fd_now}
    /\ stream' = [stream EXCEPT ![fd_now] = <<>>]
    /\ hung' = hung \ {fd_now} /\ pc' = "wait" /\ fd_now' = 0
    /\ UNCHANGED <<buf, buf_index, nread, read_index, tidy, handled>>

RestartKeepsIndex == buf' = <<>> /\ nread' = 0 /\ read_index' = 0 /\ pc' = "read"
                        /\ UNCHANGED buf_index

(* The next read starts at the front of an empty buffer.                    *)
Restart == buf' = <<>> /\ buf_index' = 0 /\ nread' = 0 /\ read_index' = 0 /\ pc' = "read"

ConsumedBodyOnly(used) ==
    nread' = nread - used /\ read_index' = read_index + HeadLen + used
ConsumedNothing(used) == UNCHANGED <<nread, read_index>>
ConsumedOnce(used) == nread' = 0 /\ read_index' = read_index + HeadLen + used

(* A package was handled: its header and what parse_msg used are consumed.  *)
Consumed(used) ==
    nread' = nread - (HeadLen + used) /\ read_index' = read_index + HeadLen + used

(* The bytes of buf from one place to another, as far as they were read.    *)
Held(first, last) == SubSeq(buf, first, IF last > Len(buf) THEN Len(buf) ELSE last)

(* The header at the front of buf fits into what was read, or its length    *)
(* wraps.                                                                   *)
FitsIn(h) == pc = "parse" /\ nread > HeadLen /\ Size(h) <= nread

(* parse_msg takes the payload behind read_index and says how much of it it *)
(* used; for 0 everything is dropped.                                       *)
ParseMsg(h, used) ==
    /\ FitsIn(h) /\ HeadLen + used <= nread
    /\ LET body == Held(read_index + HeadLen + 1, read_index + HeadLen + h.sub) IN
       /\ IF Aligned(h, body) THEN used = h.sub ELSE used <= h.sub
       /\ handled' = IF used = 0 THEN <<>> ELSE <<[fd |-> fd_now, head |-> h, body |-> body]>>
    /\ IF used = 0
       THEN Restart
       ELSE Consumed(used) /\ UNCHANGED <<buf, buf_index, pc>>
    /\ UNCHANGED <<stream, hung, cut, fd_now, tidy>>

(* The length wraps and parse_msg used more than was read: nread wraps too, *)
(* and the loop runs on behind what was read, with the same header, until   *)
(* parse_msg refuses what lies there or there is no memory.  What is        *)
(* handled on the way is not looked at.                                     *)
RunOver(h, used) ==
    /\ FitsIn(h) /\ HeadLen + used > nread
    /\ \/ Restart
       \/ pc' = "over" /\ buf' = <<>> /\ nread' = 0 /\ read_index' = 0 /\ buf_index' = 0
    /\ handled' = <<>>
    /\ UNCHANGED <<stream, hung, cut, fd_now, tidy>>

(* The package is not complete and nobody knows its sender: the buffer is   *)
(* given up.                                                                *)
UnknownSender(h) ==
    /\ pc = "parse" /\ nread > HeadLen /\ Size(h) > nread
    /\ h.from \notin Known
    /\ Restart /\ handled' = <<>>
    /\ UNCHANGED <<stream, hung, cut, fd_now, tidy>>

FullStaysFull(end) == end

(* A buffer that is full to its end is given up.                            *)
NextIndex(end) == IF end = MaxBuf THEN 0 ELSE end

(* The rest waits at the front of buf for the next read, of any socket.     *)
KeepRest ==
    /\ pc = "parse"
    /\ \/ nread <= HeadLen
       \/ nread > HeadLen /\ \E h \in HeaderAt(buf) : Size(h) > nread /\ h.from \in Known
    /\ LET start == IF buf_index < read_index THEN 0 ELSE buf_index
           kept  == NextIndex(start + nread)
       IN  /\ buf_index' = kept
           /\ buf' = [i \in 1 .. kept |-> buf[IF i <= nread THEN read_index + i ELSE i]]
    /\ nread' = 0 /\ read_index' = 0 /\ pc' = "read" /\ handled' = <<>>
    /\ UNCHANGED <<stream, hung, cut, fd_now, tidy>>

ReadLoop ==
    \/ \E fd \in Fds : Event(fd)
    \/ \E n \in 1 .. MaxBuf : Read(n)
    \/ Again \/ Close \/ KeepRest
    \/ /\ pc = "parse" /\ nread > HeadLen
       /\ \E h \in HeaderAt(buf) :
             \/ UnknownSender(h)
             \/ \E used \in 0 .. h.sub : ParseMsg(h, used) \/ RunOver(h, used)

Next == \/ \E fd \in Fds, h \in Heads : Send(fd, h)
        \/ \E fd \in Fds : Hangup(fd)
        \/ ReadLoop

Spec == Init /\ [][Next]_vars
FairSpec == Spec /\ WF_vars(ReadLoop)

(*------------------------------- properties -------------------------------*)
TypeOK ==
    /\ \A fd \in Fds : Len(stream[fd]) <= MaxStream[fd]
    /\ hung \subseteq Fds /\ cut \subseteq Fds
    /\ pc \in {"wait", "read", "parse", "over"} /\ (pc = "wait" <=> fd_now = 0)
    /\ {buf_index, nread, read_index, Len(buf)} \subseteq 0 .. MaxBuf
    /\ pc # "parse" => Len(buf) = buf_index /\ nread = 0 /\ read_index = 0

(* The room left in the buffer is never 0 when the loop reads, whatever is  *)
(* left over from earlier reads of whatever sockets (:943-952): read() with *)
(* length 0 would return 0 and the loop would take a client that is there   *)
(* for one that has closed (:971).  cut holds such clients.                 *)
NobodyCut == cut = {}

(* While a chunk is parsed, what the loop still has to look at lies inside  *)
(* what the buffer holds, and so does every payload handed to parse_msg,    *)
(* except one whose length, read from bytes that are no header, wraps when  *)
(* the header's is added (:914).                                            *)
ParseStaysInside ==
    pc = "parse" => /\ read_index + nread <= Len(buf)
                    /\ buf_index + read_index + nread = Len(buf)
                    /\ handled # <<>> =>
                          LET p == handled[1]
                          IN  Wraps(p.head) \/ Len(p.body) = p.head.sub

(* The packages that begin in a string, in order: the heads of the units    *)
(* that are the first of theirs.                                            *)
Starts(units) == {i \in DOMAIN units : units[i].i = 1}
Place(units, i) == Cardinality({j \in Starts(units) : j <= i})
Firsts(units) ==
    [k \in 1 .. Cardinality(Starts(units)) |->
         units[CHOOSE i \in Starts(units) : Place(units, i) = k].head]

(* The packages of a socket that are under way: in the rest of a tidy chunk *)
(* and in the stream.                                                       *)
Pending == [fd \in Fds |->
    Firsts((IF pc = "parse" /\ tidy /\ fd = fd_now
            THEN SubSeq(buf, read_index + 1, read_index + nread) ELSE <<>>) \o stream[fd])]
HandledHead == [k \in DOMAIN handled |-> [fd |-> handled[k].fd, head |-> handled[k].head]]

(* The read loop keeps the promise of Delivery: packages read as whole      *)
(* packages of one kind into an empty buffer are handed to parse_msg one by *)
(* one, in order and for their socket, whatever came before.                *)
D == INSTANCE Delivery WITH Packages <- Headers, pending <- Pending,
                            loose <- ~ tidy, handled <- HandledHead
ImplementsDelivery == D!Spec

(* When the clients fall silent the loop empties every stream: no leftover  *)
(* in the buffer makes it read nothing or turn in circles (:891-976), only  *)
(* a length that wraps can end it.                                          *)
Silent == \A fd \in Fds : stream'[fd] = stream[fd] \/ Len(stream'[fd]) < Len(stream[fd])
StreamsDrain ==
    <>[][Silent /\ hung' \subseteq hung]_vars =>
        <>[](pc = "over" \/ \A fd \in Fds : stream[fd] = <<>>)

(* Claim of the protocol description: a package is guid, type, length and   *)
(* data of that length, so what is handled for a socket is a package that   *)
(* its client sent.                                                         *)
HandledAsSent ==
    handled # <<>> => LET p == handled[1]
                      IN  p.head.from = GuidOf[p.fd] /\ p.body = Payload(p.head)

=============================================================================
