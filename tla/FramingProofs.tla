---------------------------- MODULE FramingProofs ----------------------------
(***************************************************************************)
(* The read loop, for any number of sockets, any requests and any size of  *)
(* header and buffer: its indices stay within the buffer (TypeOK,          *)
(* NobodyCut, ParseStaysInside), and it implements Delivery.  The          *)
(* refinement needs what Firsts makes of a concatenation, and that what    *)
(* is under way is packages one behind the other (ChunkInv).               *)
(***************************************************************************)
EXTENDS Framing, FiniteSetTheorems, FunctionTheorems, SequenceTheorems,
        WellFoundedInduction, TLAPS

Units == [head : Heads, i : Nat]

(* What is not in the properties and needed to prove them: that buf and the *)
(* streams hold units, and that a buffer that is full is given up before    *)
(* the next read (buf_index < MaxBuf).                                      *)
Typed ==
    /\ stream \in [Fds -> Seq(Units)] /\ buf \in Seq(Units)
    /\ buf_index \in Nat /\ nread \in Nat /\ read_index \in Nat
    /\ fd_now \in Fds \cup {0} /\ cut = {}

Indices ==
    /\ buf_index < MaxBuf /\ Len(buf) <= MaxBuf
    /\ pc = "parse" => buf_index + read_index + nread = Len(buf)
    /\ pc # "parse" => handled = <<>>

Bodies ==
    handled # <<>> => Wraps(handled[1].head) \/ Len(handled[1].body) = handled[1].head.sub

IInv == TypeOK /\ Typed /\ Indices /\ (pc = "parse" => Bodies)

LEMMA StreamCut ==
    ASSUME Typed, NEW fd \in Fds, NEW rest \in Seq(Units),
           \A g \in Fds : Len(stream[g]) <= MaxStream[g], Len(rest) <= Len(stream[fd])
    PROVE  LET cutoff == [stream EXCEPT ![fd] = rest]
           IN  cutoff \in [Fds -> Seq(Units)] /\ \A g \in Fds : Len(cutoff[g]) <= MaxStream[g]
  <1> DEFINE cutoff == [stream EXCEPT ![fd] = rest]
  <1> HIDE DEF Units
  <1>1. cutoff \in [Fds -> Seq(Units)]
    BY DEF Typed
  <1>2. ASSUME NEW g \in Fds PROVE Len(cutoff[g]) <= MaxStream[g]
    <2>1. stream[fd] \in Seq(Units) /\ MaxStream[g] \in Nat
      BY FramingAssumption DEF Typed
    <2>2. Len(rest) \in Nat /\ Len(stream[fd]) \in Nat
      BY <2>1
    <2>3. CASE g = fd
      BY <2>1, <2>2, <2>3 DEF Typed
    <2>4. CASE g # fd
      BY <2>4 DEF Typed
    <2> QED
      BY <2>3, <2>4
  <1> QED
    BY <1>1, <1>2

LEMMA ModSmall == ASSUME NEW a \in Nat, NEW b \in Nat, a < b PROVE a % b = a
  OBVIOUS

LEMMA SizeNat ==
    \A h \in Heads : /\ h.sub \in Nat /\ Size(h) \in Nat
                     /\ Size(h) = HeadLen + h.sub /\ Size(h) >= HeadLen
  <1> SUFFICES ASSUME NEW h \in Heads
               PROVE  /\ h.sub \in Nat /\ Size(h) \in Nat
                      /\ Size(h) = HeadLen + h.sub /\ Size(h) >= HeadLen
    OBVIOUS
  <1>1. h.sub \in Nat /\ HeadLen \in Nat /\ HeadLen + h.sub < UintMod /\ UintMod \in Nat
    BY FramingAssumption DEF Heads
  <1>2. Size(h) = HeadLen + h.sub
    BY <1>1, ModSmall DEF Size
  <1> QED
    BY <1>1, <1>2

(* The headers that clients write are headers like others.                  *)
LEMMA HeadersRead ==
    /\ Heads \subseteq Headers
    /\ HeaderAt(buf) \subseteq Headers
  <1>1. ASSUME NEW h \in Heads PROVE h \in Headers
    <2>1. PICK fd \in Fds, k \in Kinds : h = [from |-> GuidOf[fd], type |-> k.type, sub |-> k.sub]
      BY DEF Heads
    <2>2. k.sub \in 0 .. UintMod - 1
      BY FramingAssumption
    <2> QED
      BY <2>1, <2>2 DEF Headers
  <1> QED
    BY <1>1 DEF HeaderAt

LEMMA PackageUnits == \A h \in Heads : Package(h) \in Seq(Units) /\ Len(Package(h)) = Size(h)
  <1>1. TAKE h \in Heads
  <1>2. Size(h) \in Nat
    BY SizeNat
  <1>3. \A i \in 1 .. Size(h) : Unit(h, i) \in Units
    BY <1>2 DEF Unit, Units
  <1> QED
    BY <1>2, <1>3 DEF Package

LEMMA FrameInit == Init => IInv
  BY FramingAssumption DEF Init, IInv, TypeOK, Typed, Indices, Bodies

LEMMA SendKeeps == ASSUME IInv, NEW fd \in Fds, NEW h \in Heads, Send(fd, h) PROVE IInv'
  <1>1. /\ Len(stream[fd]) \in Nat
        /\ stream[fd] \o Package(h) \in Seq(Units)
        /\ Len(stream[fd] \o Package(h)) = Len(stream[fd]) + Size(h)
    <2>1. stream[fd] \in Seq(Units)
      BY DEF IInv, Typed
    <2>2. Package(h) \in Seq(Units) /\ Len(Package(h)) = Size(h)
      BY PackageUnits
    <2> HIDE DEF Units
    <2> QED
      BY <2>1, <2>2
  <1>2. stream' \in [Fds -> Seq(Units)] /\ \A g \in Fds : Len(stream'[g]) <= MaxStream[g]
    BY <1>1 DEF IInv, Typed, TypeOK, Send
  <1> QED
    BY <1>2 DEF IInv, TypeOK, Typed, Indices, Bodies, Send

LEMMA HangupKeeps == ASSUME IInv, NEW fd \in Fds, Hangup(fd) PROVE IInv'
  BY DEF IInv, TypeOK, Typed, Indices, Bodies, Hangup

LEMMA EventKeeps == ASSUME IInv, NEW fd \in Fds, Event(fd) PROVE IInv'
  BY FramingAssumption DEF IInv, TypeOK, Typed, Indices, Bodies, Event

LEMMA AgainKeeps == ASSUME IInv, Again PROVE IInv'
  BY DEF IInv, TypeOK, Typed, Indices, Bodies, Again

LEMMA CloseKeeps == ASSUME IInv, Close PROVE IInv'
  <1>1. fd_now \in Fds /\ fd_now \in hung
    BY DEF IInv, TypeOK, Typed, Indices, Close
  <1>2. cut' = cut /\ hung' \subseteq Fds
    BY <1>1 DEF IInv, TypeOK, Close
  <1>3. stream' \in [Fds -> Seq(Units)] /\ \A g \in Fds : Len(stream'[g]) <= MaxStream[g]
    <2>1. <<>> \in Seq(Units) /\ Len(<<>>) = 0 /\ stream[fd_now] \in Seq(Units)
      BY <1>1 DEF IInv, Typed
    <2>2. Len(<<>>) <= Len(stream[fd_now])
      BY <2>1
    <2>3. stream' = [stream EXCEPT ![fd_now] = <<>>]
      BY DEF Close
    <2> QED
      BY <1>1, <2>1, <2>2, <2>3, StreamCut DEF IInv, TypeOK
  <1> QED
    BY <1>2, <1>3 DEF IInv, TypeOK, Typed, Indices, Bodies, Close

LEMMA ReadKeeps == ASSUME IInv, NEW n \in 1 .. MaxBuf, Read(n) PROVE IInv'
  <1>1. fd_now \in Fds /\ stream[fd_now] \in Seq(Units) /\ n \in Nat /\ n <= Len(stream[fd_now])
    BY FramingAssumption DEF IInv, TypeOK, Typed, Read
  <1> DEFINE chunk == SubSeq(stream[fd_now], 1, n)
             front == SubSeq(buf, 1, buf_index)
             rest  == SubSeq(stream[fd_now], n + 1, Len(stream[fd_now]))
  <1>2. chunk \in Seq(Units) /\ Len(chunk) = n
    BY <1>1
  <1>3. front \in Seq(Units) /\ Len(front) = buf_index
    BY DEF IInv, TypeOK, Typed, Read
  <1>4. rest \in Seq(Units) /\ Len(rest) = Len(stream[fd_now]) - n
    BY <1>1
  <1>5. buf' = front \o chunk /\ stream' = [stream EXCEPT ![fd_now] = rest]
    BY DEF Read
  <1> HIDE DEF chunk, front, rest, Units
  <1>6. buf' \in Seq(Units) /\ Len(buf') = buf_index + n
    <2>1. front \o chunk \in Seq(Units) /\ Len(front \o chunk) = Len(front) + Len(chunk)
      BY <1>2, <1>3
    <2> QED
      BY <2>1, <1>2, <1>3, <1>5
  <1>7. stream' \in [Fds -> Seq(Units)] /\ \A g \in Fds : Len(stream'[g]) <= MaxStream[g]
    BY <1>1, <1>4, <1>5, StreamCut DEF IInv, TypeOK
  <1>8. handled = <<>>
    BY DEF IInv, Indices, Read
  <1> QED
    BY <1>1, <1>6, <1>7, <1>8, FramingAssumption DEF IInv, TypeOK, Typed, Indices, Bodies, Read


LEMMA RestartKeeps ==
    ASSUME IInv, pc = "parse", Restart, handled' = <<>>,
           UNCHANGED <<stream, hung, cut, fd_now, tidy>>
    PROVE  IInv'
  BY FramingAssumption DEF IInv, TypeOK, Typed, Indices, Bodies, Restart

LEMMA UnknownSenderKeeps ==
    ASSUME IInv, NEW h \in HeaderAt(buf), UnknownSender(h) PROVE IInv'
  BY RestartKeeps DEF UnknownSender

LEMMA RunOverKeeps ==
    ASSUME IInv, NEW h \in HeaderAt(buf), NEW used \in 0 .. h.sub, RunOver(h, used) PROVE IInv'
  <1>1. CASE Restart
    BY <1>1, RestartKeeps DEF RunOver, FitsIn
  <1>2. CASE pc' = "over" /\ buf' = <<>> /\ nread' = 0 /\ read_index' = 0 /\ buf_index' = 0
    BY <1>2, FramingAssumption DEF RunOver, FitsIn, IInv, TypeOK, Typed, Indices, Bodies
  <1> QED
    BY <1>1, <1>2 DEF RunOver

LEMMA ParseMsgKeeps ==
    ASSUME IInv, NEW h \in HeaderAt(buf), NEW used \in 0 .. h.sub, ParseMsg(h, used)
    PROVE  IInv'
  <1> DEFINE body == Held(read_index + HeadLen + 1, read_index + HeadLen + h.sub)
  <1>1. used \in Nat /\ used <= h.sub /\ h.sub \in Nat /\ h.sub < UintMod
        /\ HeadLen \in Nat /\ UintMod \in Nat
    BY HeadersRead, FramingAssumption DEF Headers
  <1>2. ~ Wraps(h) => Len(body) = h.sub
    <2> SUFFICES ASSUME ~ Wraps(h) PROVE Len(body) = h.sub
      OBVIOUS
    <2>1. /\ buf \in Seq(Units) /\ read_index \in Nat /\ nread \in Nat /\ buf_index \in Nat
          /\ buf_index + read_index + nread = Len(buf) /\ Size(h) <= nread
      BY DEF IInv, Typed, Indices, ParseMsg, FitsIn
    <2>2. HeadLen + h.sub < UintMod
      BY <1>1 DEF Wraps
    <2>3. Size(h) = HeadLen + h.sub
      BY <1>1, <2>2, ModSmall DEF Size
    <2>4. /\ ~ (read_index + HeadLen + h.sub > Len(buf))
          /\ read_index + HeadLen + h.sub <= Len(buf)
      BY <1>1, <2>1, <2>3
    <2>5. body = SubSeq(buf, read_index + HeadLen + 1, read_index + HeadLen + h.sub)
      BY <2>4 DEF Held
    <2> HIDE DEF body
    <2>6. Len(SubSeq(buf, read_index + HeadLen + 1, read_index + HeadLen + h.sub)) = h.sub
      BY <1>1, <2>1, <2>4
    <2> QED
      BY <2>5, <2>6
  <1>3. CASE used = 0
    BY <1>3, RestartKeeps DEF ParseMsg, FitsIn
  <1>4. CASE used # 0
    <2>1. /\ nread' = nread - (HeadLen + used) /\ read_index' = read_index + HeadLen + used
          /\ handled' = <<[fd |-> fd_now, head |-> h, body |-> body]>>
          /\ UNCHANGED <<buf, buf_index, pc, stream, hung, cut, fd_now, tidy>>
      BY <1>4 DEF ParseMsg, Consumed
    <2> HIDE DEF body
    <2>2. Bodies'
      BY <1>2, <2>1 DEF Bodies
    <2>3. /\ pc = "parse" /\ MaxBuf \in Nat /\ nread \in Nat /\ read_index \in Nat
          /\ buf_index \in Nat /\ Len(buf) \in Nat
          /\ buf_index + read_index + nread = Len(buf) /\ Len(buf) <= MaxBuf
          /\ HeadLen + used <= nread
      BY FramingAssumption DEF ParseMsg, FitsIn, IInv, Typed, Indices
    <2>4. /\ nread' \in 0 .. MaxBuf /\ read_index' \in 0 .. MaxBuf
          /\ buf_index + read_index' + nread' = Len(buf)
      <3>1. HeadLen + used <= nread
        BY <1>1, <2>3
      <3>2. nread' = nread - (HeadLen + used) /\ read_index' = read_index + (HeadLen + used)
        BY <1>1, <2>1, <2>3
      <3> QED
        BY <1>1, <2>3, <3>1, <3>2
    <2>5. TypeOK'
      BY <2>1, <2>3, <2>4 DEF IInv, TypeOK
    <2>6. Typed' /\ Indices'
      BY <2>1, <2>3, <2>4 DEF IInv, Typed, Indices
    <2> QED
      BY <2>2, <2>5, <2>6 DEF IInv
  <1> QED
    BY <1>3, <1>4

LEMMA KeepRestKeeps == ASSUME IInv, KeepRest PROVE IInv'
  <1> DEFINE start == IF buf_index < read_index THEN 0 ELSE buf_index
             kept  == NextIndex(start + nread)
  <1>1. /\ buf \in Seq(Units) /\ read_index \in Nat /\ nread \in Nat /\ buf_index \in Nat
        /\ buf_index + read_index + nread = Len(buf) /\ Len(buf) <= MaxBuf /\ MaxBuf \in Nat \ {0}
    BY FramingAssumption DEF IInv, Typed, Indices, KeepRest
  <1>2. kept \in Nat /\ kept < MaxBuf /\ kept <= Len(buf)
    BY <1>1 DEF NextIndex
  <1>3. buf' = [i \in 1 .. kept |-> buf[IF i <= nread THEN read_index + i ELSE i]]
        /\ buf_index' = kept
    BY DEF KeepRest
  <1> HIDE DEF kept
  <1>4. ASSUME NEW i \in 1 .. kept PROVE buf[IF i <= nread THEN read_index + i ELSE i] \in Units
    <2>1. (IF i <= nread THEN read_index + i ELSE i) \in 1 .. Len(buf)
      BY <1>1, <1>2
    <2> HIDE DEF Units
    <2> QED
      BY <1>1, <2>1
  <1>5. buf' \in Seq(Units) /\ Len(buf') = kept
    <2> HIDE DEF Units
    <2> QED
      BY <1>2, <1>3, <1>4
  <1> QED
    BY <1>1, <1>2, <1>3, <1>5 DEF IInv, TypeOK, Typed, Indices, Bodies, KeepRest

LEMMA FrameStep == IInv /\ [Next]_vars => IInv'
  <1> SUFFICES ASSUME IInv, [Next]_vars PROVE IInv'
    OBVIOUS
  <1>1. ASSUME NEW fd \in Fds, NEW h \in Heads, Send(fd, h) PROVE IInv'
    BY <1>1, SendKeeps
  <1>2. ASSUME NEW fd \in Fds, Hangup(fd) PROVE IInv'
    BY <1>2, HangupKeeps
  <1>3. ASSUME NEW fd \in Fds, Event(fd) PROVE IInv'
    BY <1>3, EventKeeps
  <1>4. ASSUME NEW n \in 1 .. MaxBuf, Read(n) PROVE IInv'
    BY <1>4, ReadKeeps
  <1>5. CASE Again
    BY <1>5, AgainKeeps
  <1>6. CASE Close
    BY <1>6, CloseKeeps
  <1>7. CASE KeepRest
    BY <1>7, KeepRestKeeps
  <1>8. ASSUME NEW h \in HeaderAt(buf), UnknownSender(h) PROVE IInv'
    BY <1>8, UnknownSenderKeeps
  <1>9. ASSUME NEW h \in HeaderAt(buf), NEW used \in 0 .. h.sub,
               ParseMsg(h, used) \/ RunOver(h, used)
        PROVE  IInv'
    BY <1>9, ParseMsgKeeps, RunOverKeeps
  <1>10. CASE UNCHANGED vars
    BY <1>10 DEF vars, IInv, TypeOK, Typed, Indices, Bodies
  <1> QED
    BY <1>1, <1>2, <1>3, <1>4, <1>5, <1>6, <1>7, <1>8, <1>9, <1>10 DEF Next, ReadLoop

LEMMA FrameInvariant == Spec => []IInv
  BY FrameInit, FrameStep, PTL DEF Spec

(* The indices of the read loop and what the streams hold keep their types  *)
(* and bounds, and outside the parsing loop exactly buf_index units of buf  *)
(* are in use (read_thread.cpp:897-952).                                    *)
THEOREM FramingType == Spec => []TypeOK
  BY FrameInvariant, PTL DEF IInv

(* However packages are cut into reads and whoever sent them, the buffer    *)
(* always has room for the next read, so no client is closed while it is    *)
(* there (read_thread.cpp:897, :947-951, :971).                             *)
THEOREM NobodyIsCut == Spec => []NobodyCut
  <1>1. IInv => NobodyCut
    BY DEF IInv, Typed, NobodyCut
  <1> QED
    BY <1>1, FrameInvariant, PTL

(* The unsigned arithmetic on nread and read_index never leaves the bytes   *)
(* that buf holds, and every payload handed to parse_msg is as long as its  *)
(* header says, unless that length wraps when the header's is added, as     *)
(* numbers read from bytes that are no header can (read_thread.cpp:910-926).*)
THEOREM ParsingStaysInside == Spec => []ParseStaysInside
  <1>1. IInv => ParseStaysInside
    <2> SUFFICES ASSUME IInv, pc = "parse"
                 PROVE  /\ read_index + nread <= Len(buf)
                        /\ buf_index + read_index + nread = Len(buf)
                        /\ Bodies
      BY DEF ParseStaysInside, Bodies
    <2> QED
      BY DEF IInv, Typed, Indices
  <1> QED
    BY <1>1, FrameInvariant, PTL

-----------------------------------------------------------------------------
(* Counting. *)

(* A set of naturals that is not empty has a least element.                 *)
LEMMA LeastExists ==
    ASSUME NEW S, S \subseteq Nat, S # {}
    PROVE  \E m \in S : \A j \in S : m <= j
  <1> DEFINE below(i) == {j \in S : j < i}
             T == {below(i) : i \in S}
  <1>1. T \subseteq FiniteSubsetsOf(S) /\ T # {}
    <2>1. ASSUME NEW i \in S PROVE below(i) \in SUBSET S /\ IsFiniteSet(below(i))
      <3>1. \A j \in below(i) : j \in 0 .. i
        OBVIOUS
      <3>2. IsFiniteSet(0 .. i)
        BY FS_Interval
      <3>3. below(i) \in SUBSET S
        OBVIOUS
      <3> HIDE DEF below
      <3> QED
        BY <3>1, <3>2, <3>3, FS_Subset
    <2> QED
      BY <2>1 DEF FiniteSubsetsOf
  <1>2. PICK t \in T : \A y \in T : ~ (<<y, t>> \in StrictSubsetOrdering(S))
    <2>1. IsWellFoundedOn(StrictSubsetOrdering(S), FiniteSubsetsOf(S))
      BY FS_StrictSubsetOrderingWellFounded
    <2> HIDE DEF T
    <2> QED
      BY <1>1, <2>1, WFMin, Zenon
  <1>3. PICK m \in S : t = below(m)
    BY <1>2
  <1>4. below(m) = {}
    <2> SUFFICES ASSUME NEW k \in below(m) PROVE FALSE
      OBVIOUS
    <2>1. k \in S /\ k < m /\ k \in Nat /\ m \in Nat
      OBVIOUS
    <2>2. below(k) \subseteq below(m)
      <3> SUFFICES ASSUME NEW x \in S, x < k PROVE x < m
        OBVIOUS
      <3> QED
        BY <2>1
    <2>3. k \notin below(k)
      BY <2>1
    <2>4. <<below(k), t>> \in StrictSubsetOrdering(S)
      BY <2>1, <2>2, <2>3, <1>3 DEF StrictSubsetOrdering
    <2> QED
      BY <2>1, <2>4, <1>2
  <1> QED
    BY <1>4

(* What holds of 1 and passes on to the next number holds up to n.          *)
LEMMA StepByStep ==
    ASSUME NEW n \in Nat, NEW S, n >= 1 => 1 \in S,
           \A j \in 1 .. n : j \in S /\ j < n => j + 1 \in S
    PROVE  \A j \in 1 .. n : j \in S
  <1> SUFFICES ASSUME NEW k \in 1 .. n, k \notin S PROVE FALSE
    OBVIOUS
  <1> DEFINE bad == {j \in 1 .. n : j \notin S}
  <1>1. PICK m \in bad : \A j \in bad : m <= j
    <2>1. bad \subseteq Nat /\ bad # {}
      OBVIOUS
    <2> HIDE DEF bad
    <2> QED
      BY <2>1, LeastExists
  <1>2. m # 1 /\ m - 1 \in 1 .. n /\ m - 1 \in S
    <2>1. m # 1
      OBVIOUS
    <2>2. m - 1 \in 1 .. n /\ m - 1 < m
      BY <2>1
    <2>3. m - 1 \notin bad
      BY <1>1, <2>2
    <2> QED
      BY <2>1, <2>2, <2>3
  <1> QED
    BY <1>2

-----------------------------------------------------------------------------
(* The packages that begin in a string. *)

LEMMA StartsFinite ==
    ASSUME NEW s \in Seq(Units)
    PROVE  /\ Starts(s) \subseteq 1 .. Len(s) /\ IsFiniteSet(Starts(s))
           /\ Cardinality(Starts(s)) \in Nat
  <1>1. Starts(s) \subseteq 1 .. Len(s) /\ Len(s) \in Nat
    BY LenProperties DEF Starts
  <1>2. IsFiniteSet(1 .. Len(s))
    BY <1>1, FS_Interval
  <1> QED
    BY <1>1, <1>2, FS_Subset, FS_CardinalityType

LEMMA PlaceRange ==
    ASSUME NEW s \in Seq(Units), NEW i \in Starts(s)
    PROVE  Place(s, i) \in 1 .. Cardinality(Starts(s))
  <1> DEFINE upto == {j \in Starts(s) : j <= i}
  <1>1. upto \subseteq Starts(s) /\ i \in upto
    BY StartsFinite
  <1>2. /\ IsFiniteSet(upto) /\ Cardinality(upto) <= Cardinality(Starts(s))
        /\ Cardinality(upto) \in Nat /\ Cardinality(upto) # 0
    BY <1>1, StartsFinite, FS_Subset, FS_CardinalityType, FS_EmptySet
  <1> QED
    BY <1>2, StartsFinite DEF Place

LEMMA PlaceGrows ==
    ASSUME NEW s \in Seq(Units), NEW i \in Starts(s), NEW j \in Starts(s), i < j
    PROVE  Place(s, i) < Place(s, j)
  <1> DEFINE upto(k) == {x \in Starts(s) : x <= k}
  <1>0. i \in Nat /\ j \in Nat /\ Starts(s) \subseteq Nat
    BY StartsFinite
  <1>1. upto(i) \subseteq upto(j) /\ upto(i) # upto(j)
    <2>1. upto(i) \subseteq upto(j)
      <3> SUFFICES ASSUME NEW x \in Starts(s), x <= i PROVE x <= j
        OBVIOUS
      <3>1. x \in Nat
        BY <1>0
      <3> QED
        BY <1>0, <3>1
    <2>2. j \in upto(j) /\ j \notin upto(i)
      BY <1>0
    <2> QED
      BY <2>1, <2>2
  <1>2. IsFiniteSet(upto(i)) /\ IsFiniteSet(upto(j))
    BY StartsFinite, FS_Subset
  <1>3. Cardinality(upto(i)) \in Nat /\ Cardinality(upto(j)) \in Nat
    BY <1>2, FS_CardinalityType
  <1>4. Cardinality(upto(i)) <= Cardinality(upto(j)) /\ Cardinality(upto(i)) # Cardinality(upto(j))
    <2> HIDE DEF upto
    <2> QED
      BY <1>1, <1>2, FS_Subset
  <1> QED
    BY <1>3, <1>4 DEF Place

LEMMA PlaceOnto ==
    ASSUME NEW s \in Seq(Units), NEW k \in 1 .. Cardinality(Starts(s))
    PROVE  \E i \in Starts(s) : Place(s, i) = k
  <1> DEFINE S == Starts(s)
             R == 1 .. Cardinality(S)
             f == [i \in S |-> Place(s, i)]
  <1>1. IsFiniteSet(S) /\ Cardinality(S) \in Nat
    BY StartsFinite
  <1>2. IsFiniteSet(R) /\ Cardinality(R) = Cardinality(S)
    BY <1>1, FS_Interval
  <1>3. f \in [S -> R]
    BY PlaceRange
  <1>4. \A a, b \in S : f[a] = f[b] => a = b
    <2> SUFFICES ASSUME NEW a \in S, NEW b \in S, Place(s, a) = Place(s, b) PROVE a = b
      OBVIOUS
    <2>1. a \in Nat /\ b \in Nat /\ Place(s, a) \in Nat
      BY StartsFinite, PlaceRange
    <2> QED
      BY <2>1, PlaceGrows
  <1> HIDE DEF S, R, f
  <1>5. f \in Injection(S, R)
    BY <1>3, <1>4, Fun_IsInj, Zenon
  <1>6. f \in Surjection(S, R)
    BY <1>1, <1>2, <1>5, FS_Injection
  <1>7. \E i \in S : f[i] = k
    BY <1>6 DEF Surjection, R, S
  <1> QED
    BY <1>7 DEF f, S

(* The package at a place is the one that begins there.                     *)
LEMMA FirstsAt ==
    ASSUME NEW s \in Seq(Units), NEW i \in Starts(s)
    PROVE  /\ Place(s, i) \in 1 .. Cardinality(Starts(s))
           /\ Firsts(s)[Place(s, i)] = s[i].head
  <1> DEFINE c == CHOOSE j \in Starts(s) : Place(s, j) = Place(s, i)
  <1>1. c \in Starts(s) /\ Place(s, c) = Place(s, i)
    OBVIOUS
  <1>2. c \in Nat /\ i \in Nat /\ Place(s, i) \in Nat
    BY <1>1, StartsFinite, PlaceRange
  <1>3. c = i
    <2> HIDE DEF c
    <2> QED
      BY <1>1, <1>2, PlaceGrows
  <1> QED
    BY <1>3, PlaceRange DEF Firsts

LEMMA FirstsSeq ==
    ASSUME NEW s \in Seq(Units)
    PROVE  Firsts(s) \in Seq(Heads) /\ Len(Firsts(s)) = Cardinality(Starts(s))
  <1>1. ASSUME NEW k \in 1 .. Cardinality(Starts(s)) PROVE Firsts(s)[k] \in Heads
    <2>1. PICK i \in Starts(s) : Place(s, i) = k
      BY PlaceOnto
    <2>2. Firsts(s)[k] = s[i].head
      BY <2>1, FirstsAt
    <2>3. s[i] \in Units
      BY StartsFinite, ElementOfSeq
    <2> QED
      BY <2>2, <2>3 DEF Units
  <1>2. Cardinality(Starts(s)) \in Nat
    BY StartsFinite
  <1>3. Firsts(s) \in [1 .. Cardinality(Starts(s)) -> Heads]
    BY <1>1 DEF Firsts
  <1> QED
    BY <1>2, <1>3

(* Moving a set of numbers does not change its size.                        *)
LEMMA ShiftedSize ==
    ASSUME NEW T, T \subseteq Nat, IsFiniteSet(T), NEW n \in Nat
    PROVE  LET moved == {n + j : j \in T}
           IN  IsFiniteSet(moved) /\ Cardinality(moved) = Cardinality(T)
  <1> DEFINE moved == {n + j : j \in T}
             f == [j \in T |-> n + j]
  <1>1. f \in [T -> moved] /\ \A y \in moved : \E j \in T : f[j] = y
    OBVIOUS
  <1>2. \A a, b \in T : f[a] = f[b] => a = b
    OBVIOUS
  <1> HIDE DEF f, moved
  <1>3. f \in Bijection(T, moved)
    BY <1>1, <1>2, Fun_IsBij
  <1>4. ExistsBijection(T, moved)
    BY <1>3 DEF ExistsBijection
  <1>5. IsFiniteSet(moved) /\ Cardinality(moved) = Cardinality(T)
    BY <1>4, FS_Bijection
  <1> QED
    BY <1>5 DEF moved

LEMMA DisjointSize ==
    ASSUME NEW S, NEW T, IsFiniteSet(S), IsFiniteSet(T), S \cap T = {}
    PROVE  /\ IsFiniteSet(S \cup T)
           /\ Cardinality(S \cup T) = Cardinality(S) + Cardinality(T)
  <1>1. Cardinality(S) \in Nat /\ Cardinality(T) \in Nat
    BY FS_CardinalityType
  <1>0. Cardinality(S \cap T) = 0
    BY FS_EmptySet
  <1>2. /\ IsFiniteSet(S \cup T)
        /\ Cardinality(S \cup T) = Cardinality(S) + Cardinality(T) - Cardinality(S \cap T)
    BY FS_Union
  <1> QED
    BY <1>0, <1>1, <1>2

LEMMA ConcatAt ==
    ASSUME NEW S, NEW s \in Seq(S), NEW t \in Seq(S), NEW j \in 1 .. Len(t)
    PROVE  (s \o t)[Len(s) + j] = t[j]
  <1>1. Len(s) \in Nat /\ Len(t) \in Nat
    OBVIOUS
  <1>2. /\ Len(s) + j \in 1 .. Len(s) + Len(t) /\ ~ (Len(s) + j <= Len(s))
        /\ Len(s) + j - Len(s) = j
    BY <1>1
  <1> QED
    BY <1>2

LEMMA StartsOfConcat ==
    ASSUME NEW x \in Seq(Units), NEW y \in Seq(Units)
    PROVE  /\ Starts(x \o y) = Starts(x) \cup {Len(x) + j : j \in Starts(y)}
           /\ Cardinality(Starts(x \o y)) = Cardinality(Starts(x)) + Cardinality(Starts(y))
           /\ \A i \in Starts(x) : Place(x \o y, i) = Place(x, i)
           /\ \A j \in Starts(y) :
                  Place(x \o y, Len(x) + j) = Cardinality(Starts(x)) + Place(y, j)
  <1> DEFINE z == x \o y
             moved(T) == {Len(x) + j : j \in T}
  <1>1. /\ z \in Seq(Units) /\ Len(z) = Len(x) + Len(y) /\ Len(x) \in Nat /\ Len(y) \in Nat
        /\ \A i \in 1 .. Len(z) : z[i] = IF i <= Len(x) THEN x[i] ELSE y[i - Len(x)]
    BY ConcatProperties, LenProperties
  <1>2. /\ Starts(x) = {i \in 1 .. Len(x) : x[i].i = 1}
        /\ Starts(y) = {i \in 1 .. Len(y) : y[i].i = 1}
        /\ Starts(z) = {i \in 1 .. Len(z) : z[i].i = 1}
    BY <1>1, LenProperties DEF Starts
  <1> HIDE DEF z
  <1>3. Starts(z) = Starts(x) \cup moved(Starts(y))
    <2>1. ASSUME NEW i \in Starts(x) PROVE i \in Starts(z)
      BY <1>1, <1>2
    <2>2. ASSUME NEW j \in Starts(y) PROVE Len(x) + j \in Starts(z)
      <3>1. Len(x) + j \in 1 .. Len(z) /\ ~ (Len(x) + j <= Len(x)) /\ Len(x) + j - Len(x) = j
        BY <1>1, <1>2
      <3> QED
        BY <3>1, <1>1, <1>2
    <2>3. ASSUME NEW i \in Starts(z), i \notin Starts(x) PROVE i \in moved(Starts(y))
      <3>1. i \in 1 .. Len(z) /\ ~ (i <= Len(x))
        BY <2>3, <1>1, <1>2
      <3>2. i - Len(x) \in 1 .. Len(y) /\ i = Len(x) + (i - Len(x))
        BY <3>1, <1>1
      <3>3. i - Len(x) \in Starts(y)
        BY <3>1, <3>2, <1>1, <1>2
      <3> QED
        BY <3>2, <3>3
    <2> QED
      BY <2>1, <2>2, <2>3
  <1>4. Starts(x) \cap moved(Starts(y)) = {}
    <2> SUFFICES ASSUME NEW j \in Starts(y), Len(x) + j \in Starts(x) PROVE FALSE
      OBVIOUS
    <2>1. j \in Nat \ {0} /\ Len(x) + j <= Len(x)
      BY <1>1, <1>2
    <2> QED
      BY <1>1, <2>1
  <1>5. /\ IsFiniteSet(Starts(x)) /\ IsFiniteSet(Starts(y))
        /\ Starts(x) \subseteq Nat /\ Starts(y) \subseteq Nat
    BY StartsFinite
  <1>6. /\ IsFiniteSet(moved(Starts(y)))
        /\ Cardinality(moved(Starts(y))) = Cardinality(Starts(y))
    BY <1>1, <1>5, ShiftedSize
  <1>7. Cardinality(Starts(z)) = Cardinality(Starts(x)) + Cardinality(Starts(y))
    <2> HIDE DEF moved
    <2> QED
      BY <1>3, <1>4, <1>5, <1>6, DisjointSize
  <1>8. ASSUME NEW i \in Starts(x) PROVE Place(z, i) = Place(x, i)
    <2>1. {k \in Starts(z) : k <= i} = {k \in Starts(x) : k <= i}
      BY <1>1, <1>2, <1>3
    <2> QED
      BY <2>1 DEF Place
  <1>9. ASSUME NEW j \in Starts(y)
        PROVE  Place(z, Len(x) + j) = Cardinality(Starts(x)) + Place(y, j)
    <2> DEFINE upto == {k \in Starts(y) : k <= j}
    <2>1. {k \in Starts(z) : k <= Len(x) + j} = Starts(x) \cup moved(upto)
      BY <1>1, <1>2, <1>3
    <2>2. Starts(x) \cap moved(upto) = {}
      BY <1>4
    <2>3. IsFiniteSet(upto) /\ upto \subseteq Nat
      BY <1>5, FS_Subset
    <2>4. IsFiniteSet(moved(upto)) /\ Cardinality(moved(upto)) = Cardinality(upto)
      <3> HIDE DEF upto
      <3> QED
        BY <1>1, <2>3, ShiftedSize
    <2>5. Cardinality(Starts(x) \cup moved(upto)) = Cardinality(Starts(x)) + Cardinality(upto)
      <3> HIDE DEF upto, moved
      <3> QED
        BY <1>5, <2>2, <2>4, DisjointSize
    <2> QED
      BY <2>1, <2>5 DEF Place
  <1> QED
    BY <1>3, <1>7, <1>8, <1>9 DEF z

(* The packages of two strings, one behind the other.                       *)
LEMMA FirstsConcat ==
    ASSUME NEW x \in Seq(Units), NEW y \in Seq(Units)
    PROVE  Firsts(x \o y) = Firsts(x) \o Firsts(y)
  <1> DEFINE z == x \o y
             a == Cardinality(Starts(x))
             b == Cardinality(Starts(y))
  <1>1. /\ z \in Seq(Units) /\ Len(x) \in Nat /\ Len(y) \in Nat
        /\ \A i \in 1 .. Len(x) + Len(y) : z[i] = IF i <= Len(x) THEN x[i] ELSE y[i - Len(x)]
    BY ConcatProperties, LenProperties
  <1>2. /\ Starts(x) \subseteq 1 .. Len(x) /\ Starts(y) \subseteq 1 .. Len(y)
        /\ a \in Nat /\ b \in Nat
    BY StartsFinite
  <1>3. /\ Firsts(x) \in Seq(Heads) /\ Len(Firsts(x)) = a
        /\ Firsts(y) \in Seq(Heads) /\ Len(Firsts(y)) = b
    BY FirstsSeq
  <1>4. Firsts(z) \in Seq(Heads) /\ Len(Firsts(z)) = a + b
    BY <1>1, FirstsSeq, StartsOfConcat
  <1>5. /\ Firsts(x) \o Firsts(y) \in Seq(Heads) /\ Len(Firsts(x) \o Firsts(y)) = a + b
        /\ \A k \in 1 .. a + b : (Firsts(x) \o Firsts(y))[k] =
               IF k <= a THEN Firsts(x)[k] ELSE Firsts(y)[k - a]
    BY <1>3, ConcatProperties
  <1>6. ASSUME NEW i \in Starts(x)
        PROVE  Firsts(z)[Place(z, i)] = (Firsts(x) \o Firsts(y))[Place(z, i)]
    <2>1. Place(z, i) = Place(x, i) /\ i \in Starts(z)
      BY StartsOfConcat
    <2>2. Place(x, i) \in 1 .. a /\ Firsts(x)[Place(x, i)] = x[i].head
      BY FirstsAt
    <2>3. Firsts(z)[Place(z, i)] = z[i].head
      BY <1>1, <2>1, FirstsAt
    <2>4. z[i] = x[i]
      <3>1. i \in 1 .. Len(x) + Len(y) /\ i <= Len(x)
        BY <1>1, <1>2
      <3> HIDE DEF z
      <3> QED
        BY <1>1, <3>1
    <2> HIDE DEF a, b, z
    <2> QED
      BY <1>2, <1>5, <2>1, <2>2, <2>3, <2>4
  <1>7. ASSUME NEW j \in Starts(y)
        PROVE  Firsts(z)[Place(z, Len(x) + j)] =
                  (Firsts(x) \o Firsts(y))[Place(z, Len(x) + j)]
    <2>1. Place(z, Len(x) + j) = a + Place(y, j) /\ Len(x) + j \in Starts(z)
      BY StartsOfConcat
    <2>2. Place(y, j) \in 1 .. b /\ Firsts(y)[Place(y, j)] = y[j].head
      BY FirstsAt
    <2>3. z[Len(x) + j] = y[j]
      BY <1>2, ConcatAt
    <2>4. Firsts(z)[Place(z, Len(x) + j)] = z[Len(x) + j].head
      BY <1>1, <2>1, FirstsAt
    <2>5. /\ a + Place(y, j) \in 1 .. a + b /\ ~ (a + Place(y, j) <= a)
          /\ a + Place(y, j) - a = Place(y, j)
      BY <1>2, <2>2
    <2>6. (Firsts(x) \o Firsts(y))[a + Place(y, j)] = Firsts(y)[Place(y, j)]
      BY <1>3, <2>2, ConcatAt
    <2> HIDE DEF a, b, z
    <2> QED
      BY <2>1, <2>2, <2>3, <2>4, <2>6
  <1>8. ASSUME NEW k \in 1 .. a + b PROVE Firsts(z)[k] = (Firsts(x) \o Firsts(y))[k]
    <2>1. k \in 1 .. Cardinality(Starts(z))
      BY StartsOfConcat
    <2>2. PICK i \in Starts(z) : Place(z, i) = k
      BY <1>1, <2>1, PlaceOnto
    <2>3. i \in Starts(x) \/ \E j \in Starts(y) : i = Len(x) + j
      BY StartsOfConcat
    <2> HIDE DEF a, b, z
    <2> QED
      BY <1>6, <1>7, <2>2, <2>3
  <1> HIDE DEF z, a, b
  <1> QED
    BY <1>4, <1>5, <1>8, SeqEqual DEF z

-----------------------------------------------------------------------------
(* Streams are packages one behind the other. *)

(* No request is empty: each handler takes at least a guid or a phone.       *)
NoEmptyRequests == \A k \in Kinds : k.sub # 0

Follows(u, v) == IF u.i < Size(u.head) THEN v = Unit(u.head, u.i + 1) ELSE v.i = 1
Chained(s) == \A k \in 1 .. Len(s) : k < Len(s) => Follows(s[k], s[k + 1])
Ends(s) == s # <<>> => s[Len(s)].i = Size(s[Len(s)].head)

(* A tidy chunk, and what is left of it, begins with a package.             *)
TidyChunk ==
    /\ buf_index = 0 /\ Chained(buf) /\ Ends(buf)
    /\ \A k \in 1 .. Len(buf) : buf[k].head = buf[1].head
    /\ 1 <= Len(buf) /\ buf[1].i = 1
    /\ nread > 0 => buf[read_index + 1].i = 1

ChunkInv ==
    /\ \A fd \in Fds : Chained(stream[fd]) /\ Ends(stream[fd])
    /\ tidy \in BOOLEAN
    /\ pc = "parse" /\ tidy => TidyChunk

LEMMA UnitFields ==
    ASSUME NEW s \in Seq(Units), NEW k \in 1 .. Len(s)
    PROVE  s[k].head \in Heads /\ s[k].i \in Nat /\ s[k] = Unit(s[k].head, s[k].i)
  <1>1. s[k] \in Units
    BY ElementOfSeq
  <1> QED
    BY <1>1 DEF Units, Unit

(* Where a package begins in such a string, all of it follows.              *)
LEMMA ChainRun ==
    ASSUME NEW s \in Seq(Units), Chained(s), Ends(s), NEW h \in Heads,
           \A k \in 1 .. Len(s) : s[k].head = h,
           NEW p \in Nat, p + 1 <= Len(s), s[p + 1].i = 1, Size(h) >= 1
    PROVE  \A j \in 1 .. Size(h) : p + j <= Len(s) /\ s[p + j] = Unit(h, j)
  <1> DEFINE S == {j \in 1 .. Size(h) : p + j <= Len(s) /\ s[p + j] = Unit(h, j)}
  <1>0. Size(h) \in Nat /\ Len(s) \in Nat
    BY SizeNat
  <1>1. 1 \in S
    <2>1. p + 1 \in 1 .. Len(s)
      BY <1>0
    <2> QED
      BY <1>0, <2>1, UnitFields
  <1>2. ASSUME NEW j \in 1 .. Size(h), j \in S, j < Size(h) PROVE j + 1 \in S
    <2>1. p + j \in 1 .. Len(s) /\ s[p + j] = Unit(h, j)
      BY <1>0, <1>2
    <2>2. s[p + j].i = j /\ s[p + j].head = h
      BY <2>1 DEF Unit
    <2>3. p + j < Len(s)
      <3> SUFFICES ASSUME p + j = Len(s) PROVE FALSE
        BY <1>0, <2>1
      <3>1. s # <<>>
        BY <2>1
      <3> QED
        BY <3>1, <1>2, <1>0, <2>2 DEF Ends
    <2>4. Follows(s[p + j], s[(p + j) + 1])
      BY <2>1, <2>3 DEF Chained
    <2>5. s[(p + j) + 1] = Unit(h, j + 1)
      BY <1>2, <2>2, <2>4 DEF Follows
    <2>6. (p + j) + 1 = p + (j + 1) /\ p + (j + 1) <= Len(s) /\ j + 1 \in 1 .. Size(h)
      BY <1>0, <1>2, <2>1, <2>3
    <2> QED
      BY <2>5, <2>6
  <1>3. \A j \in 1 .. Size(h) : j \in S
    <2> HIDE DEF S
    <2> QED
      BY <1>0, <1>1, <1>2, StepByStep
  <1> QED
    BY <1>3

LEMMA PackageFirsts ==
    ASSUME NEW h \in Heads PROVE Firsts(Package(h)) = <<h>>
  <1>1. Size(h) \in Nat /\ Size(h) >= 1
    BY SizeNat, FramingAssumption
  <1>2. Package(h) \in Seq(Units) /\ Len(Package(h)) = Size(h)
    BY PackageUnits
  <1>3. Starts(Package(h)) = {1}
    BY <1>1 DEF Starts, Package, Unit
  <1>4. Cardinality(Starts(Package(h))) = 1
    BY <1>3, FS_Singleton
  <1>5. Place(Package(h), 1) = 1
    <2>1. Place(Package(h), 1) \in 1 .. 1
      BY <1>2, <1>3, <1>4, PlaceRange
    <2> QED
      BY <2>1
  <1>6. Firsts(Package(h))[1] = h
    <2>1. Firsts(Package(h))[1] = Package(h)[1].head
      BY <1>2, <1>3, <1>5, FirstsAt
    <2> QED
      BY <1>1, <2>1 DEF Package, Unit
  <1>7. Firsts(Package(h)) \in Seq(Heads) /\ Len(Firsts(Package(h))) = 1
    BY <1>2, <1>4, FirstsSeq
  <1> QED
    BY <1>6, <1>7

(* While a tidy chunk is not used up, the header at the front is that of    *)
(* all its packages, and one whole package lies at read_index.              *)
LEMMA NextPackage ==
    ASSUME IInv, NoEmptyRequests, pc = "parse", TidyChunk, nread > 0
    PROVE  LET h == buf[1].head
           IN  /\ h \in Heads /\ HeaderAt(buf) = {h} /\ h.sub # 0
               /\ Size(h) <= nread /\ HeadLen < nread
               /\ \A j \in 1 .. Size(h) : buf[read_index + j] = Unit(h, j)
               /\ nread > Size(h) => buf[(read_index + Size(h)) + 1].i = 1
  <1> DEFINE h == buf[1].head
  <1>1. /\ buf \in Seq(Units) /\ read_index \in Nat /\ nread \in Nat /\ Len(buf) \in Nat
        /\ read_index + nread = Len(buf)
    BY DEF IInv, Typed, Indices, TidyChunk
  <1>2. h \in Heads
    BY <1>1, UnitFields DEF TidyChunk
  <1>3. h.sub # 0 /\ h.sub \in Nat /\ Size(h) = HeadLen + h.sub /\ HeadLen \in Nat \ {0}
    BY <1>2, SizeNat, FramingAssumption DEF NoEmptyRequests, Heads
  <1> HIDE DEF h
  <1>4. \A k \in 1 .. Len(buf) : buf[k].head = h
    BY DEF TidyChunk, h
  <1>5. \A j \in 1 .. Size(h) : read_index + j <= Len(buf) /\ buf[read_index + j] = Unit(h, j)
    BY <1>1, <1>2, <1>3, <1>4, ChainRun DEF TidyChunk
  <1>6. Size(h) \in 1 .. Size(h) /\ Size(h) <= nread /\ HeadLen < nread
    BY <1>1, <1>3, <1>5
  <1>7. \A j \in 1 .. Size(h) : buf[j] = Unit(h, j)
    <2>1. PICK p \in Nat : p = 0
      OBVIOUS
    <2>2. p + 1 <= Len(buf) /\ buf[p + 1].i = 1
      BY <2>1 DEF TidyChunk
    <2>3. Chained(buf) /\ Ends(buf) /\ Size(h) >= 1
      BY <1>3 DEF TidyChunk
    <2>4. \A j \in 1 .. Size(h) : p + j <= Len(buf) /\ buf[p + j] = Unit(h, j)
      BY <1>1, <1>2, <1>4, <2>2, <2>3, ChainRun
    <2>5. \A j \in 1 .. Size(h) : p + j = j
      BY <2>1, <1>3
    <2> QED
      BY <2>4, <2>5
  <1>8. HeaderAt(buf) = {h}
    <2>1. \A j \in 1 .. HeadLen : buf[j] = Unit(h, j)
      BY <1>3, <1>7
    <2>2. ASSUME NEW g \in Heads, \A j \in 1 .. HeadLen : buf[j] = Unit(g, j) PROVE g = h
      <3>1. Unit(g, 1) = Unit(h, 1)
        BY <2>1, <2>2, <1>3
      <3> QED
        BY <3>1 DEF Unit
    <2> QED
      BY <1>2, <2>1, <2>2 DEF HeaderAt
  <1>9. ASSUME nread > Size(h) PROVE buf[(read_index + Size(h)) + 1].i = 1
    <2>1. /\ read_index + Size(h) \in 1 .. Len(buf) /\ read_index + Size(h) < Len(buf)
          /\ buf[read_index + Size(h)] = Unit(h, Size(h))
      BY <1>1, <1>3, <1>5, <1>6, <1>9
    <2>2. Follows(buf[read_index + Size(h)], buf[(read_index + Size(h)) + 1])
      BY <2>1 DEF TidyChunk, Chained
    <2>3. buf[read_index + Size(h)].i = Size(h) /\ buf[read_index + Size(h)].head = h
      BY <2>1 DEF Unit
    <2>4. ~ (Size(h) < Size(h))
      BY <1>3
    <2> QED
      BY <2>2, <2>3, <2>4 DEF Follows
  <1> QED
    BY <1>2, <1>3, <1>5, <1>6, <1>8, <1>9 DEF h

LEMMA ChainedSuffix ==
    ASSUME NEW s \in Seq(Units), NEW n \in 0 .. Len(s), Chained(s), Ends(s)
    PROVE  /\ Chained(SubSeq(s, n + 1, Len(s))) /\ Ends(SubSeq(s, n + 1, Len(s)))
           /\ Chained(SubSeq(s, 1, n))
  <1> DEFINE rest  == SubSeq(s, n + 1, Len(s))
             chunk == SubSeq(s, 1, n)
  <1>0. Len(s) \in Nat /\ n \in Nat /\ n <= Len(s)
    OBVIOUS
  <1>1. /\ Len(rest) = Len(s) - n /\ rest \in Seq(Units)
        /\ \A k \in 1 .. Len(s) - n : rest[k] = s[n + k]
    BY <1>0
  <1>2. Len(chunk) = n /\ \A k \in 1 .. n : chunk[k] = s[k]
    BY <1>0
  <1> HIDE DEF rest, chunk
  <1>3. Chained(rest)
    <2> SUFFICES ASSUME NEW k \in 1 .. Len(rest), k < Len(rest)
                 PROVE  Follows(rest[k], rest[k + 1])
      BY DEF Chained
    <2>1. n + k \in 1 .. Len(s) /\ n + k < Len(s)
      BY <1>0, <1>1
    <2>2. Follows(s[n + k], s[(n + k) + 1])
      BY <2>1 DEF Chained
    <2>3. (n + k) + 1 = n + (k + 1) /\ k + 1 \in 1 .. Len(s) - n /\ k \in 1 .. Len(s) - n
      BY <1>0, <1>1
    <2>4. rest[k] = s[n + k] /\ rest[k + 1] = s[n + (k + 1)]
      BY <1>1, <2>3
    <2> QED
      BY <2>2, <2>3, <2>4
  <1>4. Chained(chunk)
    <2> SUFFICES ASSUME NEW k \in 1 .. Len(chunk), k < Len(chunk)
                 PROVE  Follows(chunk[k], chunk[k + 1])
      BY DEF Chained
    <2>1. k \in 1 .. Len(s) /\ k < Len(s) /\ k + 1 \in 1 .. n /\ k \in 1 .. n
      BY <1>0, <1>2
    <2>2. Follows(s[k], s[k + 1])
      BY <2>1 DEF Chained
    <2> QED
      BY <1>2, <2>1, <2>2
  <1>5. Ends(rest)
    <2> SUFFICES ASSUME rest # <<>> PROVE rest[Len(rest)].i = Size(rest[Len(rest)].head)
      BY DEF Ends
    <2>1. Len(rest) \in 1 .. Len(s) - n /\ n + Len(rest) = Len(s) /\ s # <<>>
      BY <1>0, <1>1
    <2>2. rest[Len(rest)] = s[Len(s)]
      BY <1>1, <2>1
    <2> QED
      BY <2>1, <2>2 DEF Ends
  <1> QED
    BY <1>3, <1>4, <1>5 DEF rest, chunk

LEMMA ChainedPackage ==
    ASSUME NEW s \in Seq(Units), Chained(s), Ends(s), NEW h \in Heads
    PROVE  Chained(s \o Package(h)) /\ Ends(s \o Package(h))
  <1> DEFINE z == s \o Package(h)
             n == Len(s)
  <1>1. Size(h) \in Nat /\ Size(h) >= 1
    BY SizeNat, FramingAssumption
  <1>2. Package(h) \in Seq(Units) /\ Len(Package(h)) = Size(h) /\ n \in Nat
    BY PackageUnits
  <1>3. /\ z \in Seq(Units) /\ Len(z) = n + Size(h)
        /\ \A k \in 1 .. n : z[k] = s[k]
    <2>1. /\ z \in Seq(Units) /\ Len(z) = Len(s) + Len(Package(h))
          /\ \A k \in 1 .. Len(s) + Len(Package(h)) :
                 z[k] = IF k <= Len(s) THEN s[k] ELSE Package(h)[k - Len(s)]
      BY <1>2, ConcatProperties
    <2> HIDE DEF z
    <2> QED
      BY <1>1, <1>2, <2>1
  <1>4. \A j \in 1 .. Size(h) : z[n + j] = Unit(h, j)
    <2>1. \A j \in 1 .. Size(h) : z[n + j] = Package(h)[j]
      BY <1>2, ConcatAt
    <2> HIDE DEF z
    <2> QED
      BY <2>1 DEF Package
  <1> HIDE DEF z
  <1>5. Chained(z)
    <2> SUFFICES ASSUME NEW k \in 1 .. Len(z), k < Len(z) PROVE Follows(z[k], z[k + 1])
      BY DEF Chained
    <2>1. CASE k < n
      <3>1. Follows(s[k], s[k + 1]) /\ k \in 1 .. n /\ k + 1 \in 1 .. n
        BY <1>2, <2>1 DEF Chained
      <3> QED
        BY <1>3, <3>1
    <2>2. CASE k = n
      <3>1. s # <<>> /\ k \in 1 .. n /\ z[k] = s[k] /\ s[k].i = Size(s[k].head)
        BY <1>2, <1>3, <2>2 DEF Ends
      <3>2. s[k].head \in Heads
        BY <3>1, UnitFields
      <3>3. ~ (z[k].i < Size(z[k].head))
        BY <3>1, <3>2, SizeNat
      <3>4. z[k + 1] = Unit(h, 1)
        BY <1>1, <1>4, <2>2
      <3> QED
        BY <3>3, <3>4 DEF Follows, Unit
    <2>3. CASE k > n
      <3>1. PICK j \in 1 .. Size(h) : k = n + j
        <4>1. k - n \in 1 .. Size(h) /\ k = n + (k - n)
          BY <1>1, <1>2, <1>3, <2>3
        <4> QED
          BY <4>1
      <3>2. j < Size(h) /\ j + 1 \in 1 .. Size(h) /\ k + 1 = n + (j + 1)
        BY <1>1, <1>2, <1>3, <3>1
      <3>3. z[k] = Unit(h, j) /\ z[k + 1] = Unit(h, j + 1)
        BY <1>4, <3>1, <3>2
      <3> QED
        BY <3>2, <3>3 DEF Follows, Unit
    <2> QED
      BY <1>2, <2>1, <2>2, <2>3
  <1>6. Ends(z)
    <2>1. Len(z) = n + Size(h) /\ Size(h) \in 1 .. Size(h)
      BY <1>1, <1>3
    <2>2. z[n + Size(h)] = Unit(h, Size(h))
      BY <1>4, <2>1
    <2> QED
      BY <2>1, <2>2 DEF Ends, Unit
  <1> QED
    BY <1>5, <1>6 DEF z

LEMMA ChunkInit == Init => ChunkInv
  <1> SUFFICES ASSUME Init PROVE ChunkInv
    OBVIOUS
  <1>1. Chained(<<>>) /\ Ends(<<>>)
    BY DEF Chained, Ends
  <1> QED
    BY <1>1 DEF Init, ChunkInv

LEMMA ChunkRead ==
    ASSUME IInv, ChunkInv, NEW n \in 1 .. MaxBuf, Read(n) PROVE ChunkInv'
  <1>1. /\ fd_now \in Fds /\ stream[fd_now] \in Seq(Units) /\ n \in Nat
        /\ n <= Len(stream[fd_now]) /\ n >= 1
    BY FramingAssumption DEF IInv, TypeOK, Typed, Read
  <1> DEFINE s == stream[fd_now]
             chunk == SubSeq(s, 1, n)
             rest  == SubSeq(s, n + 1, Len(s))
  <1>2. Chained(s) /\ Ends(s) /\ n \in 0 .. Len(s)
    BY <1>1 DEF ChunkInv
  <1>3. Chained(rest) /\ Ends(rest) /\ Chained(chunk)
    BY <1>1, <1>2, ChainedSuffix
  <1>4. /\ buf' = SubSeq(buf, 1, buf_index) \o chunk
        /\ tidy' = (buf_index = 0 /\ WholePackages(chunk))
        /\ stream' = [stream EXCEPT ![fd_now] = rest]
        /\ nread' = n /\ read_index' = 0 /\ buf_index' = buf_index /\ pc' = "parse"
    BY DEF Read
  <1>5. chunk \in Seq(Units) /\ Len(chunk) = n
    BY <1>1
  <1> HIDE DEF s, chunk, rest
  <1>6. \A fd \in Fds : Chained(stream'[fd]) /\ Ends(stream'[fd])
    BY <1>3, <1>4 DEF ChunkInv, IInv, Typed
  <1>7. ASSUME buf_index = 0, WholePackages(chunk) PROVE TidyChunk'
    <2>1. buf' = chunk
      <3>1. SubSeq(buf, 1, buf_index) = <<>>
        BY <1>7
      <3> QED
        BY <1>4, <1>5, <3>1, ConcatEmptySeq
    <2>2. /\ chunk # <<>> /\ chunk[1].i = 1 /\ chunk[Len(chunk)].i = Size(chunk[1].head)
          /\ \A k \in 1 .. Len(chunk) : chunk[k].head = chunk[1].head
      BY <1>7 DEF WholePackages
    <2>3. Ends(chunk)
      <3>1. Len(chunk) \in 1 .. Len(chunk)
        BY <1>1, <1>5
      <3> QED
        BY <2>2, <3>1 DEF Ends
    <2>4. buf_index' = 0 /\ read_index' + 1 = 1 /\ 1 <= Len(chunk)
      BY <1>1, <1>4, <1>5, <1>7
    <2> QED
      BY <1>3, <2>1, <2>2, <2>3, <2>4 DEF TidyChunk
  <1> QED
    BY <1>4, <1>6, <1>7 DEF ChunkInv

(* Parsing a tidy chunk, parse_msg takes the payload of the package at hand.*)
LEMMA TidyParse ==
    ASSUME IInv, ChunkInv, NoEmptyRequests,
           NEW h \in HeaderAt(buf), NEW used \in 0 .. h.sub, ParseMsg(h, used), tidy
    PROVE  /\ h \in Heads /\ TidyChunk /\ nread > 0 /\ used = h.sub /\ used # 0
           /\ Size(h) <= nread
           /\ \A j \in 1 .. Size(h) : buf[read_index + j] = Unit(h, j)
           /\ nread > Size(h) => buf[(read_index + Size(h)) + 1].i = 1
           /\ nread' = nread - Size(h) /\ read_index' = read_index + Size(h)
           /\ UNCHANGED <<buf, buf_index, pc>>
  <1>1. pc = "parse" /\ TidyChunk
    BY DEF ParseMsg, FitsIn, ChunkInv
  <1>2. nread > 0
    BY FramingAssumption DEF ParseMsg, FitsIn, IInv, Typed
  <1>3. /\ h = buf[1].head /\ h \in Heads /\ h.sub # 0 /\ Size(h) <= nread
        /\ \A j \in 1 .. Size(h) : buf[read_index + j] = Unit(h, j)
        /\ nread > Size(h) => buf[(read_index + Size(h)) + 1].i = 1
    BY <1>1, <1>2, NextPackage
  <1>4. used = h.sub
    <2> DEFINE body == Held(read_index + HeadLen + 1, read_index + HeadLen + h.sub)
    <2>1. /\ HeadLen \in Nat /\ h.sub \in Nat /\ Size(h) = HeadLen + h.sub
          /\ read_index \in Nat /\ nread \in Nat /\ read_index + nread = Len(buf)
      BY <1>1, <1>3, SizeNat, FramingAssumption DEF IInv, Typed, Indices, TidyChunk
    <2>2. body = Payload(h)
      <3>0. body = SubSeq(buf, read_index + HeadLen + 1, read_index + HeadLen + h.sub)
        <4>1. ~ (read_index + HeadLen + h.sub > Len(buf))
          BY <1>3, <2>1
        <4> QED
          BY <4>1 DEF Held
      <3> HIDE DEF body
      <3>1. body = [j \in 1 .. h.sub |-> buf[read_index + HeadLen + j]]
        BY <2>1, <3>0
      <3>2. \A j \in 1 .. h.sub : buf[read_index + HeadLen + j] = Unit(h, HeadLen + j)
        <4> SUFFICES ASSUME NEW j \in 1 .. h.sub
                     PROVE  buf[read_index + HeadLen + j] = Unit(h, HeadLen + j)
          OBVIOUS
        <4>1. HeadLen + j \in 1 .. Size(h)
              /\ read_index + HeadLen + j = read_index + (HeadLen + j)
          BY <2>1
        <4> QED
          BY <1>3, <4>1
      <3> QED
        BY <3>1, <3>2 DEF Payload
    <2>3. Aligned(h, body)
      <3> HIDE DEF body
      <3> QED
        BY <1>3, <2>2 DEF Aligned
    <2> QED
      BY <2>3 DEF ParseMsg
  <1>5. /\ nread' = nread - (HeadLen + used) /\ read_index' = read_index + HeadLen + used
        /\ UNCHANGED <<buf, buf_index, pc>>
    BY <1>3, <1>4 DEF ParseMsg, Consumed
  <1>6. nread' = nread - Size(h) /\ read_index' = read_index + Size(h)
    BY <1>3, <1>4, <1>5, SizeNat, FramingAssumption DEF IInv, Typed
  <1> QED
    BY <1>1, <1>2, <1>3, <1>4, <1>5, <1>6

LEMMA ChunkParse ==
    ASSUME IInv, ChunkInv, NoEmptyRequests,
           NEW h \in HeaderAt(buf), NEW used \in 0 .. h.sub, ParseMsg(h, used)
    PROVE  ChunkInv'
  <1>1. stream' = stream /\ tidy' = tidy
    BY DEF ParseMsg
  <1>2. CASE used = 0
    BY <1>1, <1>2 DEF ParseMsg, Restart, ChunkInv
  <1>3. ASSUME tidy PROVE TidyChunk'
    <2>1. /\ TidyChunk /\ h \in Heads
          /\ nread' = nread - Size(h) /\ read_index' = read_index + Size(h)
          /\ buf' = buf /\ buf_index' = buf_index
          /\ nread > Size(h) => buf[(read_index + Size(h)) + 1].i = 1
      BY <1>3, TidyParse
    <2>2. nread' > 0 => nread > Size(h)
      BY <2>1, SizeNat DEF IInv, Typed
    <2> QED
      BY <2>1, <2>2 DEF TidyChunk
  <1> QED
    BY <1>1, <1>2, <1>3 DEF ParseMsg, ChunkInv

LEMMA ChunkStep == IInv /\ ChunkInv /\ NoEmptyRequests /\ [Next]_vars => ChunkInv'
  <1> SUFFICES ASSUME IInv, ChunkInv, NoEmptyRequests, [Next]_vars PROVE ChunkInv'
    OBVIOUS
  <1>1. ASSUME NEW fd \in Fds, NEW h \in Heads, Send(fd, h) PROVE ChunkInv'
    <2>1. /\ stream[fd] \in Seq(Units) /\ Chained(stream[fd]) /\ Ends(stream[fd])
      BY DEF IInv, Typed, ChunkInv
    <2>2. Chained(stream[fd] \o Package(h)) /\ Ends(stream[fd] \o Package(h))
      BY <2>1, ChainedPackage
    <2>3. \A g \in Fds : Chained(stream'[g]) /\ Ends(stream'[g])
      BY <1>1, <2>2 DEF Send, ChunkInv, IInv, Typed
    <2> QED
      BY <1>1, <2>3 DEF Send, ChunkInv, TidyChunk
  <1>2. CASE Close
    <2>1. Chained(<<>>) /\ Ends(<<>>)
      BY DEF Chained, Ends
    <2>2. \A g \in Fds : Chained(stream'[g]) /\ Ends(stream'[g])
      BY <1>2, <2>1 DEF Close, ChunkInv, IInv, Typed
    <2> QED
      BY <1>2, <2>2 DEF Close, ChunkInv
  <1>3. ASSUME NEW n \in 1 .. MaxBuf, Read(n) PROVE ChunkInv'
    BY <1>3, ChunkRead
  <1>4. ASSUME NEW h \in HeaderAt(buf), NEW used \in 0 .. h.sub,
               ParseMsg(h, used) \/ RunOver(h, used)
        PROVE  ChunkInv'
    <2>1. CASE RunOver(h, used)
      BY <2>1 DEF RunOver, Restart, ChunkInv
    <2> QED
      BY <1>4, <2>1, ChunkParse
  <1>5. CASE KeepRest
    BY <1>5 DEF KeepRest, ChunkInv
  <1>6. ASSUME NEW h \in HeaderAt(buf), UnknownSender(h) PROVE ChunkInv'
    BY <1>6 DEF UnknownSender, Restart, ChunkInv
  <1>7. ASSUME NEW fd \in Fds, Hangup(fd) \/ Event(fd) PROVE ChunkInv'
    BY <1>7 DEF Hangup, Event, ChunkInv, TidyChunk
  <1>8. CASE Again \/ UNCHANGED vars
    BY <1>8 DEF Again, vars, ChunkInv, TidyChunk
  <1> QED
    BY <1>1, <1>2, <1>3, <1>4, <1>5, <1>6, <1>7, <1>8 DEF Next, ReadLoop

-----------------------------------------------------------------------------
(* Each step of the read loop is one of Delivery, or none. *)

(* What is left of a tidy chunk. *)
AtHand == IF pc = "parse" /\ tidy
          THEN SubSeq(buf, read_index + 1, read_index + nread) ELSE <<>>
Before(fd) == IF fd = fd_now THEN AtHand ELSE <<>>

LEMMA PendingIs ==
    /\ Pending = [fd \in Fds |-> Firsts(Before(fd) \o stream[fd])]
    /\ Pending' = [fd \in Fds |-> Firsts(Before(fd)' \o stream'[fd])]
  BY DEF Pending, Before, AtHand

LEMMA HandledIs ==
    /\ handled = <<>> => HandledHead = <<>>
    /\ handled' = <<>> => HandledHead' = <<>>
    /\ \A fd, h, b : handled' = <<[fd |-> fd, head |-> h, body |-> b]>>
                         => HandledHead' = <<[fd |-> fd, head |-> h]>>
  BY DEF HandledHead

LEMMA AtHandSeq == ASSUME IInv PROVE AtHand \in Seq(Units)
  <1>1. /\ buf \in Seq(Units) /\ read_index \in Nat /\ nread \in Nat /\ buf_index \in Nat
        /\ pc = "parse" => read_index + nread <= Len(buf)
    BY DEF IInv, Typed, Indices
  <1> HIDE DEF Units
  <1> QED
    BY <1>1 DEF AtHand

LEMMA UnitsConcat ==
    \A a, b, c \in Seq(Units) : a \o (b \o c) = (a \o b) \o c
  <1> HIDE DEF Units
  <1> SUFFICES ASSUME NEW a \in Seq(Units), NEW b \in Seq(Units), NEW c \in Seq(Units)
               PROVE  a \o (b \o c) = (a \o b) \o c
    OBVIOUS
  <1> QED
    BY ConcatAssociative

LEMMA HeadTailOfConcat ==
    ASSUME NEW S, NEW h \in S, NEW q \in Seq(S)
    PROVE  <<h>> \o q # <<>> /\ Head(<<h>> \o q) = h /\ Tail(<<h>> \o q) = q
  OBVIOUS

LEMMA SendDelivers ==
    ASSUME IInv, NEW fd \in Fds, NEW h \in Heads, Send(fd, h)
    PROVE  D!Send(fd, h)
  <1>1. /\ stream' = [stream EXCEPT ![fd] = @ \o Package(h)]
        /\ \A g \in Fds : Before(g)' = Before(g) /\ Before(g) \in Seq(Units)
        /\ handled' = handled /\ tidy' = tidy
    BY AtHandSeq DEF Send, Before, AtHand
  <1>2. Firsts(Before(fd) \o (stream[fd] \o Package(h)))
            = Append(Firsts(Before(fd) \o stream[fd]), h)
    <2>1. stream[fd] \in Seq(Units) /\ Package(h) \in Seq(Units) /\ Before(fd) \in Seq(Units)
      BY <1>1, PackageUnits DEF IInv, Typed
    <2>2. Before(fd) \o (stream[fd] \o Package(h)) = (Before(fd) \o stream[fd]) \o Package(h)
      BY <2>1, UnitsConcat
    <2>3. Before(fd) \o stream[fd] \in Seq(Units)
      BY <2>1, ConcatProperties
    <2>4. Firsts((Before(fd) \o stream[fd]) \o Package(h))
             = Firsts(Before(fd) \o stream[fd]) \o <<h>>
      BY <2>1, <2>3, FirstsConcat, PackageFirsts
    <2>5. Firsts(Before(fd) \o stream[fd]) \in Seq(Heads)
      BY <2>3, FirstsSeq
    <2> QED
      BY <2>2, <2>4, <2>5, AppendIsConcat
  <1>3. Pending' = [Pending EXCEPT ![fd] = Append(@, h)]
    <2>1. ASSUME NEW g \in Fds
          PROVE  Pending'[g] = IF g = fd THEN Append(Pending[fd], h) ELSE Pending[g]
      <3>1. CASE g = fd
        <4>1. stream'[fd] = stream[fd] \o Package(h)
          BY <1>1 DEF IInv, Typed
        <4> QED
          BY <1>1, <1>2, <3>1, <4>1, PendingIs
      <3>2. CASE g # fd
        <4>1. stream'[g] = stream[g]
          BY <1>1, <3>2 DEF IInv, Typed
        <4> QED
          BY <1>1, <3>2, <4>1, PendingIs
      <3> QED
        BY <3>1, <3>2
    <2>2. /\ Pending = [g \in Fds |-> Pending[g]] /\ Pending' = [g \in Fds |-> Pending'[g]]
      BY PendingIs
    <2> QED
      BY <2>1, <2>2
  <1>4. HandledHead' = HandledHead
    BY <1>1 DEF HandledHead
  <1> QED
    BY <1>1, <1>3, <1>4 DEF D!Send

(* Behind the first n units of a string, the packages that begin there are  *)
(* what is left when the first ones are taken away.                         *)
LEMMA FirstsSuffix ==
    ASSUME NEW s \in Seq(Units), NEW n \in 0 .. Len(s)
    PROVE  /\ Firsts(SubSeq(s, 1, n) \o SubSeq(s, n + 1, Len(s))) = Firsts(s)
           /\ \E m \in 0 .. Len(Firsts(s)) :
                 Firsts(SubSeq(s, n + 1, Len(s))) = SubSeq(Firsts(s), m + 1, Len(Firsts(s)))
  <1> DEFINE chunk == SubSeq(s, 1, n)
             rest  == SubSeq(s, n + 1, Len(s))
             A == Firsts(chunk)
             B == Firsts(rest)
  <1>1. chunk \in Seq(Units) /\ rest \in Seq(Units)
    <2> HIDE DEF Units
    <2> QED
      OBVIOUS
  <1>2. chunk \o rest = s
    <2>1. /\ 1 \in 1 .. Len(s) + 1 /\ n \in 1 - 1 .. Len(s) /\ Len(s) \in n .. Len(s)
      OBVIOUS
    <2>2. SubSeq(s, 1, n) \o SubSeq(s, n + 1, Len(s)) = SubSeq(s, 1, Len(s))
      BY <2>1, ConcatAdjacentSubSeq
    <2> QED
      BY <2>2, SubSeqFull
  <1>3. Firsts(s) = A \o B
    BY <1>1, <1>2, FirstsConcat
  <1>4. A \in Seq(Heads) /\ B \in Seq(Heads)
    BY <1>1, FirstsSeq
  <1> HIDE DEF A, B
  <1>5. Len(A) \in 0 .. Len(A \o B) /\ B = SubSeq(A \o B, Len(A) + 1, Len(A \o B))
    BY <1>4
  <1> QED
    BY <1>2, <1>3, <1>5 DEF B

LEMMA ReadDelivers ==
    ASSUME IInv, ChunkInv, NEW n \in 1 .. MaxBuf, Read(n)
    PROVE  D!Tighten \/ \E fd \in Fds : \E m \in 0 .. Len(Pending[fd]) : D!Swallow(fd, m)
  <1>1. /\ fd_now \in Fds /\ stream[fd_now] \in Seq(Units) /\ n \in Nat
        /\ n \in 0 .. Len(stream[fd_now])
    BY FramingAssumption DEF IInv, TypeOK, Typed, Read
  <1> DEFINE s == stream[fd_now]
             chunk == SubSeq(s, 1, n)
             rest  == SubSeq(s, n + 1, Len(s))
  <1>2. /\ buf' = SubSeq(buf, 1, buf_index) \o chunk /\ pc = "read" /\ pc' = "parse"
        /\ tidy' = (buf_index = 0 /\ WholePackages(chunk)) /\ tidy \in BOOLEAN
        /\ stream' = [stream EXCEPT ![fd_now] = rest] /\ fd_now' = fd_now
        /\ nread' = n /\ read_index' = 0 /\ handled' = handled
    BY DEF Read, ChunkInv
  <1>3. chunk \in Seq(Units) /\ Len(chunk) = n /\ rest \in Seq(Units)
    BY <1>1
  <1>4. \A g \in Fds : Pending[g] = Firsts(stream[g])
    <2>1. \A g \in Fds : Before(g) = <<>> /\ stream[g] \in Seq(Units)
      BY <1>2 DEF Before, AtHand, IInv, Typed
    <2>2. \A g \in Fds : <<>> \o stream[g] = stream[g]
      BY <2>1, ConcatEmptySeq
    <2> QED
      BY <2>1, <2>2, PendingIs
  <1>5. HandledHead' = HandledHead
    BY <1>2 DEF HandledHead
  <1>6. \A g \in Fds \ {fd_now} : Pending'[g] = Pending[g]
    <2> HIDE DEF chunk, rest
    <2>1. \A g \in Fds \ {fd_now} : stream'[g] = stream[g] /\ Before(g)' = Before(g)
      BY <1>2 DEF Before, IInv, Typed
    <2> QED
      BY <2>1, PendingIs
  <1>7. stream'[fd_now] = rest
    <2> HIDE DEF rest
    <2> QED
      BY <1>1, <1>2 DEF IInv, Typed
  <1>8. Pending = [g \in Fds |-> Pending[g]] /\ Pending' = [g \in Fds |-> Pending'[g]]
    BY PendingIs
  <1>9. CASE buf_index = 0 /\ WholePackages(chunk)
    <2>1. buf' = chunk
      <3>1. SubSeq(buf, 1, buf_index) = <<>>
        BY <1>9
      <3> HIDE DEF chunk
      <3> QED
        BY <1>2, <1>3, <3>1, ConcatEmptySeq
    <2>2. Before(fd_now)' = chunk
      <3>1. AtHand' = SubSeq(buf', 0 + 1, 0 + n)
        BY <1>2, <1>9 DEF AtHand
      <3>2. SubSeq(chunk, 0 + 1, 0 + n) = chunk
        <4> HIDE DEF chunk
        <4> QED
          BY <1>1, <1>3, SubSeqFull
      <3> QED
        BY <1>2, <2>1, <3>1, <3>2 DEF Before
    <2>3. Pending'[fd_now] = Firsts(chunk \o rest)
      BY <1>1, <1>2, <1>7, <2>2, PendingIs
    <2>4. Firsts(chunk \o rest) = Firsts(s)
      BY <1>1, FirstsSuffix
    <2>5. Pending' = Pending
      <3>1. \A g \in Fds : Pending'[g] = Pending[g]
        BY <1>4, <1>6, <2>3, <2>4
      <3> QED
        BY <1>8, <3>1
    <2> HIDE DEF chunk
    <2>6. tidy'
      BY <1>2, <1>9
    <2> QED
      BY <1>5, <2>5, <2>6 DEF D!Tighten
  <1>10. CASE ~ (buf_index = 0 /\ WholePackages(chunk))
    <2>1. ~ tidy'
      BY <1>2, <1>10
    <2>2. Before(fd_now)' = <<>>
      BY <2>1 DEF Before, AtHand
    <2>3. Pending'[fd_now] = Firsts(rest)
      <3>1. <<>> \o rest = rest
        <4> HIDE DEF rest
        <4> QED
          BY <1>3, ConcatEmptySeq
      <3> QED
        BY <1>1, <1>2, <1>7, <2>2, <3>1, PendingIs
    <2>4. PICK m \in 0 .. Len(Firsts(s)) : Firsts(rest) = SubSeq(Firsts(s), m + 1, Len(Firsts(s)))
      BY <1>1, FirstsSuffix
    <2>5. Pending[fd_now] = Firsts(s)
      BY <1>1, <1>4
    <2> HIDE DEF s, rest, chunk
    <2>6. Pending' = [Pending EXCEPT ![fd_now] = SubSeq(@, m + 1, Len(@))]
      BY <1>1, <1>6, <1>8, <2>3, <2>4, <2>5
    <2>7. D!Swallow(fd_now, m)
      BY <1>5, <2>1, <2>6 DEF D!Swallow
    <2> QED
      BY <1>1, <2>4, <2>5, <2>7
  <1> QED
    BY <1>9, <1>10

(* A package of a tidy chunk is handed over as the first of its socket.      *)
LEMMA TidyDelivers ==
    ASSUME IInv, ChunkInv, NoEmptyRequests,
           NEW h \in HeaderAt(buf), NEW used \in 0 .. h.sub, ParseMsg(h, used), tidy
    PROVE  \E fd \in Fds : D!Handle(fd)
  <1> DEFINE rest == SubSeq(buf, (read_index + Size(h)) + 1, read_index + nread)
             tail == rest \o stream[fd_now]
  <1>0. h \in Heads
    BY TidyParse
  <1>1. /\ nread' = nread - Size(h) /\ read_index' = read_index + Size(h) /\ buf' = buf
        /\ pc = "parse" /\ pc' = "parse" /\ stream' = stream /\ fd_now' = fd_now
        /\ tidy' = tidy /\ Size(h) <= nread /\ used # 0
        /\ \A j \in 1 .. Size(h) : buf[read_index + j] = Unit(h, j)
    BY TidyParse DEF ParseMsg, FitsIn
  <1>2. /\ fd_now \in Fds /\ stream[fd_now] \in Seq(Units) /\ buf \in Seq(Units)
        /\ read_index \in Nat /\ nread \in Nat /\ Len(buf) \in Nat
        /\ read_index + nread <= Len(buf)
        /\ Size(h) \in Nat /\ Package(h) \in Seq(Units)
    BY <1>0, <1>1, SizeNat, PackageUnits DEF IInv, TypeOK, Typed, Indices
  <1>3. AtHand' = rest
    <2>1. (read_index + Size(h)) + (nread - Size(h)) = read_index + nread
      BY <1>2
    <2> QED
      BY <1>1, <2>1 DEF AtHand
  <1>4. SubSeq(buf, read_index + 1, read_index + Size(h)) = Package(h)
    <2>1. SubSeq(buf, read_index + 1, read_index + Size(h))
             = [j \in 1 .. Size(h) |-> buf[read_index + j]]
      BY <1>2
    <2> QED
      BY <1>1, <2>1 DEF Package
  <1>5. AtHand = Package(h) \o rest
    <2>1. /\ read_index + 1 \in 1 .. Len(buf) + 1
          /\ read_index + Size(h) \in (read_index + 1) - 1 .. Len(buf)
          /\ read_index + nread \in read_index + Size(h) .. Len(buf)
      BY <1>1, <1>2
    <2>2. SubSeq(buf, read_index + 1, read_index + Size(h)) \o rest
             = SubSeq(buf, read_index + 1, read_index + nread)
      BY <1>2, <2>1, ConcatAdjacentSubSeq
    <2> HIDE DEF rest
    <2> QED
      BY <1>1, <1>4, <2>2 DEF AtHand, ChunkInv
  <1>6. rest \in Seq(Units)
    <2> HIDE DEF Units
    <2> QED
      BY <1>1, <1>2
  <1> HIDE DEF rest
  <1>7. tail \in Seq(Units)
    BY <1>2, <1>6, ConcatProperties
  <1>8. AtHand \o stream[fd_now] = Package(h) \o tail
    BY <1>2, <1>5, <1>6, UnitsConcat
  <1>9. Pending[fd_now] = Firsts(AtHand \o stream[fd_now]) /\ Pending'[fd_now] = Firsts(tail)
    BY <1>1, <1>2, <1>3, PendingIs DEF Before
  <1> HIDE DEF tail
  <1>10. Pending[fd_now] = <<h>> \o Pending'[fd_now]
    <2>1. Firsts(Package(h) \o tail) = <<h>> \o Firsts(tail)
      BY <1>0, <1>2, <1>7, FirstsConcat, PackageFirsts
    <2> QED
      BY <1>8, <1>9, <2>1
  <1>11. Pending'[fd_now] \in Seq(Heads)
    BY <1>7, <1>9, FirstsSeq
  <1>12. \A g \in Fds \ {fd_now} : Pending'[g] = Pending[g]
    BY <1>1, PendingIs DEF Before
  <1>13. /\ Pending[fd_now] # <<>> /\ Head(Pending[fd_now]) = h
         /\ Tail(Pending[fd_now]) = Pending'[fd_now]
    <2>1. ASSUME NEW p, NEW q \in Seq(Heads), p = <<h>> \o q
          PROVE  p # <<>> /\ Head(p) = h /\ Tail(p) = q
      <3> HIDE DEF Heads
      <3> QED
        BY <1>0, <2>1, HeadTailOfConcat
    <2> QED
      BY <1>10, <1>11, <2>1
  <1>14. Pending' = [Pending EXCEPT ![fd_now] = Tail(@)]
    <2>1. Pending = [g \in Fds |-> Pending[g]] /\ Pending' = [g \in Fds |-> Pending'[g]]
      BY PendingIs
    <2> QED
      BY <1>2, <1>12, <1>13, <2>1
  <1>15. HandledHead' = <<[fd |-> fd_now, head |-> h]>>
    BY <1>1, HandledIs DEF ParseMsg
  <1>16. D!Handle(fd_now)
    BY <1>1, <1>13, <1>14, <1>15 DEF D!Handle
  <1> QED
    BY <1>2, <1>16

(* What is handed over in a loose read may be anything.                     *)
LEMMA LooseDelivers ==
    ASSUME IInv, ChunkInv, NEW h \in HeaderAt(buf), NEW used \in 0 .. h.sub,
           ParseMsg(h, used), ~ tidy
    PROVE  D!HandleAnything \/ D!Done
  <1>1. /\ stream' = stream /\ tidy' = tidy /\ fd_now' = fd_now
        /\ fd_now \in Fds
    BY DEF ParseMsg, FitsIn, IInv, TypeOK, Typed
  <1>2. Pending' = Pending
    BY <1>1, PendingIs DEF Before, AtHand
  <1>3. CASE used = 0
    <2>1. HandledHead' = <<>>
      BY <1>3, HandledIs DEF ParseMsg
    <2> QED
      BY <1>1, <1>2, <2>1 DEF D!Done
  <1>4. CASE used # 0
    <2>1. HandledHead' = <<[fd |-> fd_now, head |-> h]>>
      BY <1>4, HandledIs DEF ParseMsg
    <2> QED
      BY <1>1, <1>2, <2>1, HeadersRead DEF D!HandleAnything
  <1> QED
    BY <1>3, <1>4

(* A tidy chunk is used up before the loop reads again.                     *)
LEMMA OverDelivers ==
    ASSUME IInv, ChunkInv, NoEmptyRequests,
           KeepRest \/ \E h \in HeaderAt(buf) :
                          \/ UnknownSender(h)
                          \/ \E used \in 0 .. h.sub : RunOver(h, used)
    PROVE  D!Done
  <1>1. /\ pc = "parse" /\ pc' # "parse" /\ stream' = stream /\ tidy' = tidy
        /\ fd_now' = fd_now /\ handled' = <<>> /\ nread \in Nat /\ read_index \in Nat
        /\ buf \in Seq(Units) /\ HeadLen \in Nat
    BY FramingAssumption DEF KeepRest, UnknownSender, RunOver, FitsIn, Restart, IInv, Typed
  <1>2. ASSUME tidy, nread > 0 PROVE FALSE
    <2>1. /\ HeaderAt(buf) = {buf[1].head} /\ Size(buf[1].head) <= nread
          /\ HeadLen < nread /\ Size(buf[1].head) \in Nat
          /\ Size(buf[1].head) = HeadLen + buf[1].head.sub /\ buf[1].head.sub \in Nat
      BY <1>1, <1>2, NextPackage, SizeNat DEF ChunkInv
    <2>2. \E h \in HeaderAt(buf) :
             Size(h) > nread \/ \E used \in 0 .. h.sub : HeadLen + used > nread
      BY <1>1, <2>1 DEF KeepRest, UnknownSender, RunOver
    <2> QED
      BY <1>1, <2>1, <2>2
  <1>3. AtHand = <<>>
    <2>1. nread = 0 => SubSeq(buf, read_index + 1, read_index + nread) = <<>>
      BY <1>1
    <2> QED
      BY <1>1, <1>2, <2>1 DEF AtHand
  <1>4. AtHand' = <<>>
    BY <1>1 DEF AtHand
  <1>5. Pending' = Pending
    BY <1>1, <1>3, <1>4, PendingIs DEF Before
  <1>6. HandledHead' = <<>>
    BY <1>1, HandledIs
  <1> QED
    BY <1>1, <1>5, <1>6 DEF D!Done

(* What the loop and the clients do besides changes no package under way.   *)
LEMMA RestDelivers ==
    ASSUME IInv, Again \/ Close \/ UNCHANGED vars
                 \/ \E fd \in Fds : Hangup(fd) \/ Event(fd)
    PROVE  UNCHANGED D!vars
  <1>1. tidy' = tidy /\ handled' = handled
    BY DEF Again, Close, vars, Hangup, Event
  <1>2. stream' = stream
    <2>1. CASE Close
      <3>1. /\ stream[fd_now] = <<>> /\ stream' = [stream EXCEPT ![fd_now] = <<>>]
            /\ stream \in [Fds -> Seq(Units)]
        BY <2>1, FramingAssumption DEF Close, IInv, Typed, Indices
      <3> QED
        BY <3>1
    <2> QED
      BY <2>1 DEF Again, vars, Hangup, Event
  <1>3. Pending' = Pending
    <2>1. CASE Again \/ Close \/ \E fd \in Fds : Event(fd)
      <3>1. pc # "parse" /\ pc' # "parse"
        BY <2>1 DEF Again, Close, Event
      <3> QED
        BY <1>2, <3>1, PendingIs DEF Before, AtHand
    <2>2. CASE UNCHANGED vars \/ \E fd \in Fds : Hangup(fd)
      <3>1. UNCHANGED <<pc, fd_now, buf, nread, read_index>>
        BY <2>2 DEF vars, Hangup
      <3> QED
        BY <1>1, <1>2, <3>1, PendingIs DEF Before, AtHand
    <2> QED
      BY <2>1, <2>2
  <1>4. HandledHead' = HandledHead
    BY <1>1 DEF HandledHead
  <1> QED
    BY <1>1, <1>3, <1>4 DEF D!vars

LEMMA StepDelivers ==
    IInv /\ ChunkInv /\ NoEmptyRequests /\ [Next]_vars => [D!Next]_(D!vars)
  <1> SUFFICES ASSUME IInv, ChunkInv, NoEmptyRequests, [Next]_vars
               PROVE  [D!Next]_(D!vars)
    OBVIOUS
  <1>1. ASSUME NEW fd \in Fds, NEW h \in Heads, Send(fd, h) PROVE D!Next
    BY <1>1, SendDelivers, HeadersRead DEF D!Next
  <1>2. ASSUME NEW n \in 1 .. MaxBuf, Read(n) PROVE D!Next
    BY <1>2, ReadDelivers DEF D!Next
  <1>3. ASSUME NEW h \in HeaderAt(buf), NEW used \in 0 .. h.sub, ParseMsg(h, used)
        PROVE  D!Next
    <2>1. CASE tidy
      BY <1>3, <2>1, TidyDelivers DEF D!Next
    <2>2. CASE ~ tidy
      BY <1>3, <2>2, LooseDelivers DEF D!Next
    <2> QED
      BY <2>1, <2>2
  <1>4. CASE KeepRest \/ \E h \in HeaderAt(buf) :
                             \/ UnknownSender(h)
                             \/ \E used \in 0 .. h.sub : RunOver(h, used)
    BY <1>4, OverDelivers DEF D!Next
  <1>5. CASE Again \/ Close \/ UNCHANGED vars \/ \E fd \in Fds : Hangup(fd) \/ Event(fd)
    BY <1>5, RestDelivers
  <1> QED
    BY <1>1, <1>2, <1>3, <1>4, <1>5 DEF Next, ReadLoop

LEMMA InitDelivers == Init => D!Init
  <1> SUFFICES ASSUME Init PROVE D!Init
    OBVIOUS
  <1>1. /\ stream = [fd \in Fds |-> <<>>] /\ pc = "wait" /\ tidy = TRUE /\ handled = <<>>
    BY DEF Init
  <1>2. Firsts(<<>> \o <<>>) = <<>>
    <2>1. <<>> \o <<>> = <<>> /\ Starts(<<>>) = {}
      BY DEF Starts
    <2>2. Cardinality(Starts(<<>>)) = 0
      BY <2>1, FS_EmptySet
    <2> QED
      BY <2>1, <2>2 DEF Firsts
  <1>3. Pending = [fd \in Fds |-> <<>>]
    BY <1>1, <1>2, PendingIs DEF Before, AtHand
  <1>4. HandledHead = <<>>
    BY <1>1, HandledIs
  <1> QED
    BY <1>1, <1>3, <1>4 DEF D!Init

(* The read loop implements Delivery: packages that are read as whole       *)
(* packages of one kind into an empty buffer are handed to parse_msg one by *)
(* one, in order and for their socket, none lost and none twice, whatever   *)
(* came before and however the reads before were cut; and a read that is    *)
(* not so loses packages of its own socket only                             *)
(* (read_thread.cpp:897-952).                                               *)
THEOREM LoopKeepsPromise == NoEmptyRequests /\ Spec => ImplementsDelivery
  <1> SUFFICES ASSUME NoEmptyRequests PROVE Spec => ImplementsDelivery
    OBVIOUS
  <1>1. IInv /\ ChunkInv /\ [Next]_vars => ChunkInv' /\ [D!Next]_(D!vars)
    BY ChunkStep, StepDelivers
  <1>2. Init => ChunkInv /\ D!Init
    BY ChunkInit, InitDelivers
  <1> QED
    BY <1>1, <1>2, FrameInvariant, PTL DEF Spec, ImplementsDelivery, D!Spec

=============================================================================
