------------------------------- MODULE Delivery -------------------------------
(***************************************************************************)
(* What the read loop of the server promises about the packages of its     *)
(* clients.  As long as the reads are not loose (each brings whole         *)
(* packages of one kind into an empty buffer) the packages of a socket are *)
(* handed over one by one, in the order sent, none lost, repeated or taken *)
(* for another socket's.  A loose read may lose packages, of the socket it *)
(* reads only, and hand over anything.                                     *)
(***************************************************************************)
EXTENDS Sequences, Naturals

CONSTANTS Fds, Packages

VARIABLES pending,    \* per socket: the packages sent and not handed over
          loose,      \* the current read is not whole packages of one kind
          handled     \* the last package handed over: <<[fd, head]>> or <<>>

vars == <<pending, loose, handled>>

Init == pending = [fd \in Fds |-> <<>>] /\ loose = FALSE /\ handled = <<>>

Send(fd, p) ==
    /\ pending' = [pending EXCEPT ![fd] = Append(@, p)]
    /\ UNCHANGED <<loose, handled>>

Handle(fd) ==
    /\ ~ loose /\ pending[fd] # <<>>
    /\ handled' = <<[fd |-> fd, head |-> Head(pending[fd])]>>
    /\ pending' = [pending EXCEPT ![fd] = Tail(@)]
    /\ UNCHANGED loose

(* A read begins that is not loose: nothing is lost by it.                 *)
Tighten == loose' = FALSE /\ UNCHANGED <<pending, handled>>

(* A loose read swallows n packages of the socket.                         *)
Swallow(fd, n) ==
    /\ loose' = TRUE
    /\ pending' = [pending EXCEPT ![fd] = SubSeq(@, n + 1, Len(@))]
    /\ UNCHANGED handled

HandleAnything ==
    /\ loose /\ UNCHANGED <<pending, loose>>
    /\ \E fd \in Fds, p \in Packages : handled' = <<[fd |-> fd, head |-> p]>>

(* The read is over.                                                       *)
Done == handled' = <<>> /\ UNCHANGED <<pending, loose>>

Next == \/ \E fd \in Fds, p \in Packages : Send(fd, p)
        \/ \E fd \in Fds : Handle(fd) \/ \E n \in 0 .. Len(pending[fd]) : Swallow(fd, n)
        \/ Tighten \/ HandleAnything \/ Done

Spec == Init /\ [][Next]_vars

=============================================================================
