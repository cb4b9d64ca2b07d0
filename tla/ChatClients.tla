----------------------------- MODULE ChatClients -----------------------------
(***************************************************************************)
(* The server of NetInfo with well-behaved clients.  A client leaves the   *)
(* choice of guids to the server, logs in once for each connection and     *)
(* only where the account is not signed on elsewhere, and speaks only for  *)
(* the account it is logged in with, as one that is online.  It creates    *)
(* groups of registered people and leaves the public room in place.  It may*)
(* mistype its password, and it may disconnect at any moment, between two  *)
(* of its requests and before its messages are sent out.                   *)
(*                                                                         *)
(* NetInfo checks none of this: what holds here rests on the clients.      *)
(***************************************************************************)
EXTENDS NetInfo

(* Who is signed on, by account and by socket.  Guid 0 is nobody, and socket  *)
(* 0, which operator[] files for a sender who has gone, is no line.          *)
Line == Restrict(user_conn_map, {u \in DOMAIN user_conn_map : u # 0 /\ user_conn_map[u] # 0})
LoggedIn == {fd \in DOMAIN conn_user_map : conn_user_map[fd] # 0}

(* fd is logged in as u *)
Own(fd, u) == Ready(fd) /\ u # 0 /\ At(conn_user_map, fd) = u

SignedOnElsewhere(l) == LoginError(l) = "OK" /\ phone_hash_map[l.phone] \in DOMAIN Line

ClientRequest ==
    \/ \E fd \in Fds, w \in Input.acount_add :
           Ready(fd) /\ w.user_guid = 0 /\ on_acount_add(fd, w)
    \/ \E fd \in Fds, w \in Input.acount_modify :
           Own(fd, w.user_guid) /\ w.online /\ on_acount_modify(fd, w)
    \/ \E fd \in Fds, u \in Input.acount_delete : Own(fd, u) /\ on_acount_delete(fd, u)
    \/ \E fd \in Fds, l \in Input.acount_login :
           /\ Ready(fd) /\ At(conn_user_map, fd) = 0 /\ ~SignedOnElsewhere(l)
           /\ on_acount_login(fd, l)
    \/ \E fd \in Fds, u \in Input.acount_logout : Own(fd, u) /\ on_acount_logout(fd, u)
    \/ \E fd \in Fds, w \in Input.group_add :
           /\ Own(fd, w.learder_guid) /\ w.group_guid = 0
           /\ \A i \in DOMAIN w.roster : w.roster[i].user_guid \in Known
           /\ on_group_add(fd, w)
    \/ \E fd \in Fds, w \in Input.group_modify :
           Own(fd, w.operate_guid) /\ on_group_modify(fd, w)
    \/ \E fd \in Fds, w \in Input.group_delete :
           Own(fd, w.operate_guid) /\ w.group_guid # 1 /\ on_group_delete(fd, w)
    \/ \E fd \in Fds, s \in Input.msg_send :
           Own(fd, s.guid) /\ s.msg.send_guid = s.guid /\ on_msg_send(fd, s.guid, s.msg)

ClientNext == \/ \E fd \in Fds : Serving /\ Connect(fd)
              \/ \E fd \in Fds : Ready(fd) /\ func_close(fd)
              \/ ClientRequest
              \/ BeginDrain
              \/ Deliver

ClientSpec == Init /\ [][ClientNext]_vars

-----------------------------------------------------------------------------
(* The two maps are inverse to each other whatever is lost, mistyped or     *)
(* closed: nobody is signed on over a socket that is bound to another       *)
(* account, or over one that is closed and perhaps somebody else's by now.  *)
SessionBijection ==
    /\ \A u \in DOMAIN Line : Line[u] \in LoggedIn /\ conn_user_map[Line[u]] = u
    /\ \A fd \in LoggedIn : /\ fd \in open
                            /\ conn_user_map[fd] \in DOMAIN Line
                            /\ Line[conn_user_map[fd]] = fd

(* A socket is logged in only as an account that exists and is shown as     *)
(* online: deleting an account, or logging out, closes its session.         *)
SessionsOfAccounts ==
    \A fd \in LoggedIn : /\ conn_user_map[fd] \in Known
                         /\ users[conn_user_map[fd]].online

(* A message that is sent out to a group reaches nobody but members who are *)
(* signed on at this moment, and all of them unless an account that was     *)
(* deleted is still in the group, where the walk over the members stops.    *)
(* (Of a group that a client made this is said while the freed memory that  *)
(* its maps lead into is intact: after that the walk reads anything.)       *)
ReachesExactlyMembers ==
    [][\A m \in {msg_list[i] : i \in 1 .. Len(msg_list)} :
           (/\ Draining /\ m = Head(msg_list) /\ m.msg_type = "GROUP"
            /\ \E s \in out' : s.type = "CLIENT_MSG_SEND"
            /\ RelicsIntact(groups[m.recv_guid]))
               => LET g       == groups[m.recv_guid]
                      reached == {s.to : s \in out'} \ {0}
                      there   == {fd \in LoggedIn : InGroup(g, conn_user_map[fd])}
                  IN  /\ reached \subseteq there
                      /\ (\A u \in Guid : InGroup(g, u) => u \in Known) => reached = there]_vars

(* user_conn_map implements Presence: people sign on and off one at a time, *)
(* and nobody is moved from one line to another.                            *)
OnlineBook == INSTANCE Presence WITH People <- Guid \ {0}, Lines <- Fds, online <- Line
ImplementsPresence == OnlineBook!Spec

=============================================================================
