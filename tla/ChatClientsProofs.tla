--------------------------- MODULE ChatClientsProofs ---------------------------
(***************************************************************************)
(* What well-behaved clients may rely on, for any number of sockets,       *)
(* accounts and groups.  The two maps of the sessions are inverse to each   *)
(* other, which is inductive only together: a logout finds the entry it     *)
(* erases through the other map, and a login relies on the account having   *)
(* no line when no socket is bound to it.                                  *)
(***************************************************************************)
EXTENDS ChatClients, NetInfoProofs

(* What clients do is something the server of NetInfo does. *)
LEMMA ClientsAreClients == [ClientNext]_vars => [Next]_vars
BY DEF ClientNext, ClientRequest, Next, Request, Own

LEMMA ClientServerAlways == ClientSpec => []ServerInv
<1>1. ServerInv /\ [ClientNext]_vars => ServerInv'
  BY ClientsAreClients, ServerStep
<1> QED
  BY <1>1, ServerInit, PTL DEF ClientSpec

-----------------------------------------------------------------------------
(* The maps of the sessions. *)

(* Who has a line, and which. *)
LEMMA LineFacts ==
    /\ DOMAIN Line = {u \in DOMAIN user_conn_map : u # 0 /\ user_conn_map[u] # 0}
    /\ \A u \in DOMAIN Line : Line[u] = user_conn_map[u]
BY DEF Line, Restrict

(* A login that succeeds. *)
SignsOn(fd, u) ==
    /\ u \in Known /\ u \notin DOMAIN Line /\ At(conn_user_map, fd) = 0
    /\ user_conn_map' = Put(user_conn_map, u, fd)
    /\ conn_user_map' = Put(conn_user_map, fd, u)
    /\ users' = SetOnline(users, u, TRUE)
    /\ UNCHANGED open

(* A login that fails. *)
Mistypes(fd) ==
    /\ At(conn_user_map, fd) = 0
    /\ user_conn_map' = Put(user_conn_map, 0, fd)
    /\ conn_user_map' = Put(conn_user_map, fd, 0)
    /\ UNCHANGED open

Hangs(fd) ==
    /\ user_conn_map' = LineDropped(At(conn_user_map, fd))
    /\ conn_user_map' = Unbound(fd)
    /\ open' = open \ {fd}

(* The ways a step changes the sessions, when clients behave. *)
SessionsMove ==
    \/ UNCHANGED sessions
    \/ \E fd \in Fds : open' = open \cup {fd} /\ UNCHANGED <<conn_user_map, user_conn_map>>
    \/ \E fd \in Fds : Hangs(fd)
    \/ \E fd \in Fds : \E u : Ready(fd) /\ SignsOn(fd, u)
    \/ \E fd \in Fds : Ready(fd) /\ Mistypes(fd)
    \/ \E fd \in Fds : \E u : Own(fd, u) /\ SignsOff(fd, u)
    \/ FilesSender

LEMMA SessionsStep ==
    ASSUME [ClientNext]_vars
    PROVE  SessionsMove
<1>1. ASSUME NEW fd \in Fds, NEW w,
             \/ on_acount_add(fd, w) \/ on_acount_modify(fd, w)
             \/ on_group_add(fd, w) \/ on_group_modify(fd, w) \/ on_group_delete(fd, w)
      PROVE  UNCHANGED sessions
  BY <1>1 DEF on_acount_add, on_acount_modify, on_group_add, on_group_modify,
              on_group_delete, Crash
<1>2. ASSUME NEW fd \in Fds, NEW u, Own(fd, u), on_acount_delete(fd, u)
      PROVE  UNCHANGED sessions \/ SignsOff(fd, u)
  BY <1>2 DEF on_acount_delete, Crash, SignsOff, Own
<1>3. ASSUME NEW fd \in Fds, NEW l, At(conn_user_map, fd) = 0, ~SignedOnElsewhere(l),
             on_acount_login(fd, l)
      PROVE  Mistypes(fd) \/ \E u : SignsOn(fd, u)
  <2>1. CASE LoginError(l) = "OK"
    <3>1. SignsOn(fd, phone_hash_map[l.phone])
      BY <1>3, <2>1 DEF on_acount_login, SignedOnElsewhere, SignsOn, LoginError
    <3> QED
      BY <3>1
  <2>2. CASE LoginError(l) # "OK"
    BY <1>3, <2>2 DEF on_acount_login, Mistypes
  <2> QED
    BY <2>1, <2>2
<1>4. ASSUME NEW fd \in Fds, NEW u, Own(fd, u), on_acount_logout(fd, u)
      PROVE  SignsOff(fd, u)
  BY <1>4 DEF on_acount_logout, SignsOff, Own
<1>5. ASSUME NEW fd, NEW s, on_msg_send(fd, s.guid, s.msg)
      PROVE  UNCHANGED sessions
  BY <1>5 DEF on_msg_send
<1>6. CASE ClientRequest
  BY <1>1, <1>2, <1>3, <1>4, <1>5, <1>6 DEF ClientRequest, SessionsMove
<1>7. CASE \E fd \in Fds : Serving /\ Connect(fd)
  BY <1>7 DEF Connect, SessionsMove
<1>8. CASE \E fd \in Fds : Ready(fd) /\ func_close(fd)
  BY <1>8 DEF func_close, Hangs, SessionsMove
<1>9. CASE BeginDrain \/ UNCHANGED vars
  BY <1>9 DEF BeginDrain, vars, SessionsMove
<1>10. CASE Deliver
  BY <1>10, DeliverSessions DEF SessionsMove
<1> QED
  BY <1>6, <1>7, <1>8, <1>9, <1>10 DEF ClientNext

(* The two maps as they are stored, with guid 0 and socket 0 left out. *)
Paired ==
    /\ \A u \in DOMAIN user_conn_map :
           (u # 0 /\ user_conn_map[u] # 0) =>
               /\ user_conn_map[u] \in DOMAIN conn_user_map
               /\ conn_user_map[user_conn_map[u]] = u
    /\ \A fd \in DOMAIN conn_user_map :
           conn_user_map[fd] # 0 =>
               /\ fd \in open /\ fd # 0
               /\ conn_user_map[fd] \in DOMAIN user_conn_map
               /\ user_conn_map[conn_user_map[fd]] = fd

LEMMA PairedIsBijection == Paired => SessionBijection
BY LineFacts DEF Paired, SessionBijection, LoggedIn

LEMMA PairedStep ==
    ASSUME Paired, ServerInv, SessionsMove
    PROVE  Paired'
<1>0. 0 \notin Fds /\ 0 \notin Known
  BY NetAssumption DEF ServerInv, AccountsTyped, AccountMap, IsMap, Known
<1>1. CASE UNCHANGED sessions
  BY <1>1 DEF Paired, sessions
<1>2. ASSUME NEW fd \in Fds, open' = open \cup {fd},
             UNCHANGED <<conn_user_map, user_conn_map>>
      PROVE  Paired'
  BY <1>2 DEF Paired
<1>3. ASSUME NEW fd \in Fds, Hangs(fd)
      PROVE  Paired'
  <2> DEFINE u == At(conn_user_map, fd)
  <2>1. fd \in DOMAIN conn_user_map => conn_user_map[fd] = u
    BY DEF At
  <2>2. /\ DOMAIN conn_user_map' = DOMAIN conn_user_map \ {fd}
        /\ \A x \in DOMAIN conn_user_map' : conn_user_map'[x] = conn_user_map[x]
    BY <1>3, EraseFacts DEF Hangs, Unbound
  <2>3. /\ DOMAIN user_conn_map' = DOMAIN user_conn_map \ {u}
        /\ \A x \in DOMAIN user_conn_map' : user_conn_map'[x] = user_conn_map[x]
    BY <1>3, EraseFacts DEF Hangs, LineDropped
  <2>4. open' = open \ {fd}
    BY <1>3 DEF Hangs
  <2> HIDE DEF u
  <2>5. ASSUME NEW v \in DOMAIN user_conn_map', v # 0, user_conn_map'[v] # 0
        PROVE  /\ user_conn_map'[v] \in DOMAIN conn_user_map'
               /\ conn_user_map'[user_conn_map'[v]] = v
    BY <2>1, <2>2, <2>3, <2>5 DEF Paired
  <2>6. ASSUME NEW x \in DOMAIN conn_user_map', conn_user_map'[x] # 0
        PROVE  /\ x \in open' /\ x # 0
               /\ conn_user_map'[x] \in DOMAIN user_conn_map'
               /\ user_conn_map'[conn_user_map'[x]] = x
    <3>1. x \in DOMAIN conn_user_map /\ x # fd /\ conn_user_map'[x] = conn_user_map[x]
      BY <2>2
    <3>2. u \in DOMAIN user_conn_map /\ u = conn_user_map[x] /\ u # 0 => u # At(conn_user_map, fd)
      BY <3>1 DEF Paired, At
    <3> QED
      BY <2>3, <2>4, <2>6, <3>1, <3>2 DEF Paired, u
  <2> QED
    BY <2>5, <2>6 DEF Paired
<1>4. ASSUME NEW fd \in Fds, NEW u, Ready(fd), SignsOn(fd, u)
      PROVE  Paired'
  <2>1. /\ DOMAIN conn_user_map' = DOMAIN conn_user_map \cup {fd}
        /\ conn_user_map'[fd] = u
        /\ \A x \in DOMAIN conn_user_map : x # fd => conn_user_map'[x] = conn_user_map[x]
    BY <1>4 DEF SignsOn, Put
  <2>2. /\ DOMAIN user_conn_map' = DOMAIN user_conn_map \cup {u}
        /\ user_conn_map'[u] = fd
        /\ \A x \in DOMAIN user_conn_map : x # u => user_conn_map'[x] = user_conn_map[x]
    BY <1>4 DEF SignsOn, Put
  <2>3. /\ u # 0 /\ fd # 0 /\ fd \in open' /\ open' = open
        /\ fd \in DOMAIN conn_user_map => conn_user_map[fd] = 0
        /\ u \in DOMAIN user_conn_map => user_conn_map[u] = 0
    BY <1>0, <1>4, LineFacts DEF SignsOn, At, Ready
  <2> QED
    BY <2>1, <2>2, <2>3 DEF Paired
<1>5. ASSUME NEW fd \in Fds, Ready(fd), Mistypes(fd)
      PROVE  Paired'
  <2>1. /\ DOMAIN conn_user_map' = DOMAIN conn_user_map \cup {fd}
        /\ conn_user_map'[fd] = 0
        /\ \A x \in DOMAIN conn_user_map : x # fd => conn_user_map'[x] = conn_user_map[x]
    BY <1>5 DEF Mistypes, Put
  <2>2. /\ DOMAIN user_conn_map' = DOMAIN user_conn_map \cup {0}
        /\ \A x \in DOMAIN user_conn_map : x # 0 => user_conn_map'[x] = user_conn_map[x]
    BY <1>5 DEF Mistypes, Put
  <2>3. open' = open /\ (fd \in DOMAIN conn_user_map => conn_user_map[fd] = 0)
    BY <1>5 DEF Mistypes, At
  <2> QED
    BY <2>1, <2>2, <2>3 DEF Paired
<1>6. ASSUME NEW fd \in Fds, NEW u, Own(fd, u), SignsOff(fd, u)
      PROVE  Paired'
  <2>1. fd \in DOMAIN conn_user_map /\ conn_user_map[fd] = u /\ u # 0
    BY <1>6 DEF Own, At
  <2>2. u \in DOMAIN user_conn_map /\ user_conn_map[u] = fd
    BY <2>1 DEF Paired
  <2>3. conn_user_map' = Erase(Put(conn_user_map, fd, u), fd)
    BY <1>6, <2>1, <2>2 DEF SignsOff, SignedOff, At
  <2>4. /\ DOMAIN conn_user_map' = DOMAIN conn_user_map \ {fd}
        /\ \A x \in DOMAIN conn_user_map' : conn_user_map'[x] = conn_user_map[x]
    <3> DEFINE f == Put(conn_user_map, fd, u)
    <3>1. /\ DOMAIN f = DOMAIN conn_user_map \cup {fd}
          /\ \A x \in DOMAIN conn_user_map : x # fd => f[x] = conn_user_map[x]
      BY DEF Put
    <3>2. /\ DOMAIN Erase(f, fd) = DOMAIN f \ {fd}
          /\ \A x \in DOMAIN f \ {fd} : Erase(f, fd)[x] = f[x]
      BY EraseFacts
    <3> HIDE DEF f
    <3> QED
      BY <2>1, <2>3, <3>1, <3>2 DEF f
  <2>5. /\ DOMAIN user_conn_map' = DOMAIN user_conn_map \ {u}
        /\ \A x \in DOMAIN user_conn_map' : user_conn_map'[x] = user_conn_map[x]
    BY <1>6, EraseFacts DEF SignsOff, LineDropped
  <2> QED
    BY <1>6, <2>1, <2>2, <2>4, <2>5 DEF Paired, SignsOff
<1>7. CASE FilesSender
  <2>1. PICK u : user_conn_map' = Put(user_conn_map, u, At(user_conn_map, u))
    BY <1>7 DEF FilesSender
  <2>2. /\ DOMAIN user_conn_map' = DOMAIN user_conn_map \cup {u}
        /\ user_conn_map'[u] = At(user_conn_map, u)
        /\ \A x \in DOMAIN user_conn_map : x # u => user_conn_map'[x] = user_conn_map[x]
    BY <2>1 DEF Put
  <2>3. UNCHANGED <<conn_user_map, open>>
    BY <1>7 DEF FilesSender
  <2> QED
    BY <2>2, <2>3 DEF Paired, At
<1> QED
  BY <1>1, <1>2, <1>3, <1>4, <1>5, <1>6, <1>7 DEF SessionsMove

LEMMA PairedAlways == ClientSpec => []Paired
<1>1. Init => Paired
  BY DEF Init, Paired, EmptyMap
<1>2. ServerInv /\ Paired /\ [ClientNext]_vars => Paired'
  BY SessionsStep, PairedStep
<1> QED
  BY <1>1, <1>2, ClientServerAlways, PTL DEF ClientSpec

(* The two maps are inverse to each other for ever: nobody is signed on     *)
(* over a socket that is bound to another account, or that was closed, over *)
(* any mix of failed logins, closes, logouts, deletions and senders who are *)
(* gone (read_thread.cpp:243-345, 809-830, 1012).                           *)
THEOREM SessionsPairUp == ClientSpec => []SessionBijection
<1>1. Paired => SessionBijection
  BY PairedIsBijection
<1> QED
  BY <1>1, PairedAlways, PTL

-----------------------------------------------------------------------------
(* Accounts and their sessions. *)

(* Whoever is online stays so unless its line is dropped. *)
StaysOnline(v) == \/ v \in DOMAIN users' /\ users'[v].online
                  \/ user_conn_map' = LineDropped(v)

LEMMA OnlineStep ==
    ASSUME ServerInv, [ClientNext]_vars, NEW v \in Known, users[v].online
    PROVE  StaysOnline(v)
<1>0. AccountMap(users) /\ RoomGuids /\ \A u \in DOMAIN users : users[u] \in AccountType
  BY DEF ServerInv, AccountsTyped, AccountMap, IsMap
<1>1. CASE UNCHANGED accounts
  BY <1>1 DEF StaysOnline, accounts, Known
<1>2. CASE Rewrites /\ SameOnline(users', users)
  BY <1>2 DEF StaysOnline, Rewrites, SamePhones, SameOnline, Known
<1>3. ASSUME NEW u, users' = SetOnline(users, u, TRUE)
      PROVE  StaysOnline(v)
  BY <1>0, <1>3 DEF StaysOnline, SetOnline, Known, AccountType
<1>4. ASSUME NEW u, users' = SetOnline(users, u, FALSE), user_conn_map' = LineDropped(u)
      PROVE  StaysOnline(v)
  BY <1>4 DEF StaysOnline, SetOnline, Known
<1>5. ASSUME NEW w, NEW u, users' = Put(users, u, Account(w, TRUE))
      PROVE  StaysOnline(v)
  BY <1>5 DEF StaysOnline, Put, Account, Known
<1>6. ASSUME NEW u, users' = Erase(users, u), user_conn_map' = LineDropped(u)
      PROVE  StaysOnline(v)
  BY <1>6 DEF StaysOnline, Known, Erase, Restrict
<1>7. CASE ClientRequest
  <2>1. ASSUME NEW fd, NEW w, on_acount_add(fd, w)
        PROVE  StaysOnline(v)
    BY <1>1, <1>5, <2>1 DEF on_acount_add, Crash
  <2>2. ASSUME NEW fd, NEW w \in Input.acount_modify, w.online, on_acount_modify(fd, w)
        PROVE  StaysOnline(v)
    <3>1. w.online = TRUE
      BY <2>2, InputAssumption
    <3> QED
      BY <1>1, <1>5, <2>2, <3>1 DEF on_acount_modify, Crash
  <2>3. ASSUME NEW fd, NEW u, on_acount_delete(fd, u)
        PROVE  StaysOnline(v)
    BY <1>1, <1>6, <2>3 DEF on_acount_delete, Crash
  <2>4. ASSUME NEW fd, NEW l, on_acount_login(fd, l)
        PROVE  StaysOnline(v)
    BY <1>3, <2>4 DEF on_acount_login
  <2>5. ASSUME NEW fd, NEW u, on_acount_logout(fd, u)
        PROVE  StaysOnline(v)
    BY <1>1, <1>4, <2>5 DEF on_acount_logout
  <2>6. ASSUME NEW fd, NEW w \in Input.group_add, on_group_add(fd, w)
        PROVE  StaysOnline(v)
    BY <1>0, <1>2, <2>6, GroupAddAccounts
  <2>7. ASSUME NEW fd, NEW w \in Input.group_modify, on_group_modify(fd, w)
        PROVE  StaysOnline(v)
    BY <1>0, <1>2, <2>7, GroupModifyAccounts
  <2>8. ASSUME NEW fd, NEW w, on_group_delete(fd, w)
        PROVE  StaysOnline(v)
    BY <1>0, <1>2, <2>8, GroupDeleteAccounts
  <2>9. ASSUME NEW fd, NEW s, on_msg_send(fd, s.guid, s.msg)
        PROVE  StaysOnline(v)
    BY <1>1, <2>9 DEF on_msg_send
  <2> QED
    BY <1>7, <2>1, <2>2, <2>3, <2>4, <2>5, <2>6, <2>7, <2>8, <2>9 DEF ClientRequest
<1>8. CASE \E fd \in Fds : Ready(fd) /\ func_close(fd)
  BY <1>4, <1>8 DEF func_close
<1>9. CASE (\E fd \in Fds : Serving /\ Connect(fd)) \/ BeginDrain \/ UNCHANGED vars
  BY <1>1, <1>9 DEF Connect, BeginDrain, vars
<1>10. CASE Deliver
  BY <1>1, <1>10 DEF Deliver, deliver_to_group, group_delivery_faults, deliver_to_user,
                     deliver_to_all, deliver_other, Crash
<1> QED
  BY <1>7, <1>8, <1>9, <1>10 DEF ClientNext

(* A socket that is logged in after a step was so before, or has just found *)
(* its account.                                                             *)
LEMMA LoggedInStep ==
    ASSUME ServerInv, SessionsMove, NEW fd \in LoggedIn'
    PROVE  \/ fd \in LoggedIn /\ conn_user_map'[fd] = conn_user_map[fd]
           \/ /\ conn_user_map'[fd] \in DOMAIN users'
              /\ users'[conn_user_map'[fd]].online
<1>0. fd \in DOMAIN conn_user_map' /\ conn_user_map'[fd] # 0
  BY DEF LoggedIn
<1>1. CASE UNCHANGED conn_user_map
  BY <1>0, <1>1 DEF LoggedIn
<1>2. ASSUME NEW d, NEW u, SignsOn(d, u)
      PROVE  \/ fd \in LoggedIn /\ conn_user_map'[fd] = conn_user_map[fd]
             \/ /\ conn_user_map'[fd] \in DOMAIN users'
                /\ users'[conn_user_map'[fd]].online
  <2>1. CASE fd = d
    <3>1. conn_user_map'[fd] = u
      BY <1>2, <2>1 DEF SignsOn, Put
    <3>2. u \in DOMAIN users /\ users[u] \in AccountType
      BY <1>2 DEF SignsOn, ServerInv, AccountsTyped, AccountMap, IsMap, Known
    <3> QED
      BY <1>2, <3>1, <3>2 DEF SignsOn, SetOnline, AccountType
  <2>2. CASE fd # d
    BY <1>0, <1>2, <2>2 DEF SignsOn, Put, LoggedIn
  <2> QED
    BY <2>1, <2>2
<1>3. ASSUME NEW d, Mistypes(d)
      PROVE  fd \in LoggedIn /\ conn_user_map'[fd] = conn_user_map[fd]
  BY <1>0, <1>3 DEF Mistypes, Put, LoggedIn
<1>4. ASSUME NEW d, Hangs(d)
      PROVE  fd \in LoggedIn /\ conn_user_map'[fd] = conn_user_map[fd]
  BY <1>0, <1>4 DEF Hangs, Unbound, Erase, Restrict, LoggedIn
<1>5. ASSUME NEW d, NEW u, Own(d, u), SignsOff(d, u)
      PROVE  fd \in LoggedIn /\ conn_user_map'[fd] = conn_user_map[fd]
  <2> DEFINE f == Put(conn_user_map, d, At(conn_user_map, d))
             x == At(user_conn_map, u)
  <2>1. f = conn_user_map \/ DOMAIN f = DOMAIN conn_user_map
    BY <1>5 DEF Own, At, Put
  <2>2. \A y \in DOMAIN conn_user_map : f[y] = conn_user_map[y]
    BY DEF Put, At
  <2>3. conn_user_map' = Erase(f, x)
    BY <1>5 DEF SignsOff, SignedOff
  <2> HIDE DEF f, x
  <2>4. fd \in DOMAIN f /\ conn_user_map'[fd] = f[fd]
    BY <1>0, <2>3 DEF Erase, Restrict
  <2> QED
    BY <1>0, <2>1, <2>2, <2>4 DEF LoggedIn
<1> QED
  BY <1>1, <1>2, <1>3, <1>4, <1>5 DEF SessionsMove, FilesSender, sessions

(* A socket is logged in only as an account that exists and is shown as     *)
(* online: no sequence of logins, changes of the account, logouts, closes   *)
(* and deletions leaves a socket speaking for an account that has gone      *)
(* (read_thread.cpp:237-296, 340-350, 809-830).  That the maps are inverse  *)
(* to each other is what shows that the socket of an account that leaves is *)
(* the one whose entry is erased.                                           *)
THEOREM SessionsHaveAccounts == ClientSpec => []SessionsOfAccounts
<1>1. Init => SessionsOfAccounts
  BY DEF Init, SessionsOfAccounts, LoggedIn, EmptyMap
<1>2. /\ ServerInv /\ Paired /\ Paired' /\ SessionsOfAccounts
      /\ [ClientNext]_vars
      => SessionsOfAccounts'
  <2> SUFFICES ASSUME ServerInv, Paired, Paired', SessionsOfAccounts, [ClientNext]_vars,
                      NEW fd \in LoggedIn'
               PROVE  /\ conn_user_map'[fd] \in DOMAIN users'
                      /\ users'[conn_user_map'[fd]].online
    BY DEF SessionsOfAccounts, Known
  <2>1. SessionsMove
    BY SessionsStep
  <2>2. CASE fd \in LoggedIn /\ conn_user_map'[fd] = conn_user_map[fd]
    <3> DEFINE u == conn_user_map[fd]
    <3>1. u \in Known /\ users[u].online
      BY <2>2 DEF SessionsOfAccounts
    <3>2. StaysOnline(u)
      BY <3>1, OnlineStep
    <3>3. user_conn_map' # LineDropped(u)
      <4>1. u \in DOMAIN user_conn_map'
        BY <2>2 DEF Paired, LoggedIn
      <4> QED
        BY <4>1 DEF LineDropped, Erase, Restrict
    <3> QED
      BY <2>2, <3>2, <3>3 DEF StaysOnline
  <2> QED
    BY <2>1, <2>2, LoggedInStep
<1> QED
  BY <1>1, <1>2, ClientServerAlways, PairedAlways, PTL DEF ClientSpec

-----------------------------------------------------------------------------
(* What a new account finds. *)

(* How the accounts change: a new one gets the next guid. *)
ClientAccountsMove ==
    \/ Rewrites
    \/ \E w \in Input.acount_add : w.user_guid = 0 /\ Registers(w)
    \/ \E w \in Input.acount_modify : Replaces(w)
    \/ \E u \in Input.acount_delete : Closes(u)

LEMMA ClientAccountsStep ==
    ASSUME AccountMap(users), RoomGuids, [ClientNext]_vars
    PROVE  ClientAccountsMove
<1>1. ASSUME NEW fd, NEW w \in Input.acount_add, on_acount_add(fd, w)
      PROVE  Rewrites \/ Registers(w)
  BY <1>1, KeptAccounts DEF on_acount_add, Crash, Registers, GuidTaken
<1>2. ASSUME NEW fd, NEW w \in Input.acount_modify, on_acount_modify(fd, w)
      PROVE  Rewrites \/ Replaces(w)
  BY <1>2, KeptAccounts DEF on_acount_modify, Crash, Replaces
<1>3. ASSUME NEW fd, NEW u \in Input.acount_delete, on_acount_delete(fd, u)
      PROVE  Rewrites \/ Closes(u)
  BY <1>3, KeptAccounts DEF on_acount_delete, Crash, Closes
<1>4. ASSUME NEW fd, NEW l, on_acount_login(fd, l)
      PROVE  Rewrites
  BY <1>4, SetOnlineAccounts DEF on_acount_login, Rewrites
<1>5. ASSUME NEW fd, NEW u, on_acount_logout(fd, u)
      PROVE  Rewrites
  BY <1>5, KeptAccounts, SetOnlineAccounts DEF on_acount_logout, Rewrites
<1>6. ASSUME NEW fd, NEW w \in Input.group_add, on_group_add(fd, w)
      PROVE  Rewrites
  BY <1>6, GroupAddAccounts
<1>7. ASSUME NEW fd, NEW w \in Input.group_modify, on_group_modify(fd, w)
      PROVE  Rewrites
  BY <1>7, GroupModifyAccounts
<1>8. ASSUME NEW fd, NEW w, on_group_delete(fd, w)
      PROVE  Rewrites
  BY <1>8, GroupDeleteAccounts
<1>9. ASSUME NEW fd, NEW s, on_msg_send(fd, s.guid, s.msg)
      PROVE  Rewrites
  BY <1>9, KeptAccounts DEF on_msg_send
<1>10. CASE ClientRequest
  BY <1>1, <1>2, <1>3, <1>4, <1>5, <1>6, <1>7, <1>8, <1>9, <1>10
     DEF ClientRequest, ClientAccountsMove
<1>11. CASE \E fd \in Fds : Serving /\ Connect(fd)
  BY <1>11, KeptAccounts DEF Connect, ClientAccountsMove
<1>12. CASE \E fd \in Fds : Ready(fd) /\ func_close(fd)
  BY <1>12, SetOnlineAccounts DEF func_close, Rewrites, ClientAccountsMove
<1>13. CASE BeginDrain \/ UNCHANGED vars
  BY <1>13, KeptAccounts DEF BeginDrain, vars, ClientAccountsMove
<1>14. CASE Deliver
  BY <1>14, KeptAccounts
     DEF Deliver, deliver_to_group, group_delivery_faults, deliver_to_user,
         deliver_to_all, deliver_other, Crash, ClientAccountsMove
<1> QED
  BY <1>10, <1>11, <1>12, <1>13, <1>14 DEF ClientNext

(* Whoever comes into a group is registered. *)
MembersMove ==
    \A g \in DOMAIN groups' : \A v :
        InGroup(groups'[g], v) => \/ v \in DOMAIN users'
                                  \/ g \in DOMAIN groups /\ InGroup(groups[g], v)

LEMMA KeptMembers ==
    ASSUME UNCHANGED groups
    PROVE  MembersMove
BY DEF MembersMove

LEMMA MembersStep ==
    ASSUME ServerInv, [ClientNext]_vars
    PROVE  MembersMove
<1>0. RoomsWellFormed /\ KnownTyped /\ AccountMap(users) /\ RoomGuids
  BY DEF ServerInv, AccountsTyped
<1>1. ASSUME NEW fd, NEW w \in Input.acount_add, on_acount_add(fd, w)
      PROVE  MembersMove
  <2> DEFINE u == GivenGuid(w)
  <2>1. CASE UNCHANGED groups
    BY <2>1, KeptMembers
  <2>2. ASSUME 1 \in DOMAIN groups, u <= MaxGuid,
               NEW g \in InPublicRoom(groups[1], u, Cardinality(Known \cup {u})),
               users' = Put(users, u, Account(w, TRUE)), groups' = Put(groups, 1, g)
        PROVE  MembersMove
    <3>1. u \in Guid
      BY <1>0, <2>2, InputAssumption, BoundsAssumption DEF GivenGuid, KnownTyped, Guid
    <3>2. \A v : InGroup(g, v) => InGroup(groups[1], v) \/ v = u
      BY <1>0, <2>2, <3>1, InPublicRoomMembers DEF RoomsWellFormed
    <3> HIDE DEF u
    <3>3. u \in DOMAIN users'
      BY <2>2 DEF Put
    <3>4. \A r \in DOMAIN groups' : /\ r \in DOMAIN groups
                                    /\ groups'[r] = IF r = 1 THEN g ELSE groups[r]
      BY <2>2 DEF Put
    <3> QED
      BY <3>2, <3>3, <3>4 DEF MembersMove
  <2> QED
    BY <1>1, <2>1, <2>2 DEF on_acount_add, Crash
<1>2. ASSUME NEW fd, NEW u, on_acount_delete(fd, u)
      PROVE  MembersMove
  BY <1>0, <1>2, AcountDeleteMembers DEF MembersMove, LosesOnly
<1>3. ASSUME NEW fd, NEW w \in Input.group_add, on_group_add(fd, w),
             \A i \in DOMAIN w.roster : w.roster[i].user_guid \in Known
      PROVE  MembersMove
  <2> DEFINE parsed == FromData(w.learder_guid, w.roster, w.member_count)
             g == CopyOf(Normalised(parsed, Known))
  <2>1. CASE UNCHANGED groups
    BY <2>1, KeptMembers
  <2>2. CASE GroupAddError(w) = "OK" /\ groups' = Put(groups, GivenGroup(w), g)
    <3>0. w.learder_guid \in Guid
      BY <1>0, <2>2 DEF GroupAddError, KnownTyped
    <3>1. /\ w.roster \in Seq(Member) /\ Len(w.roster) <= MaxNodes
          /\ w.member_count \in Nat
      BY InputAssumption, BoundsAssumption
    <3>2. IsGroup(parsed) /\ IsGroup(Normalised(parsed, Known))
      BY <3>0, <3>1, FromDataWellFormed, NormalisedWellFormed DEF WellFormed
    <3>3. \A v : InGroup(parsed, v) => v \in Known
      BY <1>3, <3>1, FromDataMembers
    <3> HIDE DEF parsed
    <3>4. SameMembers(Normalised(parsed, Known), parsed)
      BY <3>2, OtherMethodsMembers
    <3>5. SameMembers(g, Normalised(parsed, Known))
      BY <3>2, OtherMethodsMembers
    <3>6. \A v : InGroup(g, v) => v \in Known
      BY <3>3, <3>4, <3>5 DEF SameMembers
    <3> HIDE DEF g
    <3>7. DOMAIN users' = Known
      BY <1>0, <1>3, GroupAddAccounts DEF Rewrites, SamePhones, Known
    <3>8. \A r \in DOMAIN groups' :
              groups'[r] = g \/ (r \in DOMAIN groups /\ groups'[r] = groups[r])
      BY <2>2 DEF Put
    <3> QED
      BY <3>6, <3>7, <3>8 DEF MembersMove
  <2> QED
    BY <1>3, <2>1, <2>2 DEF on_group_add
<1>4. ASSUME NEW fd, NEW w \in Input.group_modify, on_group_modify(fd, w)
      PROVE  MembersMove
  <2>1. CASE UNCHANGED groups
    BY <2>1, KeptMembers
  <2>2. CASE /\ GroupModifyError(w) = "OK" /\ Granted(w)
             /\ \E h \in Modified(w) : groups' = [groups EXCEPT ![w.group_guid] = h]
    <3>1. w.target_guid \in Known
      BY <2>2 DEF GroupModifyError, Granted
    <3>2. DOMAIN users' = Known
      BY <1>0, <1>4, GroupModifyAccounts DEF Rewrites, SamePhones, Known
    <3>3. \A h \in Modified(w) : \A v :
              InGroup(h, v) => InGroup(groups[w.group_guid], v) \/ v = w.target_guid
      BY <1>0, <2>2, ModifiedMembers
    <3> QED
      BY <2>2, <3>1, <3>2, <3>3 DEF MembersMove
  <2> QED
    BY <1>4, <2>1, <2>2 DEF on_group_modify, Crash
<1>5. ASSUME NEW fd, NEW w, on_group_delete(fd, w)
      PROVE  MembersMove
  BY <1>5 DEF on_group_delete, Crash, Erase, Restrict, MembersMove
<1>6. ASSUME NEW fd, NEW w,
             on_acount_modify(fd, w) \/ on_acount_login(fd, w) \/ on_acount_logout(fd, w)
      PROVE  MembersMove
  BY <1>6, KeptMembers DEF on_acount_modify, on_acount_login, on_acount_logout, Crash
<1>7. ASSUME NEW fd, NEW s, on_msg_send(fd, s.guid, s.msg)
      PROVE  MembersMove
  BY <1>7, KeptMembers DEF on_msg_send
<1>8. CASE ClientRequest
  BY <1>1, <1>2, <1>3, <1>4, <1>5, <1>6, <1>7, <1>8 DEF ClientRequest
<1>9. CASE Deliver
  BY <1>0, <1>9, DeliverMembers DEF MembersMove
<1>10. CASE \/ \E fd \in Fds : Serving /\ Connect(fd)
            \/ \E fd \in Fds : Ready(fd) /\ func_close(fd)
            \/ BeginDrain \/ UNCHANGED vars
  BY <1>10, KeptMembers DEF Connect, func_close, BeginDrain, vars
<1> QED
  BY <1>8, <1>9, <1>10 DEF ClientNext

(* The public room is never erased. *)
LEMMA RoomOneStays ==
    ASSUME ServerInv, 1 \in DOMAIN groups, [ClientNext]_vars
    PROVE  1 \in DOMAIN groups'
<1>1. ASSUME NEW fd, NEW w, on_acount_add(fd, w) \/ on_group_add(fd, w)
      PROVE  1 \in DOMAIN groups'
  BY <1>1 DEF on_acount_add, on_group_add, Crash, Put
<1>2. ASSUME NEW fd, NEW u, on_acount_delete(fd, u)
      PROVE  1 \in DOMAIN groups'
  BY <1>2, AcountDeleteMembers DEF ServerInv
<1>3. ASSUME NEW fd, NEW w, on_group_modify(fd, w)
      PROVE  1 \in DOMAIN groups'
  BY <1>3 DEF on_group_modify, Crash
<1>4. ASSUME NEW fd, NEW w, w.group_guid # 1, on_group_delete(fd, w)
      PROVE  1 \in DOMAIN groups'
  BY <1>4 DEF on_group_delete, Crash, Erase, Restrict
<1>5. ASSUME NEW fd, NEW w,
             on_acount_modify(fd, w) \/ on_acount_login(fd, w) \/ on_acount_logout(fd, w)
      PROVE  1 \in DOMAIN groups'
  BY <1>5 DEF on_acount_modify, on_acount_login, on_acount_logout, Crash
<1>6. ASSUME NEW fd, NEW s, on_msg_send(fd, s.guid, s.msg)
      PROVE  1 \in DOMAIN groups'
  BY <1>6 DEF on_msg_send
<1>7. CASE ClientRequest
  BY <1>1, <1>2, <1>3, <1>4, <1>5, <1>6, <1>7 DEF ClientRequest
<1>8. CASE Deliver
  BY <1>8, DeliverMembers DEF ServerInv
<1>9. CASE \/ \E fd \in Fds : Serving /\ Connect(fd)
           \/ \E fd \in Fds : Ready(fd) /\ func_close(fd)
           \/ BeginDrain \/ UNCHANGED vars
  BY <1>9 DEF Connect, func_close, BeginDrain, vars
<1> QED
  BY <1>7, <1>8, <1>9 DEF ClientNext

(* Whatever is kept of an account, here or gone, was given out.  The rooms  *)
(* come in because a message files its sender, who is in one of them.       *)
NumbersGiven ==
    /\ GuidsGiven
    /\ \A fd \in DOMAIN conn_user_map : conn_user_map[fd] <= global_user_guid
    /\ \A u \in DOMAIN user_conn_map : u <= global_user_guid
    /\ \A p \in DOMAIN phone_hash_map : phone_hash_map[p] <= global_user_guid
    /\ \A g \in DOMAIN groups : \A v : InGroup(groups[g], v) => v <= global_user_guid
    /\ 1 \in DOMAIN groups

(* The accounts' part of it. *)
LEMMA AccountNumbersStep ==
    ASSUME ServerInv, NumbersGiven, ClientAccountsMove
    PROVE  /\ GuidsGiven' /\ global_user_guid <= global_user_guid'
           /\ \A p \in DOMAIN phone_hash_map' : phone_hash_map'[p] <= global_user_guid'
<1>0. /\ global_user_guid \in Nat /\ Known \subseteq Nat
      /\ \A p \in DOMAIN phone_hash_map : phone_hash_map[p] \in Nat
  BY DEF ServerInv, AccountsTyped, Guid, AccountMap, IsMap, Known
<1>1. CASE Rewrites
  BY <1>0, <1>1 DEF Rewrites, SamePhones, NumbersGiven, GuidsGiven, Known
<1>2. ASSUME NEW w \in Input.acount_add, w.user_guid = 0, Registers(w)
      PROVE  /\ GuidsGiven' /\ global_user_guid <= global_user_guid'
             /\ \A p \in DOMAIN phone_hash_map' : phone_hash_map'[p] <= global_user_guid'
  <2> DEFINE u == GivenGuid(w)
  <2>1. u = global_user_guid + 1 /\ global_user_guid' = global_user_guid + 1
    BY <1>2 DEF GivenGuid, Registers
  <2>2. DOMAIN users' = Known \cup {u}
    BY <1>2 DEF Registers, Put, Known
  <2>3. \A p \in DOMAIN phone_hash_map' :
            \/ phone_hash_map'[p] = u
            \/ p \in DOMAIN phone_hash_map /\ phone_hash_map'[p] = phone_hash_map[p]
    BY <1>2 DEF Registers, Put
  <2> HIDE DEF u
  <2> QED
    BY <1>0, <2>1, <2>2, <2>3 DEF NumbersGiven, GuidsGiven, Known
<1>3. ASSUME NEW w, Replaces(w)
      PROVE  /\ GuidsGiven' /\ global_user_guid <= global_user_guid'
             /\ \A p \in DOMAIN phone_hash_map' : phone_hash_map'[p] <= global_user_guid'
  <2> DEFINE u == GivenGuid(w)
             left == Erase(phone_hash_map, users[u].phone)
  <2>1. u \in Known /\ u <= global_user_guid /\ global_user_guid' = global_user_guid
    BY <1>3 DEF Replaces, NumbersGiven, GuidsGiven
  <2>2. DOMAIN users' = Known
    BY <1>3, <2>1 DEF Replaces, Put, Known
  <2>3. \A p \in DOMAIN left : p \in DOMAIN phone_hash_map /\ left[p] = phone_hash_map[p]
    BY DEF Erase, Restrict
  <2>4. phone_hash_map' = Put(left, w.phone, u)
    BY <1>3 DEF Replaces, Rephoned
  <2> HIDE DEF u, left
  <2>5. \A p \in DOMAIN phone_hash_map' :
            phone_hash_map'[p] = u \/ (p \in DOMAIN left /\ phone_hash_map'[p] = left[p])
    BY <2>4 DEF Put
  <2> QED
    BY <1>0, <2>1, <2>2, <2>3, <2>5 DEF NumbersGiven, GuidsGiven, Known
<1>4. ASSUME NEW u, Closes(u)
      PROVE  /\ GuidsGiven' /\ global_user_guid <= global_user_guid'
             /\ \A p \in DOMAIN phone_hash_map' : phone_hash_map'[p] <= global_user_guid'
  BY <1>0, <1>4 DEF Closes, Erase, Restrict, NumbersGiven, GuidsGiven, Known
<1> QED
  BY <1>1, <1>2, <1>3, <1>4 DEF ClientAccountsMove

(* The sessions' part of it: what is filed is 0, a member of a group, or an *)
(* account.                                                                 *)
LEMMA SessionNumbersStep ==
    ASSUME ServerInv, NumbersGiven, SessionsMove
    PROVE  /\ \A fd \in DOMAIN conn_user_map' : conn_user_map'[fd] <= global_user_guid
           /\ \A u \in DOMAIN user_conn_map' : u <= global_user_guid
<1>0. global_user_guid \in Nat
  BY DEF ServerInv, AccountsTyped, Guid
<1>1. CASE UNCHANGED <<conn_user_map, user_conn_map>>
  BY <1>1 DEF NumbersGiven
<1>2. ASSUME NEW fd, NEW u, u <= global_user_guid,
             user_conn_map' = Put(user_conn_map, u, fd),
             conn_user_map' = Put(conn_user_map, fd, u)
      PROVE  /\ \A x \in DOMAIN conn_user_map' : conn_user_map'[x] <= global_user_guid
             /\ \A v \in DOMAIN user_conn_map' : v <= global_user_guid
  BY <1>2 DEF Put, NumbersGiven
<1>3. CASE \E fd \in Fds : \E u : SignsOn(fd, u)
  BY <1>2, <1>3 DEF SignsOn, NumbersGiven, GuidsGiven
<1>4. CASE \E fd \in Fds : Mistypes(fd)
  BY <1>0, <1>2, <1>4 DEF Mistypes
<1>5. CASE \E fd \in Fds : Hangs(fd)
  BY <1>5 DEF Hangs, Unbound, LineDropped, Erase, Restrict, NumbersGiven
<1>6. ASSUME NEW fd, NEW u, Own(fd, u), SignsOff(fd, u)
      PROVE  /\ \A x \in DOMAIN conn_user_map' : conn_user_map'[x] <= global_user_guid
             /\ \A v \in DOMAIN user_conn_map' : v <= global_user_guid
  <2> DEFINE f == Put(conn_user_map, fd, At(conn_user_map, fd))
  <2>1. \A x \in DOMAIN f : x \in DOMAIN conn_user_map /\ f[x] = conn_user_map[x]
    BY <1>6 DEF Own, At, Put
  <2>2. conn_user_map' = Erase(f, At(user_conn_map, u))
    BY <1>6 DEF SignsOff, SignedOff
  <2> HIDE DEF f
  <2>3. \A x \in DOMAIN conn_user_map' : x \in DOMAIN f /\ conn_user_map'[x] = f[x]
    BY <2>2 DEF Erase, Restrict
  <2>4. DOMAIN user_conn_map' \subseteq DOMAIN user_conn_map
    BY <1>6 DEF SignsOff, LineDropped, Erase, Restrict
  <2> QED
    BY <2>1, <2>3, <2>4 DEF NumbersGiven
<1>7. CASE FilesSender
  BY <1>7 DEF FilesSender, Put, NumbersGiven
<1> QED
  BY <1>1, <1>3, <1>4, <1>5, <1>6, <1>7 DEF SessionsMove, sessions

LEMMA NumbersStep ==
    ASSUME ServerInv, ServerInv', NumbersGiven, [ClientNext]_vars
    PROVE  NumbersGiven'
<1>1. ClientAccountsMove /\ SessionsMove /\ MembersMove /\ 1 \in DOMAIN groups'
  BY ClientAccountsStep, SessionsStep, MembersStep, RoomOneStays
     DEF ServerInv, AccountsTyped, NumbersGiven
<1>2. /\ GuidsGiven' /\ global_user_guid <= global_user_guid'
      /\ \A p \in DOMAIN phone_hash_map' : phone_hash_map'[p] <= global_user_guid'
  BY <1>1, AccountNumbersStep
<1>3. global_user_guid \in Nat /\ global_user_guid' \in Nat
  BY DEF ServerInv, AccountsTyped, Guid
<1>4. /\ \A fd \in DOMAIN conn_user_map' : conn_user_map'[fd] \in Nat
      /\ \A u \in DOMAIN user_conn_map' : u \in Nat
  BY DEF ServerInv, SessionsTyped, IsMap, Guid
<1>5. /\ \A fd \in DOMAIN conn_user_map' : conn_user_map'[fd] <= global_user_guid
      /\ \A u \in DOMAIN user_conn_map' : u <= global_user_guid
  BY <1>1, SessionNumbersStep
<1>6. \A g \in DOMAIN groups' : \A v : InGroup(groups'[g], v) => v <= global_user_guid'
  <2> SUFFICES ASSUME NEW g \in DOMAIN groups', NEW v, InGroup(groups'[g], v)
               PROVE  v <= global_user_guid'
    OBVIOUS
  <2>1. WellFormed(groups'[g])
    BY DEF ServerInv, RoomsWellFormed
  <2>2. v \in Nat
    BY <2>1, InGroupGuid DEF Guid
  <2>3. CASE v \in DOMAIN users'
    BY <1>2, <2>3 DEF GuidsGiven, Known
  <2>4. CASE g \in DOMAIN groups /\ InGroup(groups[g], v)
    BY <1>2, <1>3, <2>2, <2>4 DEF NumbersGiven
  <2> QED
    BY <1>1, <2>3, <2>4 DEF MembersMove
<1>7. /\ \A fd \in DOMAIN conn_user_map' : conn_user_map'[fd] <= global_user_guid'
      /\ \A u \in DOMAIN user_conn_map' : u <= global_user_guid'
  BY <1>2, <1>3, <1>4, <1>5
<1> QED
  BY <1>1, <1>2, <1>6, <1>7 DEF NumbersGiven

(* Nothing that an earlier account left behind is taken over by a new one:  *)
(* no socket is bound to its guid, no line leads to it, no phone, and no    *)
(* group has a member of that guid (read_thread.cpp:110-165).  A guid that   *)
(* was given out is never given again, and the sessions, the phones and the *)
(* rooms know no guid that was not; entries of people who have gone stay,   *)
(* and so do members of groups whose account was deleted.                   *)
THEOREM NewAccountsAreNew == ClientSpec => NewcomerIsNew
<1> DEFINE New ==
        \A u \in DOMAIN users' \ Known :
            /\ \A fd \in DOMAIN conn_user_map : conn_user_map[fd] # u
            /\ u \notin DOMAIN user_conn_map
            /\ \A p \in DOMAIN phone_hash_map : phone_hash_map[p] # u
            /\ ~InGroup(groups[1], u)
<1>1. Init => NumbersGiven
  <2> SUFFICES ASSUME Init PROVE NumbersGiven
    OBVIOUS
  <2>1. \A v : ~InGroup(NewGroup(0), v)
    BY DEF NewGroup, InGroup, Managers, Normals, EmptyMap
  <2>2. \A g \in DOMAIN groups : groups[g] = NewGroup(0)
    BY DEF Init
  <2>3. GuidsGiven
    BY DEF Init, GuidsGiven, Known, EmptyMap
  <2>4. /\ DOMAIN conn_user_map = {} /\ DOMAIN user_conn_map = {}
        /\ DOMAIN phone_hash_map = {} /\ 1 \in DOMAIN groups
    BY DEF Init, EmptyMap
  <2> QED
    BY <2>1, <2>2, <2>3, <2>4 DEF NumbersGiven
<1>2. ServerInv /\ ServerInv' /\ NumbersGiven /\ [ClientNext]_vars => NumbersGiven'
  BY NumbersStep
<1>3. ServerInv /\ NumbersGiven /\ [ClientNext]_vars => [New]_vars
  <2> SUFFICES ASSUME ServerInv, NumbersGiven, [ClientNext]_vars,
                      NEW u \in DOMAIN users' \ Known
               PROVE  /\ \A fd \in DOMAIN conn_user_map : conn_user_map[fd] # u
                      /\ u \notin DOMAIN user_conn_map
                      /\ \A p \in DOMAIN phone_hash_map : phone_hash_map[p] # u
                      /\ ~InGroup(groups[1], u)
    OBVIOUS
  <2>1. ClientAccountsMove
    BY ClientAccountsStep DEF ServerInv, AccountsTyped
  <2>2. ~Rewrites
    BY DEF Rewrites, SamePhones, Known
  <2>3. \A w : ~Replaces(w)
    BY DEF Replaces, Put, Known
  <2>4. \A v : ~Closes(v)
    BY DEF Closes, Erase, Restrict, Known
  <2>5. PICK w \in Input.acount_add : w.user_guid = 0 /\ Registers(w)
    BY <2>1, <2>2, <2>3, <2>4 DEF ClientAccountsMove
  <2>6. u = global_user_guid + 1
    BY <2>5 DEF Registers, GivenGuid, Put, Known
  <2>7. global_user_guid \in Nat
    BY DEF ServerInv, AccountsTyped, Guid
  <2>8. ~(u <= global_user_guid)
    BY <2>6, <2>7
  <2> QED
    BY <2>8 DEF NumbersGiven
<1> QED
  BY <1>1, <1>2, <1>3, ClientServerAlways, PTL DEF ClientSpec, NewcomerIsNew

-----------------------------------------------------------------------------
(* The book of who is signed on. *)

(* Line is a function of user_conn_map alone. *)
LEMMA LineKept1 ==
    ASSUME UNCHANGED user_conn_map
    PROVE  UNCHANGED Line
BY DEF Line

(* The account of a closed socket, or one that signs off, loses its line. *)
LEMMA LineLost ==
    ASSUME NEW u, user_conn_map' = Erase(user_conn_map, u)
    PROVE  Line' = Restrict(Line, DOMAIN Line \ {u})
<1> DEFINE S == {v \in DOMAIN user_conn_map : v # 0 /\ user_conn_map[v] # 0}
           T == {v \in DOMAIN user_conn_map' : v # 0 /\ user_conn_map'[v] # 0}
<1>1. Line = [v \in S |-> user_conn_map[v]] /\ Line' = [v \in T |-> user_conn_map'[v]]
  BY DEF Line, Restrict
<1>2. /\ DOMAIN user_conn_map' = DOMAIN user_conn_map \ {u}
      /\ \A v \in DOMAIN user_conn_map' : user_conn_map'[v] = user_conn_map[v]
  BY DEF Erase, Restrict
<1>3. T = S \ {u} /\ \A v \in T : user_conn_map'[v] = user_conn_map[v]
  BY <1>2
<1> HIDE DEF S, T
<1>4. Line' = [v \in S \ {u} |-> user_conn_map[v]]
  BY <1>1, <1>3
<1>5. DOMAIN Line = S /\ \A v \in S : Line[v] = user_conn_map[v]
  BY <1>1
<1> QED
  BY <1>4, <1>5 DEF Restrict

(* An account that signs on gets a line. *)
LEMMA LineGained ==
    ASSUME NEW u, u # 0, NEW fd, fd # 0, user_conn_map' = Put(user_conn_map, u, fd)
    PROVE  Line' = [v \in DOMAIN Line \cup {u} |-> IF v = u THEN fd ELSE Line[v]]
<1> DEFINE S == {v \in DOMAIN user_conn_map : v # 0 /\ user_conn_map[v] # 0}
           T == {v \in DOMAIN user_conn_map' : v # 0 /\ user_conn_map'[v] # 0}
<1>1. Line = [v \in S |-> user_conn_map[v]] /\ Line' = [v \in T |-> user_conn_map'[v]]
  BY DEF Line, Restrict
<1>2. /\ DOMAIN user_conn_map' = DOMAIN user_conn_map \cup {u}
      /\ \A v \in DOMAIN user_conn_map' :
             user_conn_map'[v] = IF v = u THEN fd ELSE user_conn_map[v]
  BY DEF Put
<1>3. T = S \cup {u}
  BY <1>2
<1>4. \A v \in T : user_conn_map'[v] = IF v = u THEN fd ELSE user_conn_map[v]
  BY <1>2
<1> HIDE DEF S, T
<1>5. DOMAIN Line = S /\ \A v \in S : Line[v] = user_conn_map[v]
  BY <1>1
<1> QED
  BY <1>1, <1>3, <1>4, <1>5

(* Entries for guid 0, and for socket 0, are not lines. *)
LEMMA LineUntouched ==
    ASSUME NEW u, NEW fd, user_conn_map' = Put(user_conn_map, u, fd),
           u = 0 \/ fd = At(user_conn_map, u)
    PROVE  UNCHANGED Line
<1> DEFINE S == {v \in DOMAIN user_conn_map : v # 0 /\ user_conn_map[v] # 0}
           T == {v \in DOMAIN user_conn_map' : v # 0 /\ user_conn_map'[v] # 0}
<1>1. Line = [v \in S |-> user_conn_map[v]] /\ Line' = [v \in T |-> user_conn_map'[v]]
  BY DEF Line, Restrict
<1>2. /\ DOMAIN user_conn_map' = DOMAIN user_conn_map \cup {u}
      /\ \A v \in DOMAIN user_conn_map' :
             user_conn_map'[v] = IF v = u THEN fd ELSE user_conn_map[v]
  BY DEF Put
<1>3. T = S /\ \A v \in T : user_conn_map'[v] = user_conn_map[v]
  BY <1>2 DEF At
<1> QED
  BY <1>1, <1>3

(* One step of the sessions is a step of the book, or leaves it as it is. *)
LEMMA PresenceStep ==
    ASSUME ServerInv, Paired, SessionsMove
    PROVE  [OnlineBook!Next]_Line
<1>0. Known \subseteq Guid \ {0} /\ 0 \notin Fds
  BY NetAssumption DEF ServerInv, AccountsTyped, AccountMap, IsMap, Known
<1>1. CASE UNCHANGED user_conn_map
  BY <1>1, LineKept1
<1>2. ASSUME NEW u, user_conn_map' = LineDropped(u)
      PROVE  [OnlineBook!Next]_Line
  <2>1. Line' = Restrict(Line, DOMAIN Line \ {u})
    BY <1>2, LineLost DEF LineDropped
  <2>2. CASE u \in DOMAIN Line
    <3>1. u \in Guid \ {0}
      BY <2>2, LineFacts DEF ServerInv, SessionsTyped, IsMap
    <3>2. OnlineBook!SignOff(u)
      BY <2>1, <2>2 DEF OnlineBook!SignOff, OnlineBook!Restrict, Restrict
    <3> QED
      BY <3>1, <3>2 DEF OnlineBook!Next
  <2>3. CASE u \notin DOMAIN Line
    <3>1. DOMAIN Line \ {u} = DOMAIN Line
      BY <2>3
    <3>2. Line = [v \in DOMAIN Line |-> Line[v]]
      BY DEF Line, Restrict
    <3>3. Line' = [v \in DOMAIN Line |-> Line[v]]
      BY <2>1, <3>1 DEF Restrict
    <3> QED
      BY <3>2, <3>3
  <2> QED
    BY <2>2, <2>3
<1>3. ASSUME NEW fd \in Fds, NEW u, SignsOn(fd, u)
      PROVE  [OnlineBook!Next]_Line
  <2>1. u \in Guid \ {0} /\ fd # 0
    BY <1>0, <1>3 DEF SignsOn
  <2>2. Line' = [v \in DOMAIN Line \cup {u} |-> IF v = u THEN fd ELSE Line[v]]
    BY <1>3, <2>1, LineGained DEF SignsOn
  <2>3. u \notin DOMAIN Line
    BY <1>3 DEF SignsOn
  <2>4. fd \notin Range(Line)
    <3> SUFFICES ASSUME NEW v \in DOMAIN Line, Line[v] = fd PROVE FALSE
      BY DEF Range
    <3>1. v # 0 /\ fd \in DOMAIN conn_user_map /\ conn_user_map[fd] = v
      BY LineFacts DEF Paired
    <3> QED
      BY <1>3, <3>1 DEF SignsOn, At
  <2>5. OnlineBook!SignOn(u, fd)
    BY <2>2, <2>3, <2>4 DEF OnlineBook!SignOn, OnlineBook!Range, Range
  <2> QED
    BY <2>1, <2>5 DEF OnlineBook!Next
<1>4. ASSUME NEW fd, Mistypes(fd)
      PROVE  UNCHANGED Line
  BY <1>4, LineUntouched DEF Mistypes
<1>5. CASE FilesSender
  BY <1>5, LineUntouched DEF FilesSender
<1> QED
  BY <1>1, <1>2, <1>3, <1>4, <1>5 DEF SessionsMove, sessions, Hangs, SignsOff

(* The pair of maps implements the book of Presence: people sign on and off *)
(* one at a time, a line belongs to one of them, and nobody is moved from   *)
(* one line to another.  A login that succeeds is SignOn; a close, a logout *)
(* or a deletion is SignOff; what operator[] files is no step of the book.  *)
THEOREM SessionsImplementPresence == ClientSpec => ImplementsPresence
<1>1. Init => OnlineBook!Init
  BY DEF Init, OnlineBook!Init, Line, Restrict, EmptyMap
<1>2. ServerInv /\ Paired /\ [ClientNext]_vars => [OnlineBook!Next]_Line
  BY SessionsStep, PresenceStep
<1> QED
  BY <1>1, <1>2, ClientServerAlways, PairedAlways, PTL
     DEF ClientSpec, ImplementsPresence, OnlineBook!Spec

-----------------------------------------------------------------------------
(* Who is reached. *)

(* While a queue is sent out nothing else happens. *)
LEMMA DrainingDelivers ==
    ASSUME draining, [Next]_vars, ~UNCHANGED vars
    PROVE  Deliver
BY DEF Next, Request, BeginDrain, Ready, Serving

(* The walks reach registered members, and all members if all are           *)
(* registered, when every entry shows the member it is filed under.         *)
LEMMA VisitedFacts ==
    ASSUME NEW g, IsGroup(g), IndexSound(g), NEW known
    PROVE  /\ \A u \in VisitedUsers(g, known) : InGroup(g, u) /\ u \in known
           /\ (\A u \in Guid : InGroup(g, u) => u \in known)
                  => \A u : InGroup(g, u) => u \in VisitedUsers(g, known)
<1>1. Managers(g) \subseteq Guid /\ Normals(g) \subseteq Guid
  BY DEF IsGroup, IsMap, Managers, Normals
<1> DEFINE guid(n) == g.members_list[n].user_guid
           chiefs == Reached(g, g.managers_map, known)
           others == Reached(g, g.members_map, known)
<1>4. /\ \A k \in Managers(g) : guid(Holds(g, g.managers_map[k])) = k
      /\ \A k \in Normals(g) : guid(Holds(g, g.members_map[k])) = k
  BY IndexSoundFacts
<1>5. /\ \A k : k \in Recognised(g, g.managers_map, known) <=> k \in Managers(g) \cap known
      /\ \A k : k \in Recognised(g, g.members_map, known) <=> k \in Normals(g) \cap known
  BY <1>4, IndexSoundFacts DEF Recognised, Readable, Managers, Normals
<1>6. VisitedUsers(g, known)
        = {guid(Holds(g, g.managers_map[k])) : k \in chiefs}
            \cup {guid(Holds(g, g.members_map[k])) : k \in others}
  BY DEF VisitedUsers, VisitedNodes
<1>7. chiefs \subseteq Managers(g) \cap known /\ others \subseteq Normals(g) \cap known
  BY <1>5 DEF Reached
<1>8. ASSUME \A u \in Guid : InGroup(g, u) => u \in known
      PROVE  Managers(g) \subseteq chiefs /\ Normals(g) \subseteq others
  <2>1. Managers(g) \subseteq known /\ Normals(g) \subseteq known
    BY <1>1, <1>8 DEF InGroup
  <2> QED
    BY <1>5, <2>1 DEF Reached, Touched, Managers, Normals
<1> HIDE DEF guid, chiefs, others
<1>9. VisitedUsers(g, known) = chiefs \cup others
  BY <1>4, <1>6, <1>7
<1>2. \A u \in VisitedUsers(g, known) : InGroup(g, u) /\ u \in known
  BY <1>7, <1>9 DEF InGroup
<1>3. ASSUME \A u \in Guid : InGroup(g, u) => u \in known, NEW u, InGroup(g, u)
      PROVE  u \in VisitedUsers(g, known)
  BY <1>3, <1>8, <1>9 DEF InGroup
<1> QED
  BY <1>2, <1>3

(* Only a message to a group that is not barred is sent out to the group. *)
LEMMA GroupMessageOut ==
    ASSUME Deliver, Head(msg_list).msg_type = "GROUP",
           \E s \in out' : s.type = "CLIENT_MSG_SEND"
    PROVE  LET g == groups[Head(msg_list).recv_guid]
           IN  /\ Head(msg_list).recv_guid \in DOMAIN groups
               /\ {s.to : s \in out'} = Recipients(g, Known)
<1> DEFINE m == Head(msg_list)
<1>1. \A fd, err : \A s \in Ack(fd, "MSG_SEND", err) : s.type # "CLIENT_MSG_SEND"
  BY DEF Ack, Sent
<1>2. CASE deliver_to_group(m)
  <2>1. /\ m.recv_guid \in DOMAIN groups
        /\ out' = Sent(Recipients(groups[m.recv_guid], Known), "CLIENT_MSG_SEND", "OK")
    BY <1>1, <1>2 DEF deliver_to_group
  <2>2. ASSUME NEW fds
        PROVE  {s.to : s \in Sent(fds, "CLIENT_MSG_SEND", "OK")} = fds
    <3> DEFINE send(fd) == [to |-> fd, type |-> "CLIENT_MSG_SEND", err |-> "OK"]
    <3>1. \A fd : send(fd).to = fd
      OBVIOUS
    <3>2. Sent(fds, "CLIENT_MSG_SEND", "OK") = {send(fd) : fd \in fds}
      BY DEF Sent
    <3> HIDE DEF send
    <3> QED
      BY <3>1, <3>2
  <2> QED
    BY <2>1, <2>2
<1>3. CASE group_delivery_faults(m)
  BY <1>3 DEF group_delivery_faults, Crash
<1> QED
  BY <1>2, <1>3 DEF Deliver, deliver_to_user, deliver_to_all, deliver_other

(* A message that is sent out to a group reaches only members, over the     *)
(* socket each is signed on with at this moment, and every member that is   *)
(* signed on when no account was deleted that is still in the group         *)
(* (read_thread.cpp:1024-1050, group_info.cpp:297-310); of a group that a   *)
(* client made, while no relic of it is overwritten.                        *)
THEOREM GroupMessagesReachMembers == ClientSpec => ReachesExactlyMembers
<1> DEFINE Exact ==
        \A m \in {msg_list[i] : i \in 1 .. Len(msg_list)} :
            (/\ Draining /\ m = Head(msg_list) /\ m.msg_type = "GROUP"
             /\ \E s \in out' : s.type = "CLIENT_MSG_SEND"
             /\ RelicsIntact(groups[m.recv_guid]))
                => LET g       == groups[m.recv_guid]
                       reached == {s.to : s \in out'} \ {0}
                       there   == {fd \in LoggedIn : InGroup(g, conn_user_map[fd])}
                   IN  /\ reached \subseteq there
                       /\ (\A u \in Guid : InGroup(g, u) => u \in Known)
                              => reached = there
<1>1. ServerInv /\ Paired /\ [ClientNext]_vars => [Exact]_vars
  <2> SUFFICES ASSUME ServerInv, Paired, [ClientNext]_vars, ~UNCHANGED vars, Draining,
                      NEW m, m = Head(msg_list), m.msg_type = "GROUP",
                      \E s \in out' : s.type = "CLIENT_MSG_SEND",
                      RelicsIntact(groups[m.recv_guid])
               PROVE  LET g       == groups[m.recv_guid]
                          reached == {s.to : s \in out'} \ {0}
                          there   == {fd \in LoggedIn : InGroup(g, conn_user_map[fd])}
                      IN  /\ reached \subseteq there
                          /\ (\A u \in Guid : InGroup(g, u) => u \in Known)
                                 => reached = there
    BY DEF Exact
  <2> DEFINE g == groups[m.recv_guid]
             reached == {s.to : s \in out'} \ {0}
             there == {fd \in LoggedIn : InGroup(g, conn_user_map[fd])}
  <2>1. Deliver
    BY ClientsAreClients, DrainingDelivers DEF Draining
  <2>2. m.recv_guid \in DOMAIN groups /\ reached = Recipients(g, Known) \ {0}
    BY <2>1, GroupMessageOut
  <2>3. IsGroup(g) /\ IndexSound(g) /\ 0 \notin Known
    BY <2>2 DEF ServerInv, RoomsWellFormed, WellFormed, AccountsTyped, AccountMap,
                IsMap, Known
  <2>4. ASSUME NEW fd \in reached
        PROVE  fd \in there
    <3>1. PICK u \in VisitedUsers(g, Known) \cap DOMAIN user_conn_map :
              fd = user_conn_map[u] /\ fd # 0
      BY <2>2 DEF Recipients
    <3>2. u # 0 /\ InGroup(g, u)
      BY <2>3, <3>1, VisitedFacts
    <3>3. fd \in DOMAIN conn_user_map /\ conn_user_map[fd] = u
      BY <3>1, <3>2 DEF Paired
    <3> QED
      BY <3>2, <3>3 DEF LoggedIn
  <2>5. ASSUME \A u \in Guid : InGroup(g, u) => u \in Known, NEW fd \in there
        PROVE  fd \in reached
    <3> DEFINE u == conn_user_map[fd]
    <3>1. /\ fd # 0 /\ u \in DOMAIN user_conn_map /\ user_conn_map[u] = fd
          /\ InGroup(g, u)
      BY DEF Paired, LoggedIn
    <3>2. u \in VisitedUsers(g, Known)
      BY <2>3, <2>5, <3>1, VisitedFacts
    <3> QED
      BY <2>2, <3>1, <3>2 DEF Recipients
  <2> HIDE DEF g, reached, there
  <2>6. /\ reached \subseteq there
        /\ (\A u \in Guid : InGroup(g, u) => u \in Known) => reached = there
    BY <2>4, <2>5
  <2> QED
    BY <2>6 DEF g, reached, there
<1> QED
  BY <1>1, ClientServerAlways, PairedAlways, PTL DEF ClientSpec, ReachesExactlyMembers

=============================================================================
