-------------------------- MODULE SocketOpsProofs ---------------------------
(***************************************************************************)
(* Proofs about SocketOps, for every number of descriptors and ports: its  *)
(* types, that only descriptor 0 can stay behind, and what the calls       *)
(* answer.                                                                 *)
(***************************************************************************)
EXTENDS SocketOps, TLAPS

(* Which function is at which system call; it has a descriptor from socket
   on, or its caller's. *)
Control ==
  /\ pc = "idle" <=> op = "none"
  /\ pc = "resolve" => op = "connect"
  /\ pc \in {"socket", "nonblock"} => op \in {"connect", "listen", "bindfree"}
  /\ pc \in {"connect", "poll", "again", "block"} => op = "connect"
  /\ pc = "options" => op \in {"listen", "bindfree"}
  /\ pc = "bind" => op \in {"bind", "bindfree"}
  /\ sockfd = NoFd <=> pc \in {"idle", "resolve", "socket"}

(* The descriptor in use belongs to a caller just when the call is its bind. *)
Owned == OnlyZeroLeaks /\ (sockfd \in held <=> op = "bind")

(* The options that i iterations of the option loop set. *)
Wanted(n) == {OptNames[j] : j \in 1..n} \ (IF flag THEN {} ELSE {"REUSEPORT"})

Configured ==
  /\ pc \in {"resolve", "socket", "nonblock"} => i = 0
  /\ pc = "nonblock" => sock[sockfd].opts = {}
  /\ pc \in {"connect", "poll", "again", "block"} => sock[sockfd].nonblock
  /\ pc = "block" => ~flag /\ sock[sockfd].conn \in {"up", "reset"}
  /\ pc = "options" \/ (pc = "bind" /\ op = "bindfree") =>
       sock[sockfd].nonblock /\ sock[sockfd].opts = Wanted(i)
  /\ pc = "bind" /\ op = "bindfree" => i = Len(OptNames)
  /\ op = "bindfree" => ~flag

IInv == TypeOK /\ Control /\ Owned /\ Configured

-----------------------------------------------------------------------------
(* The data. *)

(* htons answers a port, whatever it is given. *)
LEMMA PortRange == \A p \in Nat : htons(p) \in Port
  BY SocketAssumption DEF htons, Port

(* What bind grants is a port. *)
LEMMA GrantedPorts == port \in Nat => Granted \subseteq Port
  BY PortRange DEF Granted

(* The options that are set, in order. *)
LEMMA Names ==
  /\ Len(OptNames) = 3 /\ OptNames[1] = "KEEPALIVE" /\ OptNames[2] = "REUSEADDR"
  /\ OptNames[3] = "REUSEPORT" /\ Opt = {"KEEPALIVE", "REUSEADDR", "REUSEPORT"}
<1>1. Len(OptNames) = 3 /\ OptNames[1] = "KEEPALIVE" /\ OptNames[2] = "REUSEADDR" /\ OptNames[3] = "REUSEPORT"
  BY DEF OptNames
<1>2. 1..3 = {1, 2, 3}
  OBVIOUS
<1> QED BY <1>1, <1>2 DEF Opt

(* One iteration adds the option it sets. *)
LEMMA WantedNext ==
  ASSUME NEW n \in {0, 1, 2}
  PROVE  /\ Wanted(n + 1) = IF OptNames[n + 1] = "REUSEPORT" /\ ~flag
                            THEN Wanted(n) ELSE Wanted(n) \cup {OptNames[n + 1]}
         /\ OptNames[n + 1] \in Opt
<1>1. /\ 1..0 = {} /\ 1..1 = {1} /\ 1..2 = {1, 2} /\ 1..3 = {1, 2, 3}
      /\ 0 + 1 = 1 /\ 1 + 1 = 2 /\ 2 + 1 = 3
  OBVIOUS
<1> HIDE DEF OptNames
<1>2. CASE n = 0
  BY <1>1, <1>2, Names DEF Wanted
<1>3. CASE n = 1
  BY <1>1, <1>3, Names DEF Wanted
<1>4. CASE n = 2
  BY <1>1, <1>4, Names DEF Wanted
<1> QED BY <1>2, <1>3, <1>4

(* No option is set at first; at the end all are, but REUSEPORT on request only.
   *)
LEMMA WantedEnds ==
  /\ Wanted(0) = {}
  /\ Wanted(Len(OptNames)) = Opt \ (IF flag THEN {} ELSE {"REUSEPORT"})
<1>1. 1..0 = {} /\ 1..3 = {1, 2, 3}
  OBVIOUS
<1> QED BY <1>1, Names DEF Wanted
-----------------------------------------------------------------------------
(* What the kernel notes of one socket leaves the others as they are. *)

(* A handshake begins, ends or is undone. *)
LEMMA ConnNoted ==
  ASSUME sock \in [Fd -> Socket], NEW f \in Fd, NEW v \in {"none", "connecting", "up", "refused", "reset"},
         NEW n, n = [sock EXCEPT ![f].conn = v]
  PROVE  /\ n \in [Fd -> Socket]
         /\ n[f].conn = v
         /\ n[f].nonblock = sock[f].nonblock
         /\ n[f].opts = sock[f].opts
         /\ n[f].port = sock[f].port
         /\ n[f].listening = sock[f].listening
         /\ \A g \in Fd \ {f} : n[g] = sock[g]
<1>1. n = [sock EXCEPT ![f] = [sock[f] EXCEPT !.conn = v]] /\ sock[f] \in Socket
  OBVIOUS
<1> DEFINE r == [sock[f] EXCEPT !.conn = v]
<1>2. r \in Socket
  BY <1>1 DEF Socket
<1>3. r.conn = v /\ r.nonblock = sock[f].nonblock /\ r.opts = sock[f].opts /\ r.port = sock[f].port /\ r.listening = sock[f].listening
  BY <1>1 DEF Socket
<1> HIDE DEF r
<1>4. n = [sock EXCEPT ![f] = r]
  BY <1>1 DEF r
<1> QED BY <1>2, <1>3, <1>4

(* fcntl. *)
LEMMA ModeNoted ==
  ASSUME sock \in [Fd -> Socket], NEW f \in Fd, NEW v \in BOOLEAN,
         NEW n, n = [sock EXCEPT ![f].nonblock = v]
  PROVE  /\ n \in [Fd -> Socket]
         /\ n[f].conn = sock[f].conn
         /\ n[f].nonblock = v
         /\ n[f].opts = sock[f].opts
         /\ n[f].port = sock[f].port
         /\ n[f].listening = sock[f].listening
         /\ \A g \in Fd \ {f} : n[g] = sock[g]
<1>1. n = [sock EXCEPT ![f] = [sock[f] EXCEPT !.nonblock = v]] /\ sock[f] \in Socket
  OBVIOUS
<1> DEFINE r == [sock[f] EXCEPT !.nonblock = v]
<1>2. r \in Socket
  BY <1>1 DEF Socket
<1>3. r.conn = sock[f].conn /\ r.nonblock = v /\ r.opts = sock[f].opts /\ r.port = sock[f].port /\ r.listening = sock[f].listening
  BY <1>1 DEF Socket
<1> HIDE DEF r
<1>4. n = [sock EXCEPT ![f] = r]
  BY <1>1 DEF r
<1> QED BY <1>2, <1>3, <1>4

(* setsockopt. *)
LEMMA OptionsNoted ==
  ASSUME sock \in [Fd -> Socket], NEW f \in Fd, NEW v, v \subseteq Opt,
         NEW n, n = [sock EXCEPT ![f].opts = v]
  PROVE  /\ n \in [Fd -> Socket]
         /\ n[f].conn = sock[f].conn
         /\ n[f].nonblock = sock[f].nonblock
         /\ n[f].opts = v
         /\ n[f].port = sock[f].port
         /\ n[f].listening = sock[f].listening
         /\ \A g \in Fd \ {f} : n[g] = sock[g]
<1>1. n = [sock EXCEPT ![f] = [sock[f] EXCEPT !.opts = v]] /\ sock[f] \in Socket
  OBVIOUS
<1> DEFINE r == [sock[f] EXCEPT !.opts = v]
<1>2. r \in Socket
  BY <1>1 DEF Socket
<1>3. r.conn = sock[f].conn /\ r.nonblock = sock[f].nonblock /\ r.opts = v /\ r.port = sock[f].port /\ r.listening = sock[f].listening
  BY <1>1 DEF Socket
<1> HIDE DEF r
<1>4. n = [sock EXCEPT ![f] = r]
  BY <1>1 DEF r
<1> QED BY <1>2, <1>3, <1>4

(* bind. *)
LEMMA PortNoted ==
  ASSUME sock \in [Fd -> Socket], NEW f \in Fd, NEW v \in Port \cup {NoPort},
         NEW n, n = [sock EXCEPT ![f].port = v]
  PROVE  /\ n \in [Fd -> Socket]
         /\ n[f].conn = sock[f].conn
         /\ n[f].nonblock = sock[f].nonblock
         /\ n[f].opts = sock[f].opts
         /\ n[f].port = v
         /\ n[f].listening = sock[f].listening
         /\ \A g \in Fd \ {f} : n[g] = sock[g]
<1>1. n = [sock EXCEPT ![f] = [sock[f] EXCEPT !.port = v]] /\ sock[f] \in Socket
  OBVIOUS
<1> DEFINE r == [sock[f] EXCEPT !.port = v]
<1>2. r \in Socket
  BY <1>1 DEF Socket
<1>3. r.conn = sock[f].conn /\ r.nonblock = sock[f].nonblock /\ r.opts = sock[f].opts /\ r.port = v /\ r.listening = sock[f].listening
  BY <1>1 DEF Socket
<1> HIDE DEF r
<1>4. n = [sock EXCEPT ![f] = r]
  BY <1>1 DEF r
<1> QED BY <1>2, <1>3, <1>4

(* listen. *)
LEMMA ListenNoted ==
  ASSUME sock \in [Fd -> Socket], NEW f \in Fd, NEW v \in BOOLEAN,
         NEW n, n = [sock EXCEPT ![f].listening = v]
  PROVE  /\ n \in [Fd -> Socket]
         /\ n[f].conn = sock[f].conn
         /\ n[f].nonblock = sock[f].nonblock
         /\ n[f].opts = sock[f].opts
         /\ n[f].port = sock[f].port
         /\ n[f].listening = v
         /\ \A g \in Fd \ {f} : n[g] = sock[g]
<1>1. n = [sock EXCEPT ![f] = [sock[f] EXCEPT !.listening = v]] /\ sock[f] \in Socket
  OBVIOUS
<1> DEFINE r == [sock[f] EXCEPT !.listening = v]
<1>2. r \in Socket
  BY <1>1 DEF Socket
<1>3. r.conn = sock[f].conn /\ r.nonblock = sock[f].nonblock /\ r.opts = sock[f].opts /\ r.port = sock[f].port /\ r.listening = v
  BY <1>1 DEF Socket
<1> HIDE DEF r
<1>4. n = [sock EXCEPT ![f] = r]
  BY <1>1 DEF r
<1> QED BY <1>2, <1>3, <1>4

(* A descriptor that is opened is a fresh socket; the others stay. *)
LEMMA FreshNoted ==
  ASSUME sock \in [Fd -> Socket], NEW f \in Fd, NEW n, n = [sock EXCEPT ![f] = Fresh]
  PROVE  /\ n \in [Fd -> Socket] /\ n[f] = Fresh /\ Fresh.opts = {}
         /\ \A g \in Fd \ {f} : n[g] = sock[g]
  BY DEF Fresh, Socket

(* Descriptors are numbers, NoFd is none of them, and 0 is the one the code
   takes for a failure. *)
LEMMA FdType == NoFd \notin Fd /\ Fd \subseteq Int /\ \A f \in Fd : ~(f > 0) => f = 0
  BY SocketAssumption DEF Fd, NoFd
-----------------------------------------------------------------------------
(* How a call starts, goes on and returns. *)

(* The invariant holds at first. *)
LEMMA InitInv == Init => IInv
<1> SUFFICES ASSUME Init PROVE IInv
  OBVIOUS
<1>1. Fresh \in Socket /\ 0 \in Fd
  BY SocketAssumption DEF Fresh, Socket, NoPort, Fd
<1>2. TypeOK
  <2>1. result.ok \in BOOLEAN /\ 0 \in 0..Len(OptNames)
    BY Names DEF Init, NoResult
  <2>2. sock \in [Fd -> Socket]
    BY <1>1 DEF Init
  <2> QED BY <1>1, <2>1, <2>2 DEF Init, TypeOK
<1>3. Control /\ Configured
  BY DEF Init, Control, Configured
<1>4. Owned
  BY <1>1, FdType DEF Init, Owned, OnlyZeroLeaks
<1> QED BY <1>2, <1>3, <1>4 DEF IInv

(* A call begins without a descriptor, or with its caller's. *)
LEMMA BeginKeeps ==
  ASSUME IInv, NEW o, NEW first, NEW f, NEW b \in BOOLEAN, NEW p \in Nat, NEW m \in Int,
         Begin(o, first, f, b, p, m),
         \/ f = NoFd /\ o = "connect" /\ first = "resolve"
         \/ f = NoFd /\ o \in {"listen", "bindfree"} /\ first = "socket"
         \/ f \in held /\ o = "bind" /\ first = "bind",
         o = "bindfree" => ~b
  PROVE  IInv'
<1> USE DEF IInv, Begin, kernel
<1>1. TypeOK'
  BY Names DEF TypeOK, Calls, NoResult
<1>2. Control'
  BY FdType DEF Control, TypeOK
<1>3. Owned'
  BY FdType DEF Owned, OnlyZeroLeaks, TypeOK, Control
<1>4. Configured'
  BY DEF Configured
<1> QED BY <1>1, <1>2, <1>3, <1>4

(* A call that begins keeps it. *)
LEMMA CallsKeep ==
  ASSUME IInv,
         \/ \E b \in BOOLEAN : CreateTcpSocketandConnect(b)
         \/ \E b \in BOOLEAN : CreateSocketforListenNonblock(b)
         \/ \E s \in Starts, n \in Spans : CreateTcpSocketandBindUsablePort(s, n)
         \/ \E f \in held, s \in Starts, n \in Spans : BindSocketWithUsablePort(f, s, s + n)
  PROVE  IInv'
<1>1. \A s \in Starts, n \in Spans : s \in Nat /\ s + n - 1 \in Int /\ s + n \in Int
  BY SocketAssumption
<1>2. ASSUME NEW b \in BOOLEAN, CreateTcpSocketandConnect(b) PROVE IInv'
  BY <1>2, BeginKeeps DEF CreateTcpSocketandConnect
<1>3. ASSUME NEW b \in BOOLEAN, CreateSocketforListenNonblock(b) PROVE IInv'
  BY <1>3, BeginKeeps DEF CreateSocketforListenNonblock
<1>4. ASSUME NEW s \in Starts, NEW n \in Spans, CreateTcpSocketandBindUsablePort(s, n) PROVE IInv'
  BY <1>1, <1>4, BeginKeeps DEF CreateTcpSocketandBindUsablePort
<1>5. ASSUME NEW f \in held, NEW s \in Starts, NEW n \in Spans, BindSocketWithUsablePort(f, s, s + n)
      PROVE  IInv'
  BY <1>1, <1>5, BeginKeeps DEF BindSocketWithUsablePort
<1> QED BY <1>2, <1>3, <1>4, <1>5

(* A call that returns forgets its locals. *)
LEMMA ReturnForgets ==
  ASSUME NEW ok \in BOOLEAN, NEW told, Return(ok, told),
         open' \subseteq Fd, sock' \in [Fd -> Socket], held' \subseteq open',
         taken' \subseteq Port, open' \subseteq held' \cup {0}
  PROVE  IInv'
<1>1. TypeOK'
  <2>1. result'.ok \in BOOLEAN /\ 0 \in 0..Len(OptNames)
    BY Names DEF Return
  <2>2. /\ pc' = "idle" /\ op' = "none" /\ flag' = FALSE /\ sockfd' = NoFd
        /\ i' = 0 /\ port' = 0 /\ portMax' = 0
    BY DEF Return
  <2>3. /\ open' \subseteq Fd /\ sock' \in [Fd -> Socket] /\ held' \subseteq open'
        /\ taken' \subseteq Port
    OBVIOUS
  <2>4. /\ pc' \in {"idle", "resolve", "socket", "nonblock", "connect", "poll",
                    "again", "block", "options", "bind"}
        /\ op' \in Calls \cup {"none"} /\ flag' \in BOOLEAN /\ sockfd' \in open' \cup {NoFd}
    BY <2>2
  <2>5. i' \in 0..Len(OptNames) /\ port' \in Nat /\ portMax' \in Int
    BY <2>1, <2>2
  <2> QED BY <2>1, <2>3, <2>4, <2>5, Zenon DEF TypeOK
<1>2. Control'
  BY DEF Return, Control
<1>3. Owned'
  BY <1>1, FdType DEF Return, Owned, OnlyZeroLeaks, TypeOK
<1>4. Configured'
  BY DEF Return, Configured
<1> QED BY <1>1, <1>2, <1>3, <1>4 DEF IInv

(* A call that fails has closed what it opened, unless that was 0. *)
LEMMA GiveUpKeeps ==
  ASSUME IInv, pc # "idle", NEW told, GiveUp(told)
  PROVE  IInv'
<1>1. CASE Closes
  <2>1. sockfd \in Fd /\ sockfd \notin held
    BY <1>1 DEF Closes, IInv, TypeOK, Owned, NoFd
  <2>2. sock' \in [Fd -> Socket]
    BY <1>1, <2>1, FreshNoted DEF GiveUp, IInv, TypeOK
  <2> QED BY <1>1, <2>1, <2>2, ReturnForgets DEF GiveUp, IInv, TypeOK, Owned, OnlyZeroLeaks
<1>2. CASE ~Closes
  <2>1. sockfd \in held \cup {0, NoFd}
    BY <1>2, FdType DEF Closes, IInv, TypeOK, Owned
  <2>2. open \subseteq held \cup {0}
    BY <2>1, FdType DEF IInv, TypeOK, Owned, OnlyZeroLeaks
  <2> QED BY <1>2, <2>2, ReturnForgets DEF GiveUp, IInv, TypeOK
<1> QED BY <1>1, <1>2

(* A call that succeeds leaves its descriptor to the caller. *)
LEMMA SucceedKeeps ==
  ASSUME IInv, sockfd # NoFd, Succeed, sock' \in [Fd -> Socket], UNCHANGED <<open, taken>>
  PROVE  IInv'
<1>1. open' \subseteq held' \cup {0} /\ held' \subseteq open'
  BY DEF Succeed, IInv, TypeOK, Owned, OnlyZeroLeaks
<1> QED BY <1>1, ReturnForgets DEF Succeed, IInv, TypeOK
-----------------------------------------------------------------------------
(* The system calls. *)

(* The options that are wanted do not change during a call. *)
LEMMA WantedStays == UNCHANGED flag => \A n : Wanted(n)' = Wanted(n)
  BY DEF Wanted

(* A system call that goes on to the next keeps the arguments; it may have
   changed what the kernel notes of the descriptor in use. *)
LEMMA GoTypes ==
  ASSUME IInv, NEW next \in {"socket", "nonblock", "connect", "poll", "again", "block", "options", "bind"},
         Go(next), open \subseteq open', open' \subseteq Fd, sock' \in [Fd -> Socket], held' = held,
         taken' = taken, sockfd' \in open' \cup {NoFd}, i' \in 0..Len(OptNames), port' \in Nat
  PROVE  TypeOK'
  BY DEF IInv, TypeOK, Go, args

(* Every step of a helper keeps the invariant, whatever the kernel answers. *)
LEMMA getaddrinfoKeeps == IInv /\ getaddrinfo => IInv'
<1> SUFFICES ASSUME IInv, getaddrinfo PROVE IInv'
  OBVIOUS
<1>1. CASE Go("socket") /\ UNCHANGED <<kernel, sockfd, i, port>>
  <2>1. TypeOK'
    BY <1>1, GoTypes DEF IInv, TypeOK, kernel
  <2>2. Control' /\ Owned' /\ Configured'
    BY <1>1 DEF getaddrinfo, Go, kernel, args, IInv, Control, Owned, OnlyZeroLeaks, Configured
  <2> QED BY <2>1, <2>2 DEF IInv
<1>2. CASE GiveUp(TRUE)
  BY <1>2, GiveUpKeeps DEF getaddrinfo
<1> QED BY <1>1, <1>2 DEF getaddrinfo

(* socket: the new descriptor is the helper's. *)
LEMMA socketKeeps == IInv /\ socket => IInv'
<1> SUFFICES ASSUME IInv, socket PROVE IInv'
  OBVIOUS
<1>1. ASSUME NEW f \in Fd \ open,
             open' = open \cup {f}, sock' = [sock EXCEPT ![f] = Fresh], sockfd' = f,
             Go("nonblock"), UNCHANGED <<held, taken, i, port>>
      PROVE  IInv'
  <2>1. sock' \in [Fd -> Socket] /\ sock'[f].opts = {}
    BY <1>1, FreshNoted DEF IInv, TypeOK
  <2>2. TypeOK'
    BY <1>1, <2>1, GoTypes DEF IInv, TypeOK
  <2>3. Control'
    BY <1>1, FdType DEF socket, Go, args, IInv, Control
  <2>4. Owned'
    BY <1>1, FdType DEF socket, Go, args, IInv, TypeOK, Control, Owned, OnlyZeroLeaks
  <2>5. Configured'
    BY <1>1, <2>1 DEF socket, Go, args, IInv, Configured
  <2> QED BY <2>2, <2>3, <2>4, <2>5 DEF IInv
<1>2. CASE GiveUp(TRUE)
  BY <1>2, GiveUpKeeps DEF socket
<1> QED BY <1>1, <1>2 DEF socket

(* From socket on the call has a descriptor. *)
LEMMA InUseFd ==
  IInv /\ pc \in {"nonblock", "connect", "poll", "again", "block", "options", "bind"}
    => sockfd \in open /\ sockfd \in Fd
  BY DEF IInv, TypeOK, Control

(* fcntl, to nonblocking. *)
LEMMA nonblock_onKeeps == IInv /\ nonblock_on => IInv'
<1> SUFFICES ASSUME IInv, nonblock_on PROVE IInv'
  OBVIOUS
<1>1. CASE /\ SetSocketNonblock(TRUE)
           /\ Go(IF op = "connect" THEN "connect" ELSE "options")
           /\ UNCHANGED <<held, sockfd, i, port>>
  <2>1. /\ sock' \in [Fd -> Socket] /\ sock'[sockfd].nonblock
        /\ sock'[sockfd].opts = sock[sockfd].opts
    <3>1. sock \in [Fd -> Socket] /\ sockfd \in Fd
      BY InUseFd DEF nonblock_on, IInv, TypeOK
    <3>2. PICK v \in BOOLEAN : v = TRUE
      OBVIOUS
    <3>3. sock' = [sock EXCEPT ![sockfd].nonblock = v]
      BY <1>1, <3>2 DEF SetSocketNonblock
    <3>4. /\ sock' \in [Fd -> Socket] /\ sock'[sockfd].nonblock = v
          /\ sock'[sockfd].opts = sock[sockfd].opts
      BY <3>1, <3>3, ModeNoted
    <3> QED BY <3>2, <3>4
  <2>2. TypeOK'
    BY <1>1, <2>1, GoTypes DEF SetSocketNonblock, IInv, TypeOK
  <2>3. Control' /\ Owned'
    BY <1>1 DEF nonblock_on, SetSocketNonblock, Go, args, IInv, Control, Owned, OnlyZeroLeaks
  <2>4. Wanted(0)' = {} /\ i' = 0
    BY <1>1, WantedEnds, WantedStays DEF nonblock_on, Go, args, IInv, Configured
  <2>5. Configured'
    BY <1>1, <2>1, <2>4 DEF nonblock_on, Go, args, IInv, Control, Configured
  <2> QED BY <2>2, <2>3, <2>5 DEF IInv
<1>2. CASE GiveUp(TRUE)
  BY <1>2, GiveUpKeeps DEF nonblock_on
<1> QED BY <1>1, <1>2 DEF nonblock_on

(* A connected socket goes back to blocking, or to the caller. *)
LEMMA ConnectedKeeps ==
  ASSUME IInv, pc \in {"connect", "again"}, Connected,
         sock' \in [Fd -> Socket], sock'[sockfd].nonblock, sock'[sockfd].conn \in {"up", "reset"}
  PROVE  IInv'
<1>1. CASE flag
  BY <1>1, InUseFd, FdType, SucceedKeeps DEF Connected
<1>2. CASE ~flag
  <2>1. Go("block") /\ UNCHANGED <<open, held, taken, sockfd, i, port>>
    BY <1>2 DEF Connected
  <2>2. TypeOK'
    BY <2>1, GoTypes DEF IInv, TypeOK
  <2>3. Control' /\ Owned' /\ Configured'
    BY <1>2, <2>1 DEF Go, args, IInv, Control, Owned, OnlyZeroLeaks, Configured
  <2> QED BY <2>2, <2>3 DEF IInv
<1> QED BY <1>1, <1>2

(* connect, which may be in progress after it. *)
LEMMA connectKeeps == IInv /\ connect => IInv'
<1> SUFFICES ASSUME IInv, connect PROVE IInv'
  OBVIOUS
<1>1. sockfd \in Fd /\ sock \in [Fd -> Socket] /\ sock[sockfd].nonblock
  BY InUseFd DEF connect, IInv, TypeOK, Configured
<1>2. CASE sock' = [sock EXCEPT ![sockfd].conn = "up"] /\ Connected
  <2>1. sock' \in [Fd -> Socket] /\ sock'[sockfd].nonblock /\ sock'[sockfd].conn = "up"
    BY <1>1, <1>2, ConnNoted
  <2> QED BY <1>2, <2>1, ConnectedKeeps DEF connect
<1>3. CASE /\ sock' = [sock EXCEPT ![sockfd].conn = "connecting"]
           /\ Go("poll")
           /\ UNCHANGED <<open, held, taken, sockfd, i, port>>
  <2>1. sock' \in [Fd -> Socket] /\ sock'[sockfd].nonblock
    BY <1>1, <1>3, ConnNoted
  <2>2. TypeOK'
    BY <1>3, <2>1, GoTypes DEF IInv, TypeOK
  <2>3. Control' /\ Owned' /\ Configured'
    BY <1>3, <2>1 DEF connect, Go, args, IInv, Control, Owned, OnlyZeroLeaks, Configured
  <2> QED BY <2>2, <2>3 DEF IInv
<1>4. CASE GiveUp(TRUE)
  BY <1>4, GiveUpKeeps DEF connect
<1> QED BY <1>2, <1>3, <1>4 DEF connect

(* poll, which may time out. *)
LEMMA PollSocketKeeps == IInv /\ PollSocket => IInv'
<1> SUFFICES ASSUME IInv, PollSocket PROVE IInv'
  OBVIOUS
<1>1. CASE Go("again") /\ UNCHANGED <<kernel, sockfd, i, port>>
  <2>1. TypeOK'
    BY <1>1, GoTypes DEF IInv, TypeOK, kernel
  <2>2. Control' /\ Owned' /\ Configured'
    BY <1>1 DEF PollSocket, Go, kernel, args, IInv, Control, Owned, OnlyZeroLeaks, Configured
  <2> QED BY <2>1, <2>2 DEF IInv
<1>2. CASE GiveUp(TRUE)
  BY <1>2, GiveUpKeeps DEF PollSocket
<1> QED BY <1>1, <1>2 DEF PollSocket

(* connect again, after the poll. *)
LEMMA connect_againKeeps == IInv /\ connect_again => IInv'
<1> SUFFICES ASSUME IInv, connect_again PROVE IInv'
  OBVIOUS
<1>1. CASE Established /\ Connected /\ UNCHANGED sock
  BY <1>1, ConnectedKeeps DEF connect_again, Established, IInv, TypeOK, Configured
<1>2. CASE GiveUp(TRUE)
  BY <1>2, GiveUpKeeps DEF connect_again
<1> QED BY <1>1, <1>2 DEF connect_again

(* fcntl, back to blocking. *)
LEMMA nonblock_offKeeps == IInv /\ nonblock_off => IInv'
<1> SUFFICES ASSUME IInv, nonblock_off PROVE IInv'
  OBVIOUS
<1>1. CASE SetSocketNonblock(FALSE) /\ Succeed
  <2>1. sock' \in [Fd -> Socket]
    <3>1. sock \in [Fd -> Socket] /\ sockfd \in Fd
      BY InUseFd DEF nonblock_off, IInv, TypeOK
    <3>2. PICK v \in BOOLEAN : v = FALSE
      OBVIOUS
    <3>3. sock' = [sock EXCEPT ![sockfd].nonblock = v]
      BY <1>1, <3>2 DEF SetSocketNonblock
    <3> QED BY <3>1, <3>3, ModeNoted
  <2> QED BY <1>1, <2>1, InUseFd, FdType, SucceedKeeps DEF nonblock_off, SetSocketNonblock
<1>2. CASE GiveUp(TRUE)
  BY <1>2, GiveUpKeeps DEF nonblock_off
<1> QED BY <1>1, <1>2 DEF nonblock_off

(* setsockopt, one option at a time. *)
LEMMA setsockoptKeeps == IInv /\ setsockopt => IInv'
<1> SUFFICES ASSUME IInv, setsockopt PROVE IInv'
  OBVIOUS
<1>1. CASE /\ sock' = IF Skips THEN sock
                      ELSE [sock EXCEPT ![sockfd].opts = @ \cup {OptNames[i + 1]}]
           /\ i' = i + 1
           /\ Go("options")
           /\ UNCHANGED <<open, held, taken, sockfd, port>>
  <2>1. i \in {0, 1, 2} /\ i + 1 \in 0..Len(OptNames)
    BY Names DEF setsockopt, IInv, TypeOK
  <2>2. /\ sock \in [Fd -> Socket] /\ sockfd \in Fd
        /\ sock[sockfd].nonblock /\ sock[sockfd].opts = Wanted(i)
    BY InUseFd DEF setsockopt, IInv, TypeOK, Configured
  <2>3. OptNames[i + 1] \in Opt
    BY <2>1, WantedNext
  <2>4. Wanted(i + 1) = IF Skips THEN Wanted(i) ELSE Wanted(i) \cup {OptNames[i + 1]}
    BY <2>1, WantedNext DEF Skips
  <2>5. sock' \in [Fd -> Socket] /\ sock'[sockfd].nonblock /\ sock'[sockfd].opts = Wanted(i + 1)
    <3>1. CASE Skips
      BY <1>1, <2>2, <2>4, <3>1
    <3>2. CASE ~Skips
      <4>1. sock[sockfd].opts \cup {OptNames[i + 1]} \in SUBSET Opt
        BY <2>2, <2>3 DEF Socket
      <4>2. PICK v \in SUBSET Opt : v = sock[sockfd].opts \cup {OptNames[i + 1]}
        BY <4>1
      <4>3. sock' = [sock EXCEPT ![sockfd].opts = v] /\ v = Wanted(i + 1)
        BY <1>1, <2>2, <2>4, <3>2, <4>2
      <4>4. sock' \in [Fd -> Socket] /\ sock'[sockfd].nonblock = sock[sockfd].nonblock
            /\ sock'[sockfd].opts = v
        <5>1. sock \in [Fd -> Socket] /\ sockfd \in Fd /\ v \subseteq Opt
              /\ sock' = [sock EXCEPT ![sockfd].opts = v]
          BY <2>2, <4>2, <4>3
        <5> QED BY <5>1, OptionsNoted
      <4>5. sock[sockfd].nonblock = TRUE
        <5>1. sock[sockfd] \in Socket
          BY <2>2
        <5>2. sock[sockfd].nonblock \in BOOLEAN
          BY <5>1 DEF Socket
        <5> QED BY <2>2, <5>2
      <4>6. sock'[sockfd].nonblock
        BY <4>4, <4>5
      <4>7. sock'[sockfd].opts = Wanted(i + 1)
        BY <4>3, <4>4, Zenon
      <4> QED BY <4>4, <4>6, <4>7
    <3> QED BY <3>1, <3>2
  <2>6. TypeOK'
    BY <1>1, <2>1, <2>5, GoTypes DEF IInv, TypeOK
  <2>7. Control' /\ Owned'
    BY <1>1 DEF setsockopt, Go, args, IInv, Control, Owned, OnlyZeroLeaks
  <2>8. UNCHANGED flag /\ pc' = "options"
    BY <1>1 DEF Go, args
  <2>9. Wanted(i)' = Wanted(i + 1)
    BY <1>1, <2>8 DEF Wanted
  <2>10. op' = "bindfree" => ~flag'
    BY <1>1 DEF Go, args, IInv, Configured
  <2>11. Configured'
    BY <1>1, <2>5, <2>8, <2>9, <2>10 DEF Configured
  <2> QED BY <2>6, <2>7, <2>11 DEF IInv
<1>2. CASE GiveUp(TRUE)
  BY <1>2, GiveUpKeeps DEF setsockopt
<1> QED BY <1>1, <1>2 DEF setsockopt

(* All options are set. *)
LEMMA OptionsSetKeeps == IInv /\ OptionsSet => IInv'
<1> SUFFICES ASSUME IInv, OptionsSet PROVE IInv'
  OBVIOUS
<1>1. CASE Succeed /\ UNCHANGED <<open, sock, taken>>
  BY <1>1, InUseFd, FdType, SucceedKeeps DEF OptionsSet, IInv, TypeOK
<1>2. CASE op # "listen" /\ Go("bind") /\ UNCHANGED <<kernel, sockfd, i, port>>
  <2>1. TypeOK'
    BY <1>2, GoTypes DEF IInv, TypeOK, kernel
  <2>2. Control' /\ Owned'
    BY <1>2 DEF OptionsSet, Go, kernel, args, IInv, Control, Owned, OnlyZeroLeaks
  <2>3. Wanted(i)' = Wanted(i)
    BY <1>2 DEF Go, args, Wanted
  <2>4. Configured'
    BY <1>2, <2>3 DEF OptionsSet, Go, kernel, args, IInv, Configured
  <2> QED BY <2>1, <2>2, <2>4 DEF IInv
<1> QED BY <1>1, <1>2 DEF OptionsSet

(* bind, to a port that is free or shared. *)
LEMMA bindKeeps == IInv /\ bind => IInv'
<1> SUFFICES ASSUME IInv, bind PROVE IInv'
  OBVIOUS
<1>1. PICK p \in Granted : sock' = [sock EXCEPT ![sockfd].port = p]
  BY DEF bind
<1>2. sock' \in [Fd -> Socket]
  BY <1>1, GrantedPorts, InUseFd, PortNoted DEF bind, IInv, TypeOK
<1> QED BY <1>2, InUseFd, FdType, SucceedKeeps DEF bind

(* bind, to a port in use: the next one is tried. *)
LEMMA bind_inuseKeeps == IInv /\ bind_inuse => IInv'
<1> SUFFICES ASSUME IInv, bind_inuse PROVE IInv'
  OBVIOUS
<1>1. /\ pc = "bind" /\ port' = port + 1 /\ Go("bind") /\ UNCHANGED <<kernel, sockfd, i>>
  BY DEF bind_inuse
<1>2. port' \in Nat
  BY <1>1 DEF IInv, TypeOK
<1>3. TypeOK'
  BY <1>1, <1>2, GoTypes DEF IInv, TypeOK, kernel
<1>4. Control' /\ Owned'
  BY <1>1 DEF Go, kernel, args, IInv, Control, Owned, OnlyZeroLeaks
<1>5. Wanted(i)' = Wanted(i)
  BY <1>1 DEF Go, args, Wanted
<1>6. Configured'
  BY <1>1, <1>5 DEF Go, kernel, args, IInv, Configured
<1> QED BY <1>3, <1>4, <1>6 DEF IInv

(* So does every step of a call. *)
LEMMA StepKeeps == IInv /\ Step => IInv'
<1>1. IInv /\ bind_fails => IInv'
  BY GiveUpKeeps DEF bind_fails
<1>2. IInv /\ bind_exhausted => IInv'
  BY GiveUpKeeps DEF bind_exhausted
<1> QED BY <1>1, <1>2, getaddrinfoKeeps, socketKeeps, nonblock_onKeeps, connectKeeps,
           PollSocketKeeps, connect_againKeeps, nonblock_offKeeps, setsockoptKeeps,
           OptionsSetKeeps, bindKeeps, bind_inuseKeeps DEF Step

-----------------------------------------------------------------------------
(* The surroundings. *)

(* What the others do to their descriptors leaves the call's own alone. *)
LEMMA OthersKeep ==
  ASSUME IInv, UNCHANGED <<pc, args, sockfd, i, port, result>>,
         open' \subseteq Fd, sock' \in [Fd -> Socket], held' \subseteq open', taken' \subseteq Port,
         open' \subseteq held' \cup {sockfd, 0}, sockfd \in open => sockfd \in open',
         sockfd \in held' <=> sockfd \in held,
         sockfd \in open => /\ sock'[sockfd].nonblock = sock[sockfd].nonblock
                            /\ sock'[sockfd].opts = sock[sockfd].opts,
         pc = "block" => sock'[sockfd].conn \in {"up", "reset"}
  PROVE  IInv'
<1>1. TypeOK'
  BY DEF IInv, TypeOK, args
<1>2. Control' /\ Owned'
  BY DEF args, IInv, Control, Owned, OnlyZeroLeaks
<1>3. Wanted(i)' = Wanted(i)
  BY DEF args, Wanted
<1>4. Configured'
  BY <1>3, InUseFd DEF args, IInv, Configured
<1> QED BY <1>1, <1>2, <1>4 DEF IInv

(* What the peer, the caller, another thread or another process does in between
   keeps it too. *)
LEMMA HandshakeKeeps == ASSUME IInv, NEW f \in Fd, Handshake(f) PROVE IInv'
<1>1. PICK c \in {"up", "refused", "reset"} :
        /\ sock' = [sock EXCEPT ![f].conn = c]
        /\ sock[f].conn \in {"connecting", "up"} /\ (sock[f].conn = "up" => c = "reset")
  BY DEF Handshake
<1>2. /\ sock' \in [Fd -> Socket] /\ sock'[f].conn = c
      /\ sock'[f].nonblock = sock[f].nonblock /\ sock'[f].opts = sock[f].opts
      /\ \A g \in Fd \ {f} : sock'[g] = sock[g]
  BY <1>1, ConnNoted DEF IInv, TypeOK
<1>3. sockfd \in open => sock'[sockfd].nonblock = sock[sockfd].nonblock /\ sock'[sockfd].opts = sock[sockfd].opts
  BY <1>2 DEF IInv, TypeOK
<1>4. pc = "block" => sock'[sockfd].conn \in {"up", "reset"}
  BY <1>1, <1>2, InUseFd DEF IInv, Configured
<1> QED BY <1>2, <1>3, <1>4, OthersKeep DEF Handshake, IInv, TypeOK, Owned, OnlyZeroLeaks

(* The caller closes a socket it was given. *)
LEMMA CallerClosesKeeps == ASSUME IInv, NEW f \in Fd, CallerCloses(f) PROVE IInv'
<1>1. sock' \in [Fd -> Socket] /\ \A g \in Fd \ {f} : sock'[g] = sock[g]
  BY FreshNoted DEF CallerCloses, IInv, TypeOK
<1>2. sockfd \in open => sockfd \in Fd \ {f}
  BY DEF CallerCloses, IInv, TypeOK
<1>3. pc = "block" => sock'[sockfd].conn \in {"up", "reset"}
  BY <1>1, <1>2, InUseFd DEF IInv, Configured
<1>4. /\ open' \subseteq Fd /\ held' \subseteq open' /\ open' \subseteq held' \cup {sockfd, 0}
      /\ sockfd \in open => sockfd \in open'
      /\ sockfd \in held' <=> sockfd \in held
  BY DEF CallerCloses, IInv, TypeOK, Owned, OnlyZeroLeaks
<1>5. UNCHANGED <<pc, args, sockfd, i, port, result>> /\ taken' \subseteq Port
  BY DEF CallerCloses, IInv, TypeOK
<1>6. sockfd \in open => /\ sock'[sockfd].nonblock = sock[sockfd].nonblock
                         /\ sock'[sockfd].opts = sock[sockfd].opts
  BY <1>1, <1>2
<1> QED BY <1>1, <1>3, <1>4, <1>5, <1>6, OthersKeep

(* The caller listens on a socket it was given. *)
LEMMA CallerListensKeeps == ASSUME IInv, NEW f \in Fd, CallerListens(f) PROVE IInv'
<1>1. sock' \in [Fd -> Socket] /\ \A g \in Fd \ {f} : sock'[g] = sock[g]
  <2>1. sock \in [Fd -> Socket] /\ sock' = [sock EXCEPT ![f].listening = TRUE] /\ TRUE \in BOOLEAN
    BY DEF CallerListens, IInv, TypeOK
  <2> QED BY <2>1, ListenNoted
<1>2. sockfd \in open => sockfd \in Fd \ {f}
  BY DEF CallerListens, IInv, TypeOK
<1>3. pc = "block" => sock'[sockfd].conn \in {"up", "reset"}
  BY <1>1, <1>2, InUseFd DEF IInv, Configured
<1> QED BY <1>1, <1>2, <1>3, OthersKeep DEF CallerListens, IInv, TypeOK, Owned, OnlyZeroLeaks

(* Another thread opens a descriptor. *)
LEMMA OtherThreadOpensKeeps == ASSUME IInv, NEW f \in Fd, OtherThreadOpens(f) PROVE IInv'
<1>1. sock' \in [Fd -> Socket] /\ \A g \in Fd \ {f} : sock'[g] = sock[g]
  BY FreshNoted DEF OtherThreadOpens, IInv, TypeOK
<1>2. sockfd # f /\ (sockfd \in open => sockfd \in Fd \ {f})
  BY FdType DEF OtherThreadOpens, IInv, TypeOK
<1>3. pc = "block" => sock'[sockfd].conn \in {"up", "reset"}
  BY <1>1, <1>2, InUseFd DEF IInv, Configured
<1> QED BY <1>1, <1>2, <1>3, OthersKeep DEF OtherThreadOpens, IInv, TypeOK, Owned, OnlyZeroLeaks

(* Another process takes a port. *)
LEMMA OtherProcessKeeps == ASSUME IInv, NEW p \in Port \ {0}, OtherProcess(p) PROVE IInv'
<1>1. pc = "block" => sock[sockfd].conn \in {"up", "reset"}
  BY DEF IInv, Configured
<1> QED BY <1>1, OthersKeep DEF OtherProcess, IInv, TypeOK, Owned, OnlyZeroLeaks

(* In every state the invariant holds. *)
LEMMA Invariance == Spec => []IInv
<1>1. IInv /\ [Next]_vars => IInv'
  <2> SUFFICES ASSUME IInv, [Next]_vars PROVE IInv'
    OBVIOUS
  <2>1. CASE UNCHANGED vars
    BY <2>1 DEF vars, kernel, args, IInv, TypeOK, Control, Owned, OnlyZeroLeaks, Configured, Wanted
  <2>2. CASE Step
    BY <2>2, StepKeeps
  <2>3. CASE \/ \E b \in BOOLEAN : CreateTcpSocketandConnect(b)
             \/ \E b \in BOOLEAN : CreateSocketforListenNonblock(b)
             \/ \E s \in Starts, n \in Spans : CreateTcpSocketandBindUsablePort(s, n)
             \/ \E f \in held, s \in Starts, n \in Spans : BindSocketWithUsablePort(f, s, s + n)
    BY <2>3, CallsKeep
  <2>4. CASE \E f \in Fd : Handshake(f) \/ CallerCloses(f) \/ CallerListens(f) \/ OtherThreadOpens(f)
    BY <2>4, HandshakeKeeps, CallerClosesKeeps, CallerListensKeeps, OtherThreadOpensKeeps
  <2>5. CASE \E p \in Port \ {0} : OtherProcess(p)
    BY <2>5, OtherProcessKeeps
  <2> QED BY <2>1, <2>2, <2>3, <2>4, <2>5 DEF Next
<1> QED BY <1>1, InitInv, PTL DEF Spec

(* Every variable of the socket helpers and of the kernel has its type. *)
THEOREM TypeCorrect == Spec => []TypeOK
<1>1. IInv => TypeOK
  BY DEF IInv
<1> QED BY <1>1, Invariance, PTL

(***************************************************************************)
(* Whatever system call fails, only descriptor 0 can be left open without  *)
(* an owner (socket_ops.cc, lines 83-89, 133-138, 184-188).                *)
(***************************************************************************)
THEOREM LeaksOnlyZero == Spec => []OnlyZeroLeaks
<1>1. IInv => OnlyZeroLeaks
  BY DEF IInv, Owned
<1> QED BY <1>1, Invariance, PTL
-----------------------------------------------------------------------------
(* What the calls answer. *)

(* What a call that gives up answers. *)
LEMMA Failed ==
  ASSUME NEW told, GiveUp(told)
  PROVE  result'.ok = FALSE /\ result'.told = told
  BY DEF GiveUp, Return

(* What a call that succeeds answers. *)
LEMMA Succeeded ==
  ASSUME Succeed
  PROVE  /\ result'.ok = TRUE /\ result'.told = FALSE /\ result'.fd = sockfd
         /\ op \in {"bind", "bindfree"} => result'.port = port
  BY DEF Succeed, Return

(* A call ends in one of six ways. *)
Fails == result'.ok = FALSE /\ result'.told = TRUE
RunsOut == bind_exhausted /\ result'.ok = FALSE
EndsUp ==
  /\ pc \in {"connect", "again"} /\ flag /\ Succeed
  /\ sock'[sockfd].conn = "up" /\ sock'[sockfd].nonblock = TRUE
EndsBlocking == nonblock_off /\ SetSocketNonblock(FALSE) /\ Succeed
EndsListening == OptionsSet /\ op = "listen" /\ Succeed /\ UNCHANGED sock
EndsBound == bind /\ Succeed

(* A call ends in one of six ways. *)
LEMMA HowCallsEnd ==
  ASSUME IInv, [Next]_vars, Returns
  PROVE  Fails \/ RunsOut \/ EndsUp \/ EndsBlocking \/ EndsListening \/ EndsBound
<1>1. Step
  <2>1. pc # "idle" /\ pc' # pc
    BY DEF Returns
  <2>2. ~(\E f \in Fd : Handshake(f) \/ CallerCloses(f) \/ CallerListens(f) \/ OtherThreadOpens(f))
    BY <2>1 DEF Handshake, CallerCloses, CallerListens, OtherThreadOpens
  <2>3. ~(\E p \in Port \ {0} : OtherProcess(p))
    BY <2>1 DEF OtherProcess
  <2>4. ~(\E b \in BOOLEAN : CreateTcpSocketandConnect(b) \/ CreateSocketforListenNonblock(b))
    BY <2>1 DEF CreateTcpSocketandConnect, CreateSocketforListenNonblock, Begin
  <2>5. ~(\E s \in Starts, n \in Spans : CreateTcpSocketandBindUsablePort(s, n))
    BY <2>1 DEF CreateTcpSocketandBindUsablePort, Begin
  <2>6. ~(\E f \in held, s \in Starts, n \in Spans : BindSocketWithUsablePort(f, s, s + n))
    BY <2>1 DEF BindSocketWithUsablePort, Begin
  <2>7. ~UNCHANGED vars
    BY <2>1 DEF vars
  <2> QED BY <2>2, <2>3, <2>4, <2>5, <2>6, <2>7 DEF Next
<1>2. ASSUME NEW next \in {"socket", "nonblock", "connect", "poll", "again", "block", "options", "bind"},
             Go(next)
      PROVE  FALSE
  BY <1>2 DEF Go, Returns
<1>3. GiveUp(TRUE) => Fails
  BY Failed DEF Fails
<1>4. ~getaddrinfo \/ Fails
  BY <1>2, <1>3 DEF getaddrinfo
<1>5. ~socket \/ Fails
  BY <1>2, <1>3 DEF socket
<1>6. ~nonblock_on \/ Fails
  BY <1>2, <1>3 DEF nonblock_on
<1>7. ~PollSocket \/ Fails
  BY <1>2, <1>3 DEF PollSocket
<1>8. ~setsockopt \/ Fails
  BY <1>2, <1>3 DEF setsockopt
<1>9. ~bind_inuse
  BY <1>2 DEF bind_inuse
<1>10. ~bind_fails \/ Fails
  BY <1>3 DEF bind_fails
<1>11. ~bind_exhausted \/ RunsOut
  BY Failed DEF bind_exhausted, RunsOut
<1>12. ~bind \/ EndsBound
  BY DEF bind, EndsBound
<1>13. ~OptionsSet \/ EndsListening
  BY <1>2 DEF OptionsSet, EndsListening
<1>14. ~nonblock_off \/ Fails \/ EndsBlocking
  BY <1>3 DEF nonblock_off, EndsBlocking
<1>15. Connected => flag /\ Succeed
  BY <1>2 DEF Connected
<1>16. pc \in {"connect", "again"} => /\ sockfd \in Fd /\ sock \in [Fd -> Socket]
                                     /\ sock[sockfd].nonblock = TRUE
  <2> SUFFICES ASSUME pc \in {"connect", "again"}
               PROVE  sockfd \in Fd /\ sock \in [Fd -> Socket] /\ sock[sockfd].nonblock = TRUE
    OBVIOUS
  <2>1. sockfd \in Fd /\ sock \in [Fd -> Socket] /\ sock[sockfd].nonblock
    BY InUseFd DEF IInv, TypeOK, Configured
  <2>2. sock[sockfd] \in Socket
    BY <2>1
  <2>3. sock[sockfd].nonblock \in BOOLEAN
    BY <2>2 DEF Socket
  <2> QED BY <2>1, <2>3
<1>17. ~connect \/ Fails \/ EndsUp
  <2>1. ASSUME connect, sock' = [sock EXCEPT ![sockfd].conn = "up"], Connected PROVE EndsUp
    <3>1. sock'[sockfd].conn = "up" /\ sock'[sockfd].nonblock = sock[sockfd].nonblock
      BY <1>16, <2>1, ConnNoted DEF connect
    <3> QED BY <1>15, <1>16, <2>1, <3>1 DEF connect, EndsUp
  <2> QED BY <1>2, <1>3, <2>1 DEF connect
<1>18. ~connect_again \/ Fails \/ EndsUp
  BY <1>3, <1>15, <1>16 DEF connect_again, Established, EndsUp
<1> QED BY <1>1, <1>4, <1>5, <1>6, <1>7, <1>8, <1>9, <1>10, <1>11, <1>12, <1>13, <1>14, <1>17, <1>18
        DEF Step

(***************************************************************************)
(* The status is written exactly when a call fails, except that running    *)
(* out of ports is silent (lines 151-165).                                 *)
(***************************************************************************)
THEOREM StatusAlwaysTells == Spec => StatusTellsFailure
<1> DEFINE Tells == Returns => \/ result'.told = ~result'.ok
                               \/ ~result'.ok /\ op \in {"bind", "bindfree"} /\ port >= portMax
<1>1. IInv /\ [Next]_vars => [Tells]_vars
  <2> HIDE DEF Tells
  <2> SUFFICES ASSUME IInv, [Next]_vars PROVE Tells
    OBVIOUS
  <2>1. CASE ~Returns
    BY <2>1 DEF Tells
  <2>2. CASE Fails
    BY <2>2 DEF Fails, Tells
  <2>3. CASE RunsOut
    BY <2>3 DEF RunsOut, bind_exhausted, MorePorts, IInv, TypeOK, Control, Tells
  <2>4. CASE Succeed
    BY <2>4, Succeeded DEF Tells
  <2> QED BY <2>1, <2>2, <2>3, <2>4, HowCallsEnd DEF EndsUp, EndsBlocking, EndsListening, EndsBound
<1> QED BY <1>1, Invariance, PTL DEF Spec, StatusTellsFailure

(***************************************************************************)
(* true from CreateTcpSocketandConnect means a handshake that succeeded, in *)
(* the mode asked for; a listening socket is nonblocking and shares its    *)
(* port only if asked (lines 54-78, 104-128).                              *)
(***************************************************************************)
THEOREM AlwaysAnswersAsAsked == Spec => AnswersAsAsked
<1> DEFINE s == sock'[result'.fd]
           AsAsked == CASE op = "connect" -> s.conn \in {"up", "reset"} /\ s.nonblock = flag
                        [] op \in {"listen", "bindfree"} ->
                             s.nonblock /\ s.opts = Opt \ (IF flag THEN {} ELSE {"REUSEPORT"})
                        [] OTHER -> TRUE
           Answers == Returns /\ result'.ok => AsAsked
<1>1. IInv /\ [Next]_vars => [Answers]_vars
  <2> HIDE DEF AsAsked
  <2> SUFFICES ASSUME IInv, [Next]_vars, Returns, result'.ok PROVE AsAsked
    OBVIOUS
  <2>1. ASSUME op = "connect", s.conn \in {"up", "reset"}, s.nonblock = flag PROVE AsAsked
    BY <2>1, Zenon DEF AsAsked
  <2>2. ASSUME op \in {"listen", "bindfree"}, s.nonblock,
               s.opts = Opt \ (IF flag THEN {} ELSE {"REUSEPORT"})
        PROVE  AsAsked
    <3>1. op # "connect"
      BY <2>2
    <3> QED BY <2>2, <3>1, Zenon DEF AsAsked
  <2>3. ASSUME op = "bind" PROVE AsAsked
    <3>1. op # "connect" /\ op \notin {"listen", "bindfree"}
      BY <2>3
    <3> QED BY <3>1, Zenon DEF AsAsked
  <2>4. CASE Fails \/ RunsOut
    BY <2>4 DEF Fails, RunsOut
  <2>5. CASE EndsUp
    <3>1. op = "connect" /\ flag = TRUE /\ result'.fd = sockfd
      BY <2>5, Succeeded DEF EndsUp, IInv, Control, TypeOK
    <3> QED BY <2>1, <2>5, <3>1 DEF EndsUp
  <2>6. CASE EndsBlocking
    <3>1. /\ op = "connect" /\ flag = FALSE /\ result'.fd = sockfd /\ sockfd \in Fd
          /\ sock[sockfd].conn \in {"up", "reset"}
      BY <2>6, Succeeded, InUseFd DEF EndsBlocking, nonblock_off, IInv, Control, TypeOK, Configured
    <3>2. sock'[sockfd].nonblock = FALSE /\ sock'[sockfd].conn = sock[sockfd].conn
      <4>1. sock \in [Fd -> Socket] /\ sockfd \in Fd
        BY <3>1 DEF IInv, TypeOK
      <4>2. PICK v \in BOOLEAN : v = FALSE
        OBVIOUS
      <4>3. sock' = [sock EXCEPT ![sockfd].nonblock = v]
        BY <2>6, <4>2 DEF EndsBlocking, SetSocketNonblock
      <4>4. sock'[sockfd].nonblock = v /\ sock'[sockfd].conn = sock[sockfd].conn
        BY <4>1, <4>3, ModeNoted
      <4> QED BY <4>2, <4>4
    <3> QED BY <2>1, <3>1, <3>2
  <2>7. CASE EndsListening
    <3>1. op = "listen" /\ result'.fd = sockfd /\ i = Len(OptNames)
      BY <2>7, Succeeded DEF EndsListening, OptionsSet
    <3>2. sock[sockfd].nonblock /\ sock[sockfd].opts = Wanted(Len(OptNames))
      BY <2>7, <3>1 DEF EndsListening, OptionsSet, IInv, Configured
    <3> QED BY <2>2, <2>7, <3>1, <3>2, WantedEnds DEF EndsListening
  <2>8. CASE EndsBound /\ op = "bindfree"
    <3>1. /\ result'.fd = sockfd /\ sockfd \in Fd /\ sock \in [Fd -> Socket]
          /\ sock[sockfd].nonblock /\ sock[sockfd].opts = Wanted(Len(OptNames))
      <4>1. pc = "bind" /\ Succeed
        BY <2>8 DEF EndsBound, bind
      <4>2. sockfd \in Fd /\ sock \in [Fd -> Socket]
        BY <4>1, InUseFd DEF IInv, TypeOK
      <4>3. result'.fd = sockfd
        BY <4>1, Succeeded
      <4> QED BY <2>8, <4>1, <4>2, <4>3 DEF IInv, Configured
    <3>2. PICK p \in Port : sock' = [sock EXCEPT ![sockfd].port = p]
      BY <2>8, GrantedPorts DEF EndsBound, bind, IInv, TypeOK
    <3>3. /\ sock'[sockfd].nonblock = sock[sockfd].nonblock
          /\ sock'[sockfd].opts = sock[sockfd].opts
      <4>1. sock \in [Fd -> Socket] /\ sockfd \in Fd /\ p \in Port \cup {NoPort}
        BY <3>1
      <4> QED BY <3>2, <4>1, PortNoted
    <3>4. sock[sockfd] \in Socket
      BY <3>1
    <3>5. sock[sockfd].nonblock = TRUE
      BY <3>1, <3>4 DEF Socket
    <3> QED BY <2>2, <2>8, <3>1, <3>3, <3>5, WantedEnds
  <2>9. CASE EndsBound /\ op = "bind"
    BY <2>3, <2>9
  <2>10. EndsBound => op \in {"bind", "bindfree"}
    BY DEF EndsBound, bind, IInv, Control
  <2> QED BY <2>4, <2>5, <2>6, <2>7, <2>8, <2>9, <2>10, HowCallsEnd
<1> QED BY <1>1, Invariance, PTL DEF Spec, AnswersAsAsked

(***************************************************************************)
(* The port answered is the port bound, up to the 16 bits htons keeps and  *)
(* unless these are 0 (lines 152-156).  Nobody else listens on it who did  *)
(* not, like the caller of the bind itself, ask to share it: never on the  *)
(* port of CreateTcpSocketandBindUsablePort (line 172).                    *)
(***************************************************************************)
THEOREM PortAlwaysAnswered == Spec => PortAnswered
<1> DEFINE Bound ==
      Returns /\ result'.ok /\ op \in {"bind", "bindfree"} =>
       /\ result'.port < portMax
       /\ htons(result'.port) \in {0, sock'[result'.fd].port}
       /\ sock'[result'.fd].port \notin taken'
       /\ \A g \in open' \ {result'.fd} :
            sock'[g].listening /\ sock'[g].port = sock'[result'.fd].port =>
              op = "bind" /\ "REUSEPORT" \in sock'[g].opts \cap sock'[result'.fd].opts
<1>1. IInv /\ [Next]_vars => [Bound]_vars
  <2> SUFFICES ASSUME IInv, [Next]_vars, Returns, result'.ok, op \in {"bind", "bindfree"}
               PROVE  /\ result'.port < portMax
                      /\ htons(result'.port) \in {0, sock'[result'.fd].port}
                      /\ sock'[result'.fd].port \notin taken'
                      /\ \A g \in open' \ {result'.fd} :
                           sock'[g].listening /\ sock'[g].port = sock'[result'.fd].port =>
                             op = "bind" /\ "REUSEPORT" \in sock'[g].opts \cap sock'[result'.fd].opts
    OBVIOUS
  <2>1. EndsBound
    <3>1. ~Fails /\ ~RunsOut
      BY DEF Fails, RunsOut
    <3>2. ~EndsUp /\ ~EndsBlocking /\ ~EndsListening
      BY DEF EndsUp, EndsBlocking, nonblock_off, EndsListening, IInv, Control
    <3> QED BY <3>1, <3>2, HowCallsEnd
  <2>2. result'.fd = sockfd /\ result'.port = port /\ sockfd \in Fd /\ sock \in [Fd -> Socket]
    BY <2>1, Succeeded, InUseFd DEF EndsBound, bind, IInv, TypeOK
  <2>3. PICK p \in Granted : sock' = [sock EXCEPT ![sockfd].port = p]
    BY <2>1 DEF EndsBound, bind
  <2>4. p \in Port /\ p \notin taken /\ htons(port) \in {0, p}
    BY <2>3, GrantedPorts DEF Granted, IInv, TypeOK
  <2>5. \A g \in open \ {sockfd} :
          sock[g].listening /\ sock[g].port = p => Share("REUSEPORT", sockfd, g)
    BY <2>3 DEF Granted, Others, Clash
  <2>6. /\ sock'[sockfd].port = p /\ sock'[sockfd].opts = sock[sockfd].opts
        /\ \A g \in Fd \ {sockfd} : sock'[g] = sock[g]
    BY <2>2, <2>3, <2>4, PortNoted
  <2>7. port < portMax /\ UNCHANGED <<open, taken>>
    BY <2>1 DEF EndsBound, bind, MorePorts
  (* The listening socket of the helper was made without REUSEPORT. *)
  <2>8. op = "bindfree" => "REUSEPORT" \notin sock[sockfd].opts
    BY <2>1 DEF EndsBound, bind, IInv, Configured, Wanted
  <2>9. ASSUME NEW g \in open' \ {result'.fd},
               sock'[g].listening, sock'[g].port = sock'[result'.fd].port
        PROVE  op = "bind" /\ "REUSEPORT" \in sock'[g].opts \cap sock'[result'.fd].opts
    <3>1. g \in open \ {sockfd} /\ sock'[g] = sock[g]
      BY <2>2, <2>6, <2>7, <2>9 DEF IInv, TypeOK
    <3>2. Share("REUSEPORT", sockfd, g)
      BY <2>2, <2>5, <2>6, <2>9, <3>1
    <3> QED BY <2>2, <2>6, <2>8, <3>1, <3>2 DEF Share
  <2> QED BY <2>2, <2>4, <2>6, <2>7, <2>9
<1> QED BY <1>1, Invariance, PTL DEF Spec, PortAnswered
=============================================================================
