----------------------------- MODULE SocketOps ------------------------------
(***************************************************************************)
(* The blocking helpers of src/io/socket_ops.cc, one action per system     *)
(* call they make, over a kernel whose answers are nondeterministic.  One  *)
(* call is in progress at a time; between its system calls the network,    *)
(* the other processes and the other threads go on.                        *)
(***************************************************************************)
EXTENDS Integers, Sequences, FiniteSets

CONSTANTS
  MaxFd,    (* the process can have the descriptors 0..MaxFd               *)
  PortMod,  (* 2^16: what htons keeps of a port                            *)
  Starts,   (* the values of port_start callers pass                       *)
  Spans     (* the lengths of the port ranges callers ask for              *)

ASSUME SocketAssumption ==
  /\ MaxFd \in Nat
  /\ PortMod \in Nat \ {0}
  /\ Starts \subseteq Nat
  /\ Spans \subseteq Int

Fd == 0..MaxFd
NoFd == -1
Port == 0..(PortMod - 1)
NoPort == -1

(* The socket options of line 99, in the order they are set. *)
OptNames == <<"KEEPALIVE", "REUSEADDR", "REUSEPORT">>
Opt == {OptNames[j] : j \in 1..3}

VARIABLES
  open,    (* the open descriptors of the process                          *)
  sock,    (* what the kernel knows of the socket behind each              *)
  held,    (* the descriptors that belong to callers and other threads     *)
  taken,   (* the ports other processes use and do not share               *)
  pc,      (* the system call the call in progress makes next              *)
  op,      (* which function it is                                         *)
  flag,    (* its nonblock or reuse argument                               *)
  sockfd,  (* its local sockfd (its fd argument, for the bind)             *)
  i,       (* how many socket options are dealt with                       *)
  port,    (* the port its loop is at                                      *)
  portMax, (* the first port its loop does not try                         *)
  result   (* of the last call: whether it succeeded, whether it wrote to
              its status, and what it answered                             *)

kernel == <<open, sock, held, taken>>
args == <<op, flag, portMax>>
vars == <<kernel, pc, args, sockfd, i, port, result>>

Calls == {"connect", "listen", "bindfree", "bind"}

Socket == [conn : {"none", "connecting", "up", "refused", "reset"},
           nonblock : BOOLEAN, opts : SUBSET Opt,
           port : Port \cup {NoPort}, listening : BOOLEAN]

Fresh == [conn |-> "none", nonblock |-> FALSE, opts |-> {},
          port |-> NoPort, listening |-> FALSE]

NoResult == [ok |-> FALSE, told |-> FALSE, fd |-> NoFd, port |-> NoPort]

(* A process starts with descriptor 0 open or closed. *)
Init ==
  /\ open \in {{}, {0}}
  /\ sock = [f \in Fd |-> Fresh]
  /\ held = open
  /\ taken = {}
  /\ pc = "idle"
  /\ op = "none"
  /\ flag = FALSE
  /\ sockfd = NoFd
  /\ i = 0
  /\ port = 0
  /\ portMax = 0
  /\ result = NoResult

-----------------------------------------------------------------------------
(* How a call starts and returns. *)

Begin(o, first, f, b, p, m) ==
  /\ pc = "idle"
  /\ pc' = first
  /\ op' = o
  /\ sockfd' = f
  /\ flag' = b
  /\ i' = 0
  /\ port' = p
  /\ portMax' = m
  /\ result' = NoResult
  /\ UNCHANGED kernel

CreateTcpSocketandConnect(nonblock) ==
  Begin("connect", "resolve", NoFd, nonblock, 0, 0)

CreateSocketforListenNonblock(reuse) ==
  Begin("listen", "socket", NoFd, reuse, 0, 0)

(* max_retry ports are asked for, and max_retry - 1 tried. *)
CreateTcpSocketandBindUsablePort(start, maxRetry) ==
  Begin("bindfree", "socket", NoFd, FALSE, start, start + maxRetry - 1)

BindSocketWithUsablePort(f, start, max) ==
  Begin("bind", "bind", f, FALSE, start, max)

Go(next) == pc' = next /\ UNCHANGED <<args, result>>

(* The call returns; its locals are gone. *)
Return(ok, told) ==
  /\ pc' = "idle"
  /\ result' = [ok |-> ok, told |-> told, fd |-> IF ok THEN sockfd ELSE NoFd,
                port |-> IF ok /\ op \in {"bind", "bindfree"} THEN port ELSE NoPort]
  /\ op' = "none" /\ sockfd' = NoFd /\ flag' = FALSE
  /\ i' = 0 /\ port' = 0 /\ portMax' = 0

(* The caller owns the descriptor it gets. *)
Succeed ==
  /\ Return(TRUE, FALSE)
  /\ held' = held \cup {sockfd}

(* The error labels: sockfd is closed if it is > 0.  The public bind leaves
   its caller's descriptor alone. *)
Closes_never == FALSE
Closes_always == sockfd > 0
Closes == sockfd > 0 /\ op # "bind"

GiveUp(told) ==
  /\ Return(FALSE, told)
  /\ open' = IF Closes THEN open \ {sockfd} ELSE open
  /\ sock' = IF Closes THEN [sock EXCEPT ![sockfd] = Fresh] ELSE sock
  /\ UNCHANGED <<held, taken>>

-----------------------------------------------------------------------------
(* The system calls. *)

getaddrinfo ==
  /\ pc = "resolve"
  /\ \/ Go("socket") /\ UNCHANGED <<kernel, sockfd, i, port>>
     \/ GiveUp(TRUE)

(* The kernel hands out the lowest free descriptor, if any. *)
socket ==
  /\ pc = "socket"
  /\ \/ \E f \in Fd \ open :
          /\ \A g \in Fd \ open : f <= g
          /\ open' = open \cup {f}
          /\ sock' = [sock EXCEPT ![f] = Fresh]
          /\ sockfd' = f
          /\ Go("nonblock")
          /\ UNCHANGED <<held, taken, i, port>>
     \/ GiveUp(TRUE)

SetSocketNonblock(b) ==
  sock' = [sock EXCEPT ![sockfd].nonblock = b] /\ UNCHANGED <<open, taken>>

nonblock_on ==
  /\ pc = "nonblock"
  /\ \/ /\ SetSocketNonblock(TRUE)
        /\ Go(IF op = "connect" THEN "connect" ELSE "options")
        /\ UNCHANGED <<held, sockfd, i, port>>
     \/ GiveUp(TRUE)

(* Where a connected socket goes: back to blocking, if that was asked. *)
Connected ==
  IF flag
  THEN Succeed /\ UNCHANGED <<open, taken>>
  ELSE Go("block") /\ UNCHANGED <<open, held, taken, sockfd, i, port>>

connect ==
  /\ pc = "connect"
  /\ \/ sock' = [sock EXCEPT ![sockfd].conn = "up"] /\ Connected
     \/ /\ sock' = [sock EXCEPT ![sockfd].conn = "connecting"]
        /\ Go("poll")
        /\ UNCHANGED <<open, held, taken, sockfd, i, port>>
     \/ GiveUp(TRUE)

(* poll answers when the handshake ended, either way; it may also time out
   or be interrupted before that, which a later handshake cannot undo. *)
Polled == sock[sockfd].conn # "connecting"

PollSocket_silent ==
  /\ pc = "poll"
  /\ \/ Polled /\ Go("again") /\ UNCHANGED <<kernel, sockfd, i, port>>
     \/ GiveUp(FALSE)
PollSocket ==
  /\ pc = "poll"
  /\ \/ Polled /\ Go("again") /\ UNCHANGED <<kernel, sockfd, i, port>>
     \/ GiveUp(TRUE)

(* The second connect tells how the handshake ended. *)
Established_any == TRUE
Established == sock[sockfd].conn = "up"

connect_again_retries ==
  /\ pc = "again"
  /\ IF Established THEN Connected /\ UNCHANGED sock
     ELSE Go("poll") /\ UNCHANGED <<kernel, sockfd, i, port>>
connect_again ==
  /\ pc = "again"
  /\ IF Established THEN Connected /\ UNCHANGED sock ELSE GiveUp(TRUE)

nonblock_off ==
  /\ pc = "block"
  /\ \/ /\ SetSocketNonblock(FALSE)
        /\ Succeed
     \/ GiveUp(TRUE)

(* One iteration of the option loop: REUSEPORT only if it was asked for. *)
Skips_never == FALSE
Skips == OptNames[i + 1] = "REUSEPORT" /\ ~flag

setsockopt ==
  /\ pc = "options" /\ i < Len(OptNames)
  /\ \/ /\ sock' = IF Skips THEN sock
                   ELSE [sock EXCEPT ![sockfd].opts = @ \cup {OptNames[i + 1]}]
        /\ i' = i + 1
        /\ Go("options")
        /\ UNCHANGED <<open, held, taken, sockfd, port>>
     \/ ~Skips /\ GiveUp(TRUE)

OptionsSet ==
  /\ pc = "options" /\ i = Len(OptNames)
  /\ IF op = "listen"
     THEN Succeed /\ UNCHANGED <<open, sock, taken>>
     ELSE Go("bind") /\ UNCHANGED <<kernel, sockfd, i, port>>

(***************************************************************************)
(* bind(htons(port)).  Two sockets of this process may have one port if    *)
(* both set REUSEPORT, or if both set REUSEADDR and the one that has it    *)
(* already does not listen.  Port 0 asks for any port that no socket has.  *)
(***************************************************************************)
Share(opt, f, g) == opt \in sock[f].opts \cap sock[g].opts
Clash(f, g) ==
  ~Share("REUSEPORT", f, g) /\ (sock[g].listening \/ ~Share("REUSEADDR", f, g))

Others(p) == {g \in open \ {sockfd} : sock[g].port = p}

htons(p) == p % PortMod

Granted ==
  IF htons(port) = 0 THEN {p \in Port \ {0} : p \notin taken /\ Others(p) = {}}
  ELSE {p \in {htons(port)} : p \notin taken /\ \A g \in Others(p) : ~Clash(sockfd, g)}

MorePorts == port < portMax

Bindable == sock[sockfd].conn = "none" /\ sock[sockfd].port = NoPort

bind ==
  /\ pc = "bind" /\ MorePorts /\ Bindable
  /\ \E p \in Granted : sock' = [sock EXCEPT ![sockfd].port = p]
  /\ Succeed
  /\ UNCHANGED <<open, taken>>

(* EADDRINUSE: the next port, after a sleep. *)
bind_inuse ==
  /\ pc = "bind" /\ MorePorts /\ Bindable
  /\ Granted = {}
  /\ port' = port + 1
  /\ Go("bind")
  /\ UNCHANGED <<kernel, sockfd, i>>

(* Any other error ends the loop and is told; running out of ports is not. *)
bind_fails == pc = "bind" /\ MorePorts /\ GiveUp(TRUE)

bind_exhausted == pc = "bind" /\ ~MorePorts /\ GiveUp(FALSE)

-----------------------------------------------------------------------------
(* The surroundings: a handshake ends, a peer resets, other processes take
   and free ports; callers and other threads use their descriptors. *)

Handshake(f) ==
  /\ f \in open
  /\ \/ sock[f].conn = "connecting" /\ \E c \in {"up", "refused"} : sock' = [sock EXCEPT ![f].conn = c]
     \/ sock[f].conn = "up" /\ sock' = [sock EXCEPT ![f].conn = "reset"]
  /\ UNCHANGED <<open, held, taken, pc, args, sockfd, i, port, result>>

OtherProcess(p) ==
  /\ taken' = IF p \in taken THEN taken \ {p} ELSE taken \cup {p}
  /\ p \notin {sock[f].port : f \in open}
  /\ UNCHANGED <<open, sock, held, pc, args, sockfd, i, port, result>>

(* A descriptor in use by a call is closed by that call only. *)
CallerCloses(f) ==
  /\ f \in held /\ f # sockfd
  /\ open' = open \ {f}
  /\ held' = held \ {f}
  /\ sock' = [sock EXCEPT ![f] = Fresh]
  /\ UNCHANGED <<taken, pc, args, sockfd, i, port, result>>

CallerListens(f) ==
  /\ f \in held /\ f # sockfd
  /\ sock[f].port # NoPort
  /\ \A g \in open \ {f} : sock[g].port = sock[f].port => ~Clash(f, g)
  /\ sock' = [sock EXCEPT ![f].listening = TRUE]
  /\ UNCHANGED <<open, held, taken, pc, args, sockfd, i, port, result>>

OtherThreadOpens(f) ==
  /\ f \in Fd \ open
  /\ \A g \in Fd \ open : f <= g
  /\ open' = open \cup {f}
  /\ held' = held \cup {f}
  /\ sock' = [sock EXCEPT ![f] = Fresh]
  /\ UNCHANGED <<taken, pc, args, sockfd, i, port, result>>

Step ==
  \/ getaddrinfo \/ socket \/ nonblock_on
  \/ connect \/ PollSocket \/ connect_again \/ nonblock_off
  \/ setsockopt \/ OptionsSet
  \/ bind \/ bind_inuse \/ bind_fails \/ bind_exhausted

Next ==
  \/ \E b \in BOOLEAN : CreateTcpSocketandConnect(b)
  \/ \E b \in BOOLEAN : CreateSocketforListenNonblock(b)
  \/ \E s \in Starts, n \in Spans : CreateTcpSocketandBindUsablePort(s, n)
  \/ \E f \in held, s \in Starts, n \in Spans : BindSocketWithUsablePort(f, s, s + n)
  \/ Step
  \/ \E f \in Fd : Handshake(f) \/ CallerCloses(f) \/ CallerListens(f) \/ OtherThreadOpens(f)
  \/ \E p \in Port \ {0} : OtherProcess(p)

(* The calling thread keeps running, and poll was given a timeout. *)
Spec == Init /\ [][Next]_vars /\ WF_vars(Step)
-----------------------------------------------------------------------------
(* Properties *)

(* Every variable has its type. *)
TypeOK ==
  /\ open \subseteq Fd
  /\ sock \in [Fd -> Socket]
  /\ held \subseteq open
  /\ taken \subseteq Port
  /\ pc \in {"idle", "resolve", "socket", "nonblock", "connect", "poll",
             "again", "block", "options", "bind"}
  /\ op \in Calls \cup {"none"}
  /\ flag \in BOOLEAN
  /\ sockfd \in open \cup {NoFd}
  /\ i \in 0..Len(OptNames)
  /\ port \in Nat /\ portMax \in Int
  /\ result.ok \in BOOLEAN

(***************************************************************************)
(* Whatever system call fails, the descriptors left open are the callers'  *)
(* and the one in use, except that descriptor 0 may stay behind: the error *)
(* labels (lines 83-89, 133-138, 184-188) test sockfd > 0.                 *)
(***************************************************************************)
OnlyZeroLeaks == open \subseteq held \cup {sockfd, 0}

Returns == pc # "idle" /\ pc' = "idle"

(***************************************************************************)
(* CreateTcpSocketandConnect answers true only for a socket whose          *)
(* handshake succeeded, in the blocking mode asked for; the listening      *)
(* sockets are nonblocking, and share their port only if asked (lines      *)
(* 54-78, 104-128).                                                        *)
(***************************************************************************)
AnswersAsAsked ==
  [][Returns /\ result'.ok =>
       LET s == sock'[result'.fd]
       IN  CASE op = "connect" -> s.conn \in {"up", "reset"} /\ s.nonblock = flag
             [] op \in {"listen", "bindfree"} ->
                  s.nonblock /\ s.opts = Opt \ (IF flag THEN {} ELSE {"REUSEPORT"})
             [] OTHER -> TRUE]_vars

(***************************************************************************)
(* The status is written exactly when a call fails, except when every port *)
(* of the range was in use: that failure is silent (lines 151-165).        *)
(***************************************************************************)
StatusTellsFailure ==
  [][Returns => \/ result'.told = ~result'.ok
                \/ ~result'.ok /\ op \in {"bind", "bindfree"} /\ port >= portMax]_vars

(***************************************************************************)
(* The port answered is the port bound, up to the 16 bits htons keeps and  *)
(* unless these are 0 (lines 152-156).  Nobody else listens on it who did  *)
(* not, like the caller of the bind itself, ask to share it: never on the  *)
(* port of CreateTcpSocketandBindUsablePort (line 172).                    *)
(***************************************************************************)
PortAnswered ==
  [][Returns /\ result'.ok /\ op \in {"bind", "bindfree"} =>
       /\ result'.port < portMax
       /\ htons(result'.port) \in {0, sock'[result'.fd].port}
       /\ sock'[result'.fd].port \notin taken'
       /\ \A g \in open' \ {result'.fd} :
            sock'[g].listening /\ sock'[g].port = sock'[result'.fd].port =>
              op = "bind" /\ "REUSEPORT" \in sock'[g].opts \cap sock'[result'.fd].opts]_vars

(* Every call comes back: the port loop ends, and poll has a timeout. *)
EveryCallReturns == pc # "idle" ~> pc = "idle"
=============================================================================
