----------------------------- MODULE EventLoop -----------------------------
(***************************************************************************)
(* Core::worker and its Pipeline and BufferPool over one io_uring: the     *)
(* worker takes completions one by one and submits accepts, reads and      *)
(* sends; the kernel (SQPOLL) takes submissions when it likes and posts    *)
(* completions in any order, on sockets that stay alive while requests     *)
(* refer to them, whatever fd the program has closed.                      *)
(*                                                                         *)
(* A completion carries only an fd and a type.  The socket, the buffer it  *)
(* really holds and the socket a request was meant for are known to the    *)
(* model alone: the program never reads them.  Requests and replies have   *)
(* no content here (ResponseBuilder, SyncRequests).                        *)
(***************************************************************************)
EXTENDS Integers, Sequences, FiniteSets

CONSTANTS
    UdpFd, TcpFd, SyncFd,   \* thread.udpFd, .tcpFd, .syncFd
    ClientFds,    \* other fd numbers accept may hand out
    Socks,        \* bound: sockets accepted over a run
    NumGroups,    \* buffer groups (rings) of the pool
    NumBufs,      \* buffers per group
    QueueDepth,   \* entries of the submission queue
    CqSize,       \* entries of the completion queue
    MaxEvents,    \* bound: messages and failures over a run
    NoSock,       \* a closed fd
    NoConn,       \* no entry in thread.connections
    Idle          \* the worker holds no completion

Listeners == {TcpFd, SyncFd}
Fds == ClientFds \cup Listeners \cup {UdpFd}
Sockets == Socks \cup Listeners \cup {UdpFd}   \* an initial socket is its fd
Groups == 0 .. NumGroups - 1
Bufs == 0 .. NumBufs - 1

ASSUME LoopAssumption ==
    /\ NumGroups \in Nat \ {0} /\ NumBufs \in Nat \ {0}
    /\ QueueDepth \in Nat /\ QueueDepth >= 3
    /\ CqSize \in Nat \ {0} /\ MaxEvents \in Nat
    /\ NoSock \notin Sockets
    /\ UdpFd \notin ClientFds \cup Listeners

ASSUME SocketsAssumption ==
    /\ Socks \cap Fds = {} /\ TcpFd # SyncFd /\ Listeners \cap ClientFds = {}

Connection == [kind : {"udp", "tcp", "sync"}, sock : Sockets, buf_group : Groups]

Request ==
    [op : {"accept", "read", "send", "sendmsg"}, fd : Fds, sock : Sockets,
     group : Groups, multi : BOOLEAN]

Completion ==
    [op : {"accept", "read", "send", "sendmsg"}, fd : Fds, sock : Sockets,
     res : {"ok", "short", "error"}, more : BOOLEAN, buf : Bufs,
     holds : SUBSET (Groups \X Bufs), client : Fds]

ASSUME AbsenceAssumption == NoConn \notin Connection /\ Idle \notin Completion

VARIABLES
    connections,  \* thread.connections: fd |-> Connection or NoConn
    next_group,   \* rr_counter % rings.size()
    rings,        \* group |-> buffer |-> how often it is offered to the kernel
    sq,           \* submissions the kernel has not taken
    cq,           \* completions the worker has not taken
    cqe,          \* the completion the worker is handling, or Idle
    rearming,     \* the handler of cqe still has the "if (!hasMore)" to do
    \* the kernel's side
    fd_table,     \* fd |-> its open socket, or NoSock
    number,       \* accepted socket |-> the fd it was accepted as
    accepting,    \* listeners with a multishot accept
    reads,        \* socket |-> the reads it has
    sends,        \* socket |-> how many sends it has
    fresh,        \* sockets not accepted yet
    events,       \* messages and failures so far
    \* what happened, for the properties only
    refused,      \* fds whose read or accept found the submission queue full
    muddled       \* fds that met the request or completion of another socket

kernel == <<fd_table, number, accepting, reads, sends, fresh, events>>
vars == <<connections, next_group, rings, sq, cq, cqe, rearming, fd_table,
          number, accepting, reads, sends, fresh, events, refused, muddled>>

AcceptOn(fd) ==
    [op |-> "accept", fd |-> fd, sock |-> fd, group |-> 0, multi |-> TRUE]
ReadOn(fd, sock, group, multi) ==
    [op |-> "read", fd |-> fd, sock |-> sock, group |-> group, multi |-> multi]
SendOn(op, fd, sock) ==
    [op |-> op, fd |-> fd, sock |-> sock, group |-> 0, multi |-> FALSE]

\* the kernel's side of a completion without a buffer: its flags name buffer 0
Ended(op, fd, sock, res) ==
    [op |-> op, fd |-> fd, sock |-> sock, res |-> res, more |-> FALSE,
     buf |-> 0, holds |-> {}, client |-> fd]

\* BufferPool::setup
AllOffered == [g \in Groups |-> [b \in Bufs |-> 1]]

\* BufferPool::pickGroup, for the pick after this one
GroupAfter(g) == (g + 1) % NumGroups

\* initUDP, initTCP and initSync have opened their sockets; only initSync adds
\* no connection.  Two accepts and the read of the UDP socket are submitted.
Init ==
    /\ connections = [fd \in Fds |->
           IF fd = UdpFd THEN [kind |-> "udp", sock |-> fd, buf_group |-> 0]
           ELSE IF fd = TcpFd
                THEN [kind |-> "tcp", sock |-> fd, buf_group |-> 0]
                ELSE NoConn]
    /\ next_group = GroupAfter(0) /\ rings = AllOffered
    /\ sq = <<AcceptOn(TcpFd), AcceptOn(SyncFd), ReadOn(UdpFd, UdpFd, 0, TRUE)>>
    /\ cq = <<>> /\ cqe = Idle /\ rearming = FALSE
    /\ fd_table = [fd \in Fds |-> IF fd \in ClientFds THEN NoSock ELSE fd]
    /\ number = [s \in Sockets |-> IF s \in Socks THEN UdpFd ELSE s]
    /\ accepting = {} /\ reads = [s \in Sockets |-> <<>>]
    /\ sends = [s \in Sockets |-> 0]
    /\ fresh = Socks /\ events = 0
    /\ refused = {} /\ muddled = {}

-----------------------------------------------------------------------------
(* The Pipeline *)

\* mutant: one entry more than there are
HasSqeOrOneMore == Len(sq) <= QueueDepth

\* getSqe: the submission that follows a first failure frees no entry at once,
\* as the kernel's thread takes them when it likes
HasSqe == Len(sq) < QueueDepth

\* queueWriteTcp and queueWriteUdp: without an entry the reply is dropped
QueueWrite(op, fd) ==
    sq' = IF HasSqe THEN Append(sq, SendOn(op, fd, connections[fd].sock)) ELSE sq

\* the reply to a datagram is sent with its Context, others with the connection
Reply(fd) ==
    QueueWrite(IF connections[fd].kind = "udp" THEN "sendmsg" ELSE "send", fd)

QueueMultishotAccept(fd) ==
    IF HasSqe
    THEN sq' = Append(sq, AcceptOn(fd)) /\ UNCHANGED refused
    ELSE refused' = refused \cup {fd} /\ UNCHANGED sq

\* queueRead, and queueReadForSync, whose read is not multishot
QueueRead(fd, conns) ==
    IF HasSqe
    THEN /\ sq' = Append(sq, ReadOn(fd, conns[fd].sock, next_group,
                                    conns[fd].kind # "sync"))
         /\ connections' = [conns EXCEPT ![fd].buf_group = next_group]
         /\ next_group' = GroupAfter(next_group)
         /\ refused' = refused \ {fd}
    ELSE /\ connections' = conns
         /\ refused' = refused \cup {fd}
         /\ UNCHANGED <<sq, next_group>>

\* BufferPool::releaseBuffer
ReleaseBuffer(g, b) == rings' = [rings EXCEPT ![g][b] = @ + 1]

-----------------------------------------------------------------------------
(* The worker *)

Known(fd) == connections[fd] # NoConn

\* a completion of one socket is applied to the connection of another
Muddle(fd) ==
    muddled' = IF Known(fd) /\ connections[fd].sock # cqe.sock
               THEN muddled \cup {fd} ELSE muddled

\* io_uring_wait_cqe, the reads of data, res and flags, io_uring_cqe_seen
Wait ==
    /\ cqe = Idle /\ cq # <<>>
    /\ cqe' = Head(cq) /\ cq' = Tail(cq)
    /\ UNCHANGED <<connections, next_group, rings, sq, rearming, kernel, refused, muddled>>

Handling(op) == cqe # Idle /\ ~rearming /\ cqe.op = op

\* a datagram is sent, or not: its Context is deleted
DeleteContext ==
    /\ Handling("sendmsg")
    /\ cqe' = Idle
    /\ UNCHANGED <<connections, next_group, rings, sq, cq, rearming, kernel, refused, muddled>>

\* mutant: an error on the UDP socket ends its read for good
UdpErrorOnly ==
    /\ Handling("read") /\ cqe.res = "error"
    /\ cqe.fd = UdpFd /\ Known(UdpFd)
    /\ cqe' = Idle
    /\ UNCHANGED <<connections, next_group, sq, refused, rings, cq, rearming, kernel, muddled>>

UdpError ==
    /\ Handling("read") /\ cqe.res = "error"
    /\ cqe.fd = UdpFd /\ Known(UdpFd)
    /\ QueueRead(UdpFd, connections)
    /\ cqe' = Idle
    /\ UNCHANGED <<rings, cq, rearming, kernel, muddled>>

\* connections.erase and close, which find a listener as well as a client
Close(fd) ==
    /\ connections' = [connections EXCEPT ![fd] = NoConn]
    /\ fd_table' = [fd_table EXCEPT ![fd] = NoSock]

ClientError ==
    /\ cqe # Idle /\ ~rearming /\ cqe.op \in {"read", "send"} /\ cqe.res = "error"
    /\ cqe.fd # UdpFd
    /\ IF Known(cqe.fd) THEN Close(cqe.fd) ELSE UNCHANGED <<connections, fd_table>>
    /\ Muddle(cqe.fd)
    /\ cqe' = Idle
    /\ UNCHANGED <<next_group, rings, sq, cq, rearming, number, accepting, reads,
                   sends, fresh, events, refused>>

\* mutant: the accept is not queued again after an error
AcceptErrorOnly ==
    /\ Handling("accept") /\ cqe.res = "error"
    /\ IF Known(cqe.fd) THEN Close(cqe.fd) ELSE UNCHANGED <<connections, fd_table>>
    /\ Muddle(cqe.fd)
    /\ cqe' = Idle
    /\ UNCHANGED <<next_group, rings, cq, rearming, number, accepting, reads,
                   sends, fresh, events, sq, refused>>

AcceptError ==
    /\ Handling("accept") /\ cqe.res = "error"
    /\ IF Known(cqe.fd) THEN Close(cqe.fd) ELSE UNCHANGED <<connections, fd_table>>
    /\ QueueMultishotAccept(cqe.fd)
    /\ Muddle(cqe.fd)
    /\ cqe' = Idle
    /\ UNCHANGED <<next_group, rings, cq, rearming, number, accepting, reads,
                   sends, fresh, events>>

Accepted ==
    /\ Handling("accept") /\ cqe.res = "ok"
    /\ QueueRead(cqe.client, [connections EXCEPT ![cqe.client] =
           [kind |-> IF cqe.fd = TcpFd THEN "tcp" ELSE "sync",
            sock |-> cqe.sock, buf_group |-> 0]])
    /\ cqe' = Idle
    /\ UNCHANGED <<rings, cq, rearming, kernel, muddled>>

\* the connection is gone: the completion is dropped, its buffer with it
Dropped ==
    /\ cqe # Idle /\ ~rearming /\ cqe.op \in {"read", "send"} /\ cqe.res # "error"
    /\ ~Known(cqe.fd)
    /\ cqe' = Idle
    /\ UNCHANGED <<connections, next_group, rings, sq, cq, rearming, kernel, refused, muddled>>

\* too short for io_uring_recvmsg_validate
ReadShort ==
    /\ Handling("read") /\ cqe.res = "short" /\ Known(cqe.fd)
    /\ ReleaseBuffer(connections[cqe.fd].buf_group, cqe.buf)
    /\ Muddle(cqe.fd)
    /\ cqe' = Idle
    /\ UNCHANGED <<connections, next_group, sq, cq, rearming, kernel, refused>>

\* mutant: the buffer goes back only with the last message of a read
ReadDataKeepsBuffer ==
    /\ Handling("read") /\ cqe.res = "ok" /\ Known(cqe.fd)
    /\ IF cqe.more THEN UNCHANGED rings
       ELSE ReleaseBuffer(connections[cqe.fd].buf_group, cqe.buf)
    /\ Reply(cqe.fd)
    /\ Muddle(cqe.fd)
    /\ IF cqe.more THEN cqe' = Idle /\ UNCHANGED rearming
       ELSE cqe' = [cqe EXCEPT !.holds = {}] /\ rearming' = TRUE
    /\ UNCHANGED <<connections, next_group, cq, kernel, refused>>

\* the message is copied out, the buffer released, the reply queued
ReadData ==
    /\ Handling("read") /\ cqe.res = "ok" /\ Known(cqe.fd)
    /\ ReleaseBuffer(connections[cqe.fd].buf_group, cqe.buf)
    /\ Reply(cqe.fd)
    /\ Muddle(cqe.fd)
    /\ IF cqe.more THEN cqe' = Idle /\ UNCHANGED rearming
       ELSE cqe' = [cqe EXCEPT !.holds = {}] /\ rearming' = TRUE
    /\ UNCHANGED <<connections, next_group, cq, kernel, refused>>

\* "if (!hasMore)" behind the switch
Rearm ==
    /\ rearming
    /\ QueueRead(cqe.fd, connections)
    /\ cqe' = Idle /\ rearming' = FALSE
    /\ UNCHANGED <<rings, cq, kernel, muddled>>

\* mutant: a TCP connection gets a read after each reply too
WrittenAnyKind ==
    /\ Handling("send") /\ cqe.res = "ok" /\ Known(cqe.fd)
    /\ QueueRead(cqe.fd, connections)
    /\ Muddle(cqe.fd)
    /\ cqe' = Idle
    /\ UNCHANGED <<rings, cq, rearming, kernel>>

\* after the answer to a Sync request another read is queued
Written ==
    /\ Handling("send") /\ cqe.res = "ok" /\ Known(cqe.fd)
    /\ IF connections[cqe.fd].kind = "sync" THEN QueueRead(cqe.fd, connections)
       ELSE UNCHANGED <<connections, next_group, sq, refused>>
    /\ Muddle(cqe.fd)
    /\ cqe' = Idle
    /\ UNCHANGED <<rings, cq, rearming, kernel>>

-----------------------------------------------------------------------------
(* The kernel.  The entry the worker has seen but still reads is the next   *)
(* to be overwritten when all others are in use: its flags are, and its res *)
(* where the handler of a read takes it again.                              *)

Overwrites ==
    /\ cqe # Idle /\ ~rearming /\ Len(cq) = CqSize - 1
    /\ cqe.op = "read" /\ cqe.res # "error"

Post(c, met) ==
    /\ Len(cq) < CqSize
    /\ cq' = Append(cq, c)
    /\ IF Overwrites
       THEN /\ \E res \in {"ok", "short"} : cqe' = [cqe EXCEPT !.buf = c.buf, !.res = res]
            /\ muddled' = muddled \cup met \cup {cqe.fd}
       ELSE cqe' = cqe /\ muddled' = muddled \cup met

worker == <<connections, next_group, rearming, refused>>

\* a submission whose fd is closed, or is no listener, ends at once
KernelTake ==
    /\ sq # <<>> /\ sq' = Tail(sq)
    /\ LET r == Head(sq)
           s == fd_table[r.fd]
           met == IF s # NoSock /\ s # r.sock THEN {r.fd} ELSE {} IN
       IF s = NoSock \/ (r.op = "accept" /\ s # r.fd)
       THEN /\ Post(Ended(r.op, r.fd, r.sock, "error"), met)
            /\ UNCHANGED <<accepting, reads, sends>>
       ELSE /\ accepting' = IF r.op = "accept" THEN accepting \cup {s} ELSE accepting
            /\ reads' = IF r.op # "read" THEN reads
                        ELSE [reads EXCEPT ![s] =
                            Append(@, [group |-> r.group, multi |-> r.multi])]
            /\ sends' = IF r.op \notin {"send", "sendmsg"} THEN sends
                        ELSE [sends EXCEPT ![s] = @ + 1]
            /\ muddled' = muddled \cup met
            /\ UNCHANGED <<cq, cqe>>
    /\ UNCHANGED <<worker, rings, fd_table, number, fresh, events>>

Event == events < MaxEvents /\ events' = events + 1

Without(seq, i) == SubSeq(seq, 1, i - 1) \o SubSeq(seq, i + 1, Len(seq))

\* only a read that is no multishot can come with less than a header
Message(s, i, b, res, more) ==
    LET g == reads[s][i].group IN
    /\ Event
    /\ rings[g][b] > 0
    /\ rings' = [rings EXCEPT ![g][b] = @ - 1]
    /\ IF reads[s][i].multi THEN res = "ok" ELSE ~more
    /\ reads' = IF more THEN reads ELSE [reads EXCEPT ![s] = Without(@, i)]
    /\ Post([Ended("read", number[s], s, res) EXCEPT
                !.more = more, !.buf = b, !.holds = {<<g, b>>}], {})
    /\ UNCHANGED <<worker, sq, fd_table, number, accepting, sends, fresh>>

\* the peer has closed: a multishot read ends with an empty message, which is
\* a Message, a single one with no buffer
EndOfStream(s, i) ==
    /\ ~reads[s][i].multi /\ Event
    /\ reads' = [reads EXCEPT ![s] = Without(@, i)]
    /\ Post(Ended("read", number[s], s, "short"), {})
    /\ UNCHANGED <<worker, rings, sq, fd_table, number, accepting, sends, fresh>>

\* reset by the peer, or no buffer left in the group
ReadFails(s, i) ==
    /\ Event
    /\ reads' = [reads EXCEPT ![s] = Without(@, i)]
    /\ Post(Ended("read", number[s], s, "error"), {})
    /\ UNCHANGED <<worker, rings, sq, fd_table, number, accepting, sends, fresh>>

SendEnds(s, res) ==
    /\ sends[s] > 0
    /\ IF res = "ok" THEN UNCHANGED events ELSE Event
    /\ sends' = [sends EXCEPT ![s] = @ - 1]
    /\ Post(Ended(IF s = UdpFd THEN "sendmsg" ELSE "send", number[s], s, res), {})
    /\ UNCHANGED <<worker, rings, sq, fd_table, number, accepting, reads, fresh>>

Connect(l, s, fd, more) ==
    /\ l \in accepting /\ s \in fresh /\ fd_table[fd] = NoSock
    /\ fresh' = fresh \ {s}
    /\ fd_table' = [fd_table EXCEPT ![fd] = s]
    /\ number' = [number EXCEPT ![s] = fd]
    /\ accepting' = IF more THEN accepting ELSE accepting \ {l}
    /\ Post([Ended("accept", l, s, "ok") EXCEPT !.more = more, !.client = fd], {})
    /\ UNCHANGED <<worker, rings, sq, reads, sends, events>>

AcceptFails(l) ==
    /\ l \in accepting /\ Event
    /\ accepting' = accepting \ {l}
    /\ Post(Ended("accept", l, l, "error"), {})
    /\ UNCHANGED <<worker, rings, sq, fd_table, number, reads, sends, fresh>>

-----------------------------------------------------------------------------

Worker ==
    \/ Wait \/ DeleteContext \/ UdpError \/ ClientError \/ AcceptError \/ Accepted
    \/ Dropped \/ ReadShort \/ ReadData \/ Rearm \/ Written

Kernel ==
    \/ KernelTake
    \/ \E s \in Sockets : \E i \in DOMAIN reads[s] :
           \/ \E b \in Bufs, res \in {"ok", "short"}, more \in BOOLEAN :
                  Message(s, i, b, res, more)
           \/ EndOfStream(s, i) \/ ReadFails(s, i)
    \/ \E s \in Sockets, res \in {"ok", "error"} : SendEnds(s, res)
    \/ \E l \in Listeners, s \in Socks, fd \in Fds, more \in BOOLEAN : Connect(l, s, fd, more)
    \/ \E l \in Listeners : AcceptFails(l)

Next == Worker \/ Kernel

Spec == Init /\ [][Next]_vars

\* the worker never leaves its loop, the kernel's thread takes submissions
FairSpec == Spec /\ WF_vars(Worker) /\ WF_vars(KernelTake)
=============================================================================
