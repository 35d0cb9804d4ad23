------------------------ MODULE EventLoopProperties ------------------------
(***************************************************************************)
(* What Core::worker keeps of its reads, buffers and listeners, and in     *)
(* which ways it loses them.                                               *)
(***************************************************************************)
EXTENDS EventLoop

\* Connections, completions and the kernel's tables keep their types; both
\* queues keep their size (Pipeline::getSqe).
TypeOK ==
    /\ connections \in [Fds -> Connection \cup {NoConn}]
    /\ next_group \in Groups
    /\ rings \in [Groups -> [Bufs -> Nat]]
    /\ sq \in Seq(Request) /\ Len(sq) <= QueueDepth
    /\ cq \in Seq(Completion) /\ Len(cq) <= CqSize
    /\ cqe \in Completion \cup {Idle} /\ rearming \in BOOLEAN
    /\ rearming => cqe # Idle
    /\ fd_table \in [Fds -> Sockets \cup {NoSock}]
    /\ number \in [Sockets -> Fds]
    /\ accepting \subseteq Listeners
    /\ reads \in [Sockets -> Seq([group : Groups, multi : BOOLEAN])]
    /\ sends \in [Sockets -> Nat]
    /\ fresh \subseteq Socks /\ events \in 0 .. MaxEvents
    /\ refused \subseteq Fds /\ muddled \subseteq Fds

-----------------------------------------------------------------------------
(* Reads *)

Count(seq, Test(_)) == Cardinality({i \in DOMAIN seq : Test(seq[i])})

\* the read that ended with c is still to be queued again
EndsRead(c, s) == c.op = "read" /\ c.sock = s /\ ~c.more

\* reads of s that are queued, held by the kernel, or about to be queued again
Reads(s) ==
    Count(sq, LAMBDA r : r.op = "read" /\ r.sock = s) + Len(reads[s])
      + Count(cq, LAMBDA c : EndsRead(c, s))
      + (IF cqe # Idle /\ EndsRead(cqe, s) THEN 1 ELSE 0)

\* The UDP socket and a TCP client have one read each, from Core.cpp:128 and
\* 230 on, through errors and ends of the multishot, unless the submission
\* queue refused it.  An fd that met the request or the completion of another
\* socket is left out: its reads may be lost or doubled.
OneReadAtATime ==
    \A fd \in Fds \ muddled :
        LET conn == connections[fd] IN
        conn # NoConn /\ conn.sock \notin Listeners /\ conn.kind # "sync"
            => Reads(conn.sock) = IF fd \in refused THEN 0 ELSE 1

\* The UDP socket is never left without a read that is queued, held by the
\* kernel or about to be queued again (Core.cpp:165-170, 652-660), as long as
\* the queue had room and no completion of it was overwritten.
UdpArmed ==
    \/ UdpFd \in refused \cup muddled
    \/ \E i \in DOMAIN sq : sq[i].op = "read" /\ sq[i].sock = UdpFd
    \/ reads[UdpFd] # <<>>
    \/ \E i \in DOMAIN cq : EndsRead(cq[i], UdpFd)
    \/ cqe # Idle /\ EndsRead(cqe, UdpFd)

\* The kernel has a read of the UDP socket again and again, whatever errors end
\* it (Core.cpp:165-170, 652-660).
UdpReadsAgain == []<>(reads[UdpFd] # <<>> \/ UdpFd \in refused \cup muddled)

-----------------------------------------------------------------------------
(* Buffers *)

Holders(g, b) ==
    Count(cq, LAMBDA c : <<g, b>> \in c.holds)
      + (IF cqe # Idle /\ <<g, b>> \in cqe.holds THEN 1 ELSE 0)

\* each buffer is offered to the kernel once or is the worker's to give back
BuffersExact == \A g \in Groups, b \in Bufs : rings[g][b] + Holders(g, b) = 1

\* A buffer is lost or offered twice only when the worker drops a completion of
\* a connection it has closed; when a Sync client hangs up (Core.cpp:263 gives
\* back buffer 0); when a read of a Sync connection, which has two after its
\* first request, is not the one whose group was picked last; or when an fd
\* met another socket, since it is used again or since the completion was
\* overwritten before its flags were read (Core.cpp:247).
BuffersDamagedOnlyBy ==
    [][BuffersExact /\ ~BuffersExact' =>
         /\ cqe # Idle /\ cqe.op = "read"
         /\ \/ ~Known(cqe.fd)
            \/ cqe.fd \in muddled'
            \/ /\ connections[cqe.fd].kind = "sync"
               /\ cqe.holds # {<<connections[cqe.fd].buf_group, cqe.buf>>}]_vars

-----------------------------------------------------------------------------
(* Listeners *)

FailedAccept(c, l) == c.op = "accept" /\ c.fd = l /\ c.res = "error"

\* an accept is armed, queued, or about to be queued again after an error
Hearing(l) ==
    /\ fd_table[l] = l
    /\ \/ l \in accepting
       \/ \E i \in DOMAIN sq : sq[i].op = "accept" /\ sq[i].fd = l
       \/ \E i \in DOMAIN cq : FailedAccept(cq[i], l)
       \/ cqe # Idle /\ FailedAccept(cqe, l)

\* A listener goes deaf in three ways only: an accept that succeeds is its last
\* (Core.cpp:187 does not look at hasMore), the submission queue is full, or an
\* accept of the TCP listener fails, which closes it (Core.cpp:172-175).
ListenerDeafOnlyBy ==
    [][\A l \in Listeners : Hearing(l) /\ ~Hearing(l)' =>
         \/ \E s \in Socks, fd \in Fds : Connect(l, s, fd, FALSE)
         \/ l \notin refused /\ l \in refused'
         \/ l = TcpFd /\ cqe # Idle /\ FailedAccept(cqe, l)]_vars
=============================================================================
