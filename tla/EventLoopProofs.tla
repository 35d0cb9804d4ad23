-------------------------- MODULE EventLoopProofs --------------------------
(***************************************************************************)
(* EventLoop, for any number of fds, sockets, buffers and queue entries:   *)
(* its types and that the UDP socket never loses its read (LoopInv), that  *)
(* listeners go deaf in the named ways only (ListenerInv), that a          *)
(* connection has one read at a time, and that buffers get lost or doubled *)
(* in the named ways only (FlowInv).                                       *)
(***************************************************************************)
EXTENDS EventLoopProperties, SequenceTheorems, FiniteSetTheorems, TLAPS

(* An accept is of a listener, and neither its socket nor its fd is the    *)
(* UDP socket's; a read of the UDP socket was asked for under its fd.      *)
CompletionOk(c) ==
    /\ c.op = "accept" => c.fd \in Listeners
    /\ c.op = "accept" /\ c.res = "ok" => c.client # UdpFd /\ c.sock # UdpFd
    /\ c.op = "read" /\ c.sock = UdpFd => c.fd = UdpFd

Long(c) == c.op = "read" /\ c.sock = UdpFd => c.res # "short"

RequestOk(r) ==
    /\ r.op = "accept" => r.fd \in Listeners
    /\ r.op = "read" => (r.fd = UdpFd <=> r.sock = UdpFd)
    /\ r.op = "read" /\ r.fd = UdpFd => r.multi

(* Only the fd UdpFd stands for the UDP socket, in the connections, in the *)
(* kernel's table and in every request and completion, and all its reads   *)
(* are multishot; so a completion that leaves its handler early is never   *)
(* one of it, unless it was overwritten.                                   *)
ConnectionsInv ==
    /\ connections[UdpFd] \in Connection
    /\ connections[UdpFd].kind = "udp" /\ connections[UdpFd].sock = UdpFd
    /\ \A fd \in Fds \ {UdpFd} : connections[fd] # NoConn => connections[fd].sock # UdpFd

KernelInv ==
    /\ \A fd \in Fds : fd_table[fd] = UdpFd <=> fd = UdpFd
    /\ number[UdpFd] = UdpFd
    /\ \A i \in DOMAIN reads[UdpFd] : reads[UdpFd][i].multi

QueuesInv ==
    /\ \A i \in DOMAIN sq : RequestOk(sq[i])
    /\ \A i \in DOMAIN cq : CompletionOk(cq[i]) /\ Long(cq[i])

WorkerInv ==
    /\ cqe # Idle => CompletionOk(cqe) /\ (Long(cqe) \/ UdpFd \in muddled)
    /\ rearming => cqe.op = "read" /\ Known(cqe.fd)

LoopInv == TypeOK /\ ConnectionsInv /\ KernelInv /\ QueuesInv /\ WorkerInv /\ UdpArmed

-----------------------------------------------------------------------------
(* Constants, records and sequences *)

LEMMA Constants ==
    /\ UdpFd \in Fds /\ UdpFd \in Sockets /\ UdpFd \notin Listeners
    /\ Listeners \subseteq Fds /\ Listeners \subseteq Sockets
    /\ Fds \subseteq Fds \cup Sockets /\ ClientFds \subseteq Fds
    /\ Socks \subseteq Sockets /\ UdpFd \notin Socks
    /\ 0 \in Groups /\ 0 \in Bufs /\ NumGroups \in Nat \ {0}
    /\ QueueDepth \in Nat /\ CqSize \in Nat /\ MaxEvents \in Nat
    /\ NoSock \notin Sockets
  BY LoopAssumption, SocketsAssumption DEF Fds, Sockets, Groups, Bufs, Listeners

LEMMA Cycled == ASSUME NEW g \in Groups PROVE GroupAfter(g) \in Groups
  BY Constants DEF Groups, GroupAfter

(* Only Append, Tail and Without change a queue or a list of reads.        *)
LEMMA Appended ==
    ASSUME NEW S, NEW q \in Seq(S), NEW e \in S
    PROVE  /\ Append(q, e) \in Seq(S) /\ Len(Append(q, e)) = Len(q) + 1
           /\ DOMAIN Append(q, e) = 1 .. Len(q) + 1
           /\ Append(q, e)[Len(q) + 1] = e
           /\ \A i \in DOMAIN q : i \in DOMAIN Append(q, e) /\ Append(q, e)[i] = q[i]
           /\ \A i \in DOMAIN Append(q, e) :
                  i \in DOMAIN q \/ Append(q, e)[i] = e
           /\ Len(Append(q, e)) \in DOMAIN Append(q, e)
  OBVIOUS

LEMMA Tailed ==
    ASSUME NEW S, NEW q \in Seq(S), q # <<>>
    PROVE  /\ Head(q) \in S /\ Tail(q) \in Seq(S) /\ Len(Tail(q)) = Len(q) - 1
           /\ 1 \in DOMAIN q /\ Head(q) = q[1]
           /\ \A i \in DOMAIN Tail(q) : i + 1 \in DOMAIN q /\ Tail(q)[i] = q[i + 1]
           /\ \A i \in DOMAIN q :
                  i = 1 \/ (i - 1 \in DOMAIN Tail(q) /\ Tail(q)[i - 1] = q[i])
  OBVIOUS

LEMMA WithoutOne ==
    ASSUME NEW S, NEW q \in Seq(S), NEW i \in DOMAIN q
    PROVE  /\ Without(q, i) \in Seq(S)
           /\ \A j \in DOMAIN Without(q, i) :
                  \E k \in DOMAIN q : Without(q, i)[j] = q[k]
<1> DEFINE low == SubSeq(q, 1, i - 1)
           high == SubSeq(q, i + 1, Len(q))
<1>1. i \in 1 .. Len(q) /\ DOMAIN q = 1 .. Len(q) /\ Len(q) \in Nat
  OBVIOUS
<1>2. /\ low \in Seq(S) /\ Len(low) = i - 1
      /\ \A j \in 1 .. i - 1 : low[j] = q[j]
  <2>1. \A j \in 1 .. i - 1 : q[j] \in S
    BY <1>1
  <2> QED BY <1>1, <2>1, SubSeqProperties
<1>3. /\ high \in Seq(S) /\ Len(high) = Len(q) - i
      /\ \A j \in 1 .. Len(q) - i : high[j] = q[i + j]
  <2>1. \A j \in i + 1 .. Len(q) : q[j] \in S
    BY <1>1
  <2>2. /\ high \in Seq(S)
        /\ Len(high) = IF i + 1 <= Len(q) THEN Len(q) - (i + 1) + 1 ELSE 0
        /\ \A j \in 1 .. Len(q) - (i + 1) + 1 : high[j] = q[i + 1 + j - 1]
    BY <1>1, <2>1, SubSeqProperties
  <2> QED BY <1>1, <2>2
<1> HIDE DEF low, high
<1>4. /\ low \o high \in Seq(S) /\ Len(low \o high) = Len(low) + Len(high)
      /\ \A j \in 1 .. Len(low) + Len(high) : (low \o high)[j] =
             IF j <= Len(low) THEN low[j] ELSE high[j - Len(low)]
  BY <1>2, <1>3, ConcatProperties
<1>5. ASSUME NEW j \in DOMAIN (low \o high)
      PROVE  \E k \in DOMAIN q : (low \o high)[j] = q[k]
  <2>1. j \in 1 .. Len(q) - 1
    BY <1>1, <1>2, <1>3, <1>4
  <2>2. CASE j <= i - 1
    BY <1>1, <1>2, <1>4, <2>1, <2>2
  <2>3. CASE j > i - 1
    <3>1. (low \o high)[j] = high[j - (i - 1)] /\ j - (i - 1) \in 1 .. Len(q) - i
      <4>1. Len(low) = i - 1 /\ Len(low) + Len(high) = Len(q) - 1
        BY <1>1, <1>2, <1>3
      <4>2. j \in 1 .. Len(low) + Len(high) /\ ~(j <= Len(low))
        BY <1>1, <2>1, <2>3, <4>1
      <4>3. (low \o high)[j] = high[j - Len(low)]
        BY <1>4, <4>2
      <4>4. j - (i - 1) \in 1 .. Len(q) - i
        BY <1>1, <2>1, <2>3
      <4> QED
        BY <4>1, <4>3, <4>4
    <3> DEFINE k == j - (i - 1)
    <3>2. k \in 1 .. Len(q) - i
      BY <3>1
    <3> HIDE DEF k
    <3>3. high[k] = q[i + k]
      BY <1>3, <3>2
    <3>4. i + k \in DOMAIN q
      BY <1>1, <3>2
    <3> QED BY <3>1, <3>3, <3>4 DEF k
  <2> QED BY <1>1, <2>1, <2>2, <2>3
<1> QED
  BY <1>4, <1>5 DEF Without, low, high

(* The submission queue and the completion queue *)

Queued(q) == \E i \in DOMAIN q : q[i].op = "read" /\ q[i].sock = UdpFd
Ending(q) == \E i \in DOMAIN q : EndsRead(q[i], UdpFd)

LEMMA Armed ==
    UdpArmed <=> \/ UdpFd \in refused \cup muddled
                 \/ Queued(sq) \/ reads[UdpFd] # <<>> \/ Ending(cq)
                 \/ cqe # Idle /\ EndsRead(cqe, UdpFd)
  BY DEF UdpArmed, Queued, Ending

LEMMA ArmedNext ==
    ASSUME \/ UdpFd \in refused' \cup muddled'
           \/ Queued(sq') \/ reads'[UdpFd] # <<>> \/ Ending(cq')
           \/ cqe' # Idle /\ EndsRead(cqe', UdpFd)
    PROVE  UdpArmed'
  BY DEF UdpArmed, Queued, Ending, EndsRead

Connections == [Fds -> Connection \cup {NoConn}]

(* A read queued for a connection is of its socket; the UDP socket gets it  *)
(* or is refused.                                                           *)
LEMMA QueueReadStep ==
    ASSUME TypeOK, QueuesInv, NEW fd \in Fds, NEW conns \in Connections,
           conns[fd] \in Connection, fd = UdpFd <=> conns[fd].sock = UdpFd,
           fd = UdpFd => conns[fd].kind = "udp", QueueRead(fd, conns)
    PROVE  /\ connections' \in Connections /\ next_group' \in Groups
           /\ \A f \in Fds : /\ connections'[f] = NoConn <=> conns[f] = NoConn
                             /\ connections'[f] \in Connection <=> conns[f] \in Connection
                             /\ conns[f] \in Connection =>
                                  /\ connections'[f].sock = conns[f].sock
                                  /\ connections'[f].kind = conns[f].kind
           /\ sq' \in Seq(Request) /\ Len(sq') <= QueueDepth
           /\ \A i \in DOMAIN sq' : RequestOk(sq'[i])
           /\ refused' \subseteq Fds
           /\ Queued(sq) => Queued(sq')
           /\ fd # UdpFd /\ UdpFd \in refused => UdpFd \in refused'
           /\ fd = UdpFd => UdpFd \in refused' \/ Queued(sq')
<1> DEFINE r == ReadOn(fd, conns[fd].sock, next_group, conns[fd].kind # "sync")
<1>1. CASE HasSqe
  <2>1. r \in Request /\ RequestOk(r) /\ r.op = "read" /\ r.sock = conns[fd].sock
    BY Constants DEF TypeOK, Request, ReadOn, RequestOk, Connection
  <2>2. /\ sq' = Append(sq, r) /\ refused' = refused \ {fd}
        /\ connections' = [conns EXCEPT ![fd].buf_group = next_group]
        /\ next_group' = GroupAfter(next_group)
    BY <1>1 DEF QueueRead
  <2> HIDE DEF r
  <2>3. connections' \in Connections /\ next_group' \in Groups
    BY <2>2, Cycled, AbsenceAssumption DEF Connections, Connection, TypeOK
  <2>4. \A f \in Fds : /\ connections'[f] = NoConn <=> conns[f] = NoConn
                       /\ connections'[f] \in Connection <=> conns[f] \in Connection
                       /\ conns[f] \in Connection =>
                            /\ connections'[f].sock = conns[f].sock
                            /\ connections'[f].kind = conns[f].kind
    BY <2>2, <2>3, AbsenceAssumption DEF Connections, Connection, TypeOK
  <2>5. /\ sq' \in Seq(Request) /\ Len(sq') = Len(sq) + 1 /\ Len(sq') \in DOMAIN sq'
        /\ sq'[Len(sq')] = r
        /\ \A i \in DOMAIN sq : i \in DOMAIN sq' /\ sq'[i] = sq[i]
        /\ \A i \in DOMAIN sq' : i \in DOMAIN sq \/ sq'[i] = r
    BY <2>1, <2>2, Appended DEF TypeOK
  <2>6. Len(sq') <= QueueDepth
    BY <1>1, <2>5, Constants DEF HasSqe, TypeOK
  <2>7. /\ \A i \in DOMAIN sq' : RequestOk(sq'[i])
        /\ Queued(sq) => Queued(sq')
        /\ fd = UdpFd => Queued(sq')
    BY <2>1, <2>5 DEF Queued, QueuesInv
  <2> QED
    BY <2>2, <2>3, <2>4, <2>5, <2>6, <2>7 DEF TypeOK
<1>2. CASE ~HasSqe
  <2>1. /\ connections' = conns /\ refused' = refused \cup {fd}
        /\ sq' = sq /\ next_group' = next_group
    BY <1>2 DEF QueueRead
  <2> QED
    BY <2>1 DEF TypeOK, QueuesInv, Queued
<1> QED BY <1>1, <1>2

LEMMA QueueOtherStep ==
    ASSUME TypeOK, QueuesInv, NEW r \in Request, RequestOk(r), HasSqe,
           sq' = Append(sq, r)
    PROVE  /\ sq' \in Seq(Request) /\ Len(sq') <= QueueDepth
           /\ \A i \in DOMAIN sq' : RequestOk(sq'[i])
           /\ Queued(sq) => Queued(sq')
<1>1. /\ sq' \in Seq(Request) /\ Len(sq') = Len(sq) + 1
      /\ \A i \in DOMAIN sq : i \in DOMAIN sq' /\ sq'[i] = sq[i]
      /\ \A i \in DOMAIN sq' : i \in DOMAIN sq \/ sq'[i] = r
  BY Appended DEF TypeOK
<1> QED
  BY <1>1, Constants DEF Queued, QueuesInv, HasSqe, TypeOK

(* The overwritten completion keeps all but its flags and its res.          *)
LEMMA PostStep ==
    ASSUME TypeOK, QueuesInv, WorkerInv, NEW c \in Completion, CompletionOk(c), Long(c),
           NEW met \in SUBSET Fds, Post(c, met)
    PROVE  /\ cq' \in Seq(Completion) /\ Len(cq') <= CqSize
           /\ \A i \in DOMAIN cq' : CompletionOk(cq'[i]) /\ Long(cq'[i])
           /\ Ending(cq) \/ EndsRead(c, UdpFd) => Ending(cq')
           /\ cqe' \in Completion \cup {Idle} /\ (cqe' = Idle <=> cqe = Idle)
           /\ cqe # Idle => cqe'.op = cqe.op /\ cqe'.fd = cqe.fd
           /\ cqe # Idle => CompletionOk(cqe') /\ (Long(cqe') \/ UdpFd \in muddled')
           /\ cqe # Idle /\ EndsRead(cqe, UdpFd) => EndsRead(cqe', UdpFd)
           /\ muddled \subseteq muddled' /\ muddled' \subseteq Fds
<1>1. /\ cq' = Append(cq, c) /\ Len(cq) < CqSize
  BY DEF Post
<1>2. /\ cq' \in Seq(Completion) /\ Len(cq') = Len(cq) + 1 /\ Len(cq') \in DOMAIN cq'
      /\ cq'[Len(cq')] = c
      /\ \A i \in DOMAIN cq : i \in DOMAIN cq' /\ cq'[i] = cq[i]
      /\ \A i \in DOMAIN cq' : i \in DOMAIN cq \/ cq'[i] = c
  BY <1>1, Appended DEF TypeOK
<1>3. /\ Len(cq') <= CqSize
      /\ \A i \in DOMAIN cq' : CompletionOk(cq'[i]) /\ Long(cq'[i])
      /\ Ending(cq) \/ EndsRead(c, UdpFd) => Ending(cq')
  BY <1>1, <1>2, Constants DEF QueuesInv, Ending, TypeOK
<1>4. CASE Overwrites
  <2>1. PICK res \in {"ok", "short"} : cqe' = [cqe EXCEPT !.buf = c.buf, !.res = res]
    BY <1>4 DEF Post
  <2>2. cqe \in Completion /\ cqe # Idle /\ cqe.op = "read" /\ cqe.fd \in Fds
    BY <1>4 DEF Overwrites, TypeOK, Completion
  <2>3. muddled' = muddled \cup met \cup {cqe.fd}
    BY <1>4 DEF Post
  <2>4. /\ cqe' \in Completion /\ cqe'.op = cqe.op /\ cqe'.fd = cqe.fd
        /\ cqe'.sock = cqe.sock /\ cqe'.more = cqe.more
    BY <2>1, <2>2 DEF Completion
  <2>5. CompletionOk(cqe') /\ (Long(cqe') \/ UdpFd \in muddled')
    BY <2>2, <2>3, <2>4 DEF WorkerInv, CompletionOk, Long
  <2>6. cqe' # Idle /\ (EndsRead(cqe, UdpFd) => EndsRead(cqe', UdpFd))
    BY <2>4, AbsenceAssumption DEF EndsRead
  <2>7. muddled \subseteq muddled' /\ muddled' \subseteq Fds
    BY <2>2, <2>3 DEF TypeOK
  <2> QED
    BY <1>2, <1>3, <2>2, <2>4, <2>5, <2>6, <2>7
<1>5. CASE ~Overwrites
  <2>1. cqe' = cqe /\ muddled' = muddled \cup met
    BY <1>5 DEF Post
  <2>2. muddled \subseteq muddled' /\ muddled' \subseteq Fds
    BY <2>1 DEF TypeOK
  <2>3. cqe # Idle => CompletionOk(cqe') /\ (Long(cqe') \/ UdpFd \in muddled')
    BY <2>1, <2>2 DEF WorkerInv
  <2> QED
    BY <1>2, <1>3, <2>1, <2>2, <2>3 DEF TypeOK
<1> QED BY <1>4, <1>5

-----------------------------------------------------------------------------
(* The initial states and the worker's steps *)

LEMMA InitInv == ASSUME Init PROVE LoopInv
<1>1. TypeOK
  <2>1. /\ AcceptOn(TcpFd) \in Request /\ AcceptOn(SyncFd) \in Request
        /\ ReadOn(UdpFd, UdpFd, 0, TRUE) \in Request
    BY Constants DEF AcceptOn, ReadOn, Request, Listeners
  <2>2. sq \in Seq(Request) /\ Len(sq) <= QueueDepth
    <3>1. ASSUME NEW a \in Request, NEW b \in Request, NEW c \in Request
          PROVE  <<a, b, c>> \in Seq(Request) /\ Len(<<a, b, c>>) = 3
      OBVIOUS
    <3>2. sq = <<AcceptOn(TcpFd), AcceptOn(SyncFd), ReadOn(UdpFd, UdpFd, 0, TRUE)>>
      BY DEF Init
    <3>3. sq \in Seq(Request) /\ Len(sq) = 3
      BY <2>1, <3>1, <3>2
    <3> QED BY <3>3, LoopAssumption
  <2>3. connections \in [Fds -> Connection \cup {NoConn}]
    BY Constants DEF Init, Connection, Listeners
  <2>4. next_group \in Groups
    BY Constants, Cycled DEF Init
  <2>5. rings \in [Groups -> [Bufs -> Nat]] /\ reads \in [Sockets -> Seq([group : Groups, multi : BOOLEAN])]
        /\ sends \in [Sockets -> Nat]
    BY DEF Init, AllOffered
  <2>6. fd_table \in [Fds -> Sockets \cup {NoSock}] /\ number \in [Sockets -> Fds]
    BY Constants DEF Init, Fds, Sockets
  <2>7. cq \in Seq(Completion) /\ Len(cq) <= CqSize
    BY Constants DEF Init
  <2>8. events \in 0 .. MaxEvents
    BY Constants DEF Init
  <2>9. /\ cqe \in Completion \cup {Idle} /\ rearming \in BOOLEAN
        /\ rearming => cqe # Idle
        /\ accepting \subseteq Listeners /\ fresh \subseteq Socks
        /\ refused \subseteq Fds /\ muddled \subseteq Fds
    BY Zenon DEF Init
  <2> QED
    BY <2>2, <2>3, <2>4, <2>5, <2>6, <2>7, <2>8, <2>9 DEF TypeOK
<1>2. ConnectionsInv
  BY Constants, AbsenceAssumption DEF Init, ConnectionsInv, Connection, Listeners
<1>3. KernelInv
  BY Constants, LoopAssumption DEF Init, KernelInv
<1>4. QueuesInv
  <2>1. sq = <<AcceptOn(TcpFd), AcceptOn(SyncFd), ReadOn(UdpFd, UdpFd, 0, TRUE)>>
    BY DEF Init
  <2>2. /\ RequestOk(AcceptOn(TcpFd)) /\ RequestOk(AcceptOn(SyncFd))
        /\ RequestOk(ReadOn(UdpFd, UdpFd, 0, TRUE))
    BY Constants DEF AcceptOn, ReadOn, RequestOk, Listeners
  <2>3. /\ DOMAIN sq = 1 .. 3 /\ sq[1] = AcceptOn(TcpFd) /\ sq[2] = AcceptOn(SyncFd)
        /\ sq[3] = ReadOn(UdpFd, UdpFd, 0, TRUE)
    BY <2>1
  <2>5. \A i \in DOMAIN sq : i = 1 \/ i = 2 \/ i = 3
    BY <2>3
  <2>6. \A i \in DOMAIN sq : RequestOk(sq[i])
    BY <2>2, <2>3, <2>5
  <2>4. cq = <<>>
    BY DEF Init
  <2> QED BY <2>4, <2>6 DEF QueuesInv
<1>5. WorkerInv
  BY DEF Init, WorkerInv
<1>6. UdpArmed
  <2>1. sq[3].op = "read" /\ sq[3].sock = UdpFd /\ 3 \in DOMAIN sq
    BY DEF Init, ReadOn
  <2> QED BY <2>1 DEF UdpArmed
<1> QED BY <1>1, <1>2, <1>3, <1>4, <1>5, <1>6 DEF LoopInv

(* A completion handled to its end leaves cqe idle, and with it nothing for *)
(* the worker to keep; the kernel's tables are not the worker's to change.  *)
LEMMA WaitInv == ASSUME LoopInv, Wait PROVE LoopInv'
<1>1. /\ Head(cq) \in Completion /\ Tail(cq) \in Seq(Completion) /\ Len(Tail(cq)) = Len(cq) - 1
      /\ 1 \in DOMAIN cq /\ Head(cq) = cq[1]
      /\ \A i \in DOMAIN Tail(cq) : i + 1 \in DOMAIN cq /\ Tail(cq)[i] = cq[i + 1]
      /\ \A i \in DOMAIN cq :
             i = 1 \/ (i - 1 \in DOMAIN Tail(cq) /\ Tail(cq)[i - 1] = cq[i])
  BY Tailed DEF LoopInv, TypeOK, Wait
<1>2. cqe' = Head(cq) /\ cq' = Tail(cq) /\ ~rearming
  BY DEF Wait, LoopInv, TypeOK
<1>3. TypeOK'
  <2>1. cq' \in Seq(Completion) /\ Len(cq') <= CqSize
    BY <1>1, <1>2, Constants DEF LoopInv, TypeOK
  <2>2. cqe' \in Completion /\ cqe' # Idle
    BY <1>1, <1>2, AbsenceAssumption
  <2> QED
    BY <2>1, <2>2 DEF LoopInv, TypeOK, Wait, kernel
<1>4. ConnectionsInv' /\ KernelInv'
  BY DEF LoopInv, ConnectionsInv, KernelInv, Wait, kernel
<1>5. QueuesInv'
  BY <1>1, <1>2 DEF LoopInv, QueuesInv, Wait
<1>6. WorkerInv'
  BY <1>1, <1>2 DEF LoopInv, QueuesInv, WorkerInv, Wait
<1>7. UdpArmed'
  <2>1. cqe = Idle /\ UNCHANGED <<refused, muddled, sq, reads>>
    BY DEF Wait, kernel
  <2>2. Ending(cq) => Ending(cq') \/ (cqe' # Idle /\ EndsRead(cqe', UdpFd))
    BY <1>1, <1>2, AbsenceAssumption DEF Ending
  <2> QED BY <2>1, <2>2, Armed, ArmedNext DEF LoopInv
<1> QED BY <1>3, <1>4, <1>5, <1>6, <1>7 DEF LoopInv

LEMMA DeleteContextInv == ASSUME LoopInv, DeleteContext PROVE LoopInv'
<1>1. TypeOK' /\ ConnectionsInv' /\ KernelInv' /\ QueuesInv' /\ WorkerInv'
  BY DEF LoopInv, TypeOK, ConnectionsInv, KernelInv, QueuesInv, WorkerInv, DeleteContext, Handling, kernel
<1>2. UdpArmed'
  <2>1. ~EndsRead(cqe, UdpFd) /\ UNCHANGED <<refused, muddled, sq, reads, cq>>
    BY DEF DeleteContext, Handling, EndsRead, kernel
  <2> QED BY <2>1, Armed, ArmedNext DEF LoopInv
<1> QED BY <1>1, <1>2 DEF LoopInv

(* A completion of the UDP socket finds its connection.                    *)
LEMMA DroppedInv == ASSUME LoopInv, Dropped PROVE LoopInv'
<1>1. TypeOK' /\ ConnectionsInv' /\ KernelInv' /\ QueuesInv' /\ WorkerInv'
  BY DEF LoopInv, TypeOK, ConnectionsInv, KernelInv, QueuesInv, WorkerInv, Dropped, kernel
<1>2. UdpArmed'
  <2>1. ~EndsRead(cqe, UdpFd) /\ UNCHANGED <<refused, muddled, sq, reads, cq>>
    BY AbsenceAssumption
    DEF Dropped, EndsRead, kernel, LoopInv, WorkerInv, CompletionOk, Known, ConnectionsInv
  <2> QED BY <2>1, Armed, ArmedNext DEF LoopInv
<1> QED BY <1>1, <1>2 DEF LoopInv

LEMMA ConnectionsFrame ==
    ASSUME ConnectionsInv, UNCHANGED connections
    PROVE  ConnectionsInv'
  BY DEF ConnectionsInv

LEMMA KernelFrame == ASSUME KernelInv, UNCHANGED kernel PROVE KernelInv'
  BY DEF KernelInv, kernel

LEMMA MuddleType ==
    ASSUME TypeOK, NEW fd \in Fds, Muddle(fd)
    PROVE  muddled \subseteq muddled' /\ muddled' \subseteq Fds
  BY DEF Muddle, TypeOK

LEMMA KnownType ==
    ASSUME TypeOK, NEW fd \in Fds, Known(fd)
    PROVE  connections[fd] \in Connection /\ connections[fd].buf_group \in Groups
<1>1. connections[fd] \in Connection
  BY DEF TypeOK, Known
<1> QED BY <1>1 DEF Connection

LEMMA ReleaseType ==
    ASSUME TypeOK, NEW g \in Groups, NEW b \in Bufs, ReleaseBuffer(g, b)
    PROVE  rings' \in [Groups -> [Bufs -> Nat]]
<1>1. rings[g] \in [Bufs -> Nat] /\ rings[g][b] + 1 \in Nat
  BY DEF TypeOK
<1>2. [rings[g] EXCEPT ![b] = rings[g][b] + 1] \in [Bufs -> Nat]
  BY <1>1
<1> QED BY <1>2 DEF ReleaseBuffer, TypeOK

(* A short completion of the UDP socket is one that was overwritten.       *)
LEMMA ReadShortInv == ASSUME LoopInv, ReadShort PROVE LoopInv'
<1>1. /\ cqe \in Completion /\ cqe.op = "read" /\ cqe.res = "short" /\ Known(cqe.fd)
      /\ ~rearming /\ cqe.fd \in Fds /\ cqe.buf \in Bufs
  BY DEF LoopInv, TypeOK, ReadShort, Handling, Completion
<1>2. muddled \subseteq muddled' /\ muddled' \subseteq Fds
  BY <1>1, MuddleType DEF ReadShort, LoopInv
<1>3. rings' \in [Groups -> [Bufs -> Nat]]
  BY <1>1, KnownType, ReleaseType DEF LoopInv, ReadShort
<1>4. TypeOK'
  BY <1>1, <1>2, <1>3 DEF LoopInv, TypeOK, ReadShort, kernel
<1>5. ConnectionsInv' /\ KernelInv'
  BY ConnectionsFrame, KernelFrame DEF LoopInv, ReadShort
<1>6. QueuesInv' /\ WorkerInv'
  BY <1>1 DEF LoopInv, QueuesInv, WorkerInv, ReadShort
<1>7. UdpArmed'
  <2>1. EndsRead(cqe, UdpFd) => UdpFd \in muddled
    BY <1>1, AbsenceAssumption DEF EndsRead, LoopInv, WorkerInv, Long, TypeOK
  <2>2. UNCHANGED <<refused, sq, reads, cq>>
    BY DEF ReadShort, kernel
  <2> QED BY <1>2, <2>1, <2>2, Armed, ArmedNext DEF LoopInv
<1> QED BY <1>4, <1>5, <1>6, <1>7 DEF LoopInv

(* The handlers that end in queueRead: fd is a connection's, and the UDP   *)
(* socket's if the completion ended its read.                              *)
LEMMA QueueReadInv ==
    ASSUME LoopInv, NEW fd \in Fds, NEW conns \in Connections,
           conns[UdpFd] \in Connection, conns[UdpFd].kind = "udp",
           conns[UdpFd].sock = UdpFd, conns[fd] \in Connection,
           \A f \in Fds \ {UdpFd} : conns[f] # NoConn => conns[f].sock # UdpFd,
           QueueRead(fd, conns), cqe # Idle,
           EndsRead(cqe, UdpFd) => fd = UdpFd,
           cqe' = Idle, rearming' = FALSE, UNCHANGED <<rings, cq, kernel>>,
           muddled \subseteq muddled', muddled' \subseteq Fds
    PROVE  LoopInv'
<1>1. fd = UdpFd <=> conns[fd].sock = UdpFd
  BY AbsenceAssumption
<1>2. /\ connections' \in Connections /\ next_group' \in Groups
      /\ \A f \in Fds : /\ connections'[f] = NoConn <=> conns[f] = NoConn
                        /\ connections'[f] \in Connection <=> conns[f] \in Connection
                        /\ conns[f] \in Connection =>
                             /\ connections'[f].sock = conns[f].sock
                             /\ connections'[f].kind = conns[f].kind
      /\ sq' \in Seq(Request) /\ Len(sq') <= QueueDepth
      /\ \A i \in DOMAIN sq' : RequestOk(sq'[i])
      /\ refused' \subseteq Fds
      /\ Queued(sq) => Queued(sq')
      /\ fd # UdpFd /\ UdpFd \in refused => UdpFd \in refused'
      /\ fd = UdpFd => UdpFd \in refused' \/ Queued(sq')
  BY <1>1, QueueReadStep DEF LoopInv
<1>3. TypeOK'
  BY <1>2 DEF LoopInv, TypeOK, Connections, kernel
<1>4. ConnectionsInv'
  <2>1. \A f \in Fds : conns[f] # NoConn => conns[f] \in Connection
    BY DEF Connections
  <2> QED
    BY <1>2, <2>1, Constants, AbsenceAssumption DEF ConnectionsInv
<1>5. KernelInv'
  BY KernelFrame DEF LoopInv
<1>6. QueuesInv' /\ WorkerInv'
  BY <1>2 DEF LoopInv, QueuesInv, WorkerInv
<1>7. UdpArmed'
  <2>1. CASE fd = UdpFd
    BY <1>2, <2>1, ArmedNext
  <2>2. CASE fd # UdpFd
    BY <1>2, <2>2, Armed, ArmedNext DEF LoopInv, kernel
  <2> QED BY <2>1, <2>2
<1> QED BY <1>3, <1>4, <1>5, <1>6, <1>7 DEF LoopInv

LEMMA ConnectionsFacts ==
    ASSUME LoopInv
    PROVE  /\ connections \in Connections
           /\ connections[UdpFd] \in Connection /\ connections[UdpFd].kind = "udp"
           /\ connections[UdpFd].sock = UdpFd
           /\ \A f \in Fds \ {UdpFd} : connections[f] # NoConn => connections[f].sock # UdpFd
           /\ \A f \in Fds : Known(f) => connections[f] \in Connection
           /\ cqe # Idle => cqe \in Completion /\ cqe.fd \in Fds /\ CompletionOk(cqe)
  BY DEF LoopInv, TypeOK, ConnectionsInv, Connections, Known, WorkerInv, Completion

LEMMA UdpErrorInv == ASSUME LoopInv, UdpError PROVE LoopInv'
<1>1. /\ QueueRead(UdpFd, connections) /\ cqe # Idle /\ cqe' = Idle /\ ~rearming
      /\ UNCHANGED <<rings, cq, rearming, kernel, muddled>>
  BY DEF UdpError, Handling
<1>2. rearming' = FALSE /\ muddled' \subseteq Fds /\ muddled \subseteq muddled'
  BY <1>1 DEF LoopInv, TypeOK
<1> QED
  BY <1>1, <1>2, Constants, ConnectionsFacts, QueueReadInv

LEMMA AcceptedInv == ASSUME LoopInv, Accepted PROVE LoopInv'
<1> DEFINE kind == IF cqe.fd = TcpFd THEN "tcp" ELSE "sync"
           conn == [kind |-> kind, sock |-> cqe.sock, buf_group |-> 0]
           conns == [connections EXCEPT ![cqe.client] = conn]
<1>1. /\ QueueRead(cqe.client, conns) /\ cqe # Idle /\ cqe' = Idle /\ ~rearming
      /\ cqe.op = "accept" /\ cqe.res = "ok"
      /\ UNCHANGED <<rings, cq, rearming, kernel, muddled>>
  BY DEF Accepted, Handling
<1>2. rearming' = FALSE /\ muddled' \subseteq Fds /\ muddled \subseteq muddled'
  BY <1>1 DEF LoopInv, TypeOK
<1>3. /\ cqe.client \in Fds /\ cqe.sock \in Sockets
      /\ cqe.client # UdpFd /\ cqe.sock # UdpFd
  BY <1>1, ConnectionsFacts DEF Completion, CompletionOk
<1>4. conn \in Connection /\ conn.sock = cqe.sock
  BY <1>3, Constants DEF Connection
<1>5. ~EndsRead(cqe, UdpFd)
  BY <1>1 DEF EndsRead
<1> HIDE DEF conn
<1>6. conns \in Connections /\ conns[cqe.client] = conn
  BY <1>3, <1>4, ConnectionsFacts DEF Connections
<1>7. \A f \in Fds : f # cqe.client => conns[f] = connections[f]
  BY ConnectionsFacts DEF Connections
<1> HIDE DEF conns
<1>8. /\ conns[UdpFd] \in Connection /\ conns[UdpFd].kind = "udp"
      /\ conns[UdpFd].sock = UdpFd
      /\ \A f \in Fds \ {UdpFd} : conns[f] # NoConn => conns[f].sock # UdpFd
  BY <1>3, <1>4, <1>6, <1>7, Constants, ConnectionsFacts
<1> QED
  BY <1>1, <1>2, <1>3, <1>4, <1>5, <1>6, <1>8, QueueReadInv

LEMMA RearmInv == ASSUME LoopInv, Rearm PROVE LoopInv'
<1>1. /\ QueueRead(cqe.fd, connections) /\ cqe # Idle /\ cqe' = Idle
      /\ rearming' = FALSE /\ cqe.op = "read" /\ Known(cqe.fd)
      /\ UNCHANGED <<rings, cq, kernel, muddled>>
  BY DEF Rearm, LoopInv, TypeOK, WorkerInv
<1>2. muddled' \subseteq Fds /\ muddled \subseteq muddled'
  BY <1>1 DEF LoopInv, TypeOK
<1>3. cqe.fd \in Fds /\ connections[cqe.fd] \in Connection
  BY <1>1, ConnectionsFacts
<1>4. EndsRead(cqe, UdpFd) => cqe.fd = UdpFd
  BY <1>1, ConnectionsFacts DEF EndsRead, CompletionOk
<1> QED
  BY <1>1, <1>2, <1>3, <1>4, ConnectionsFacts, QueueReadInv

LEMMA WrittenInv == ASSUME LoopInv, Written PROVE LoopInv'
<1>1. /\ cqe # Idle /\ cqe' = Idle /\ ~rearming /\ cqe.op = "send" /\ Known(cqe.fd)
      /\ Muddle(cqe.fd) /\ UNCHANGED <<rings, cq, rearming, kernel>>
  BY DEF Written, Handling
<1>2. cqe.fd \in Fds /\ connections[cqe.fd] \in Connection
  BY <1>1, ConnectionsFacts
<1>3. rearming' = FALSE /\ muddled \subseteq muddled' /\ muddled' \subseteq Fds
  BY <1>1, <1>2, MuddleType DEF LoopInv, TypeOK
<1>4. ~EndsRead(cqe, UdpFd)
  BY <1>1 DEF EndsRead
<1>5. CASE connections[cqe.fd].kind = "sync"
  <2>1. QueueRead(cqe.fd, connections)
    BY <1>5 DEF Written
  <2> QED
    BY <1>1, <1>2, <1>3, <1>4, <2>1, ConnectionsFacts, QueueReadInv
<1>6. CASE connections[cqe.fd].kind # "sync"
  <2>1. UNCHANGED <<connections, next_group, sq, refused>>
    BY <1>6 DEF Written
  <2>2. TypeOK'
    BY <1>1, <1>3, <2>1 DEF LoopInv, TypeOK, kernel
  <2>3. ConnectionsInv' /\ KernelInv' /\ QueuesInv' /\ WorkerInv'
    BY <1>1, <1>3, <2>1, ConnectionsFrame, KernelFrame DEF LoopInv, QueuesInv, WorkerInv
  <2>4. UdpArmed'
    BY <1>1, <1>3, <1>4, <2>1, Armed, ArmedNext DEF LoopInv, kernel
  <2> QED BY <2>2, <2>3, <2>4 DEF LoopInv
<1> QED BY <1>5, <1>6

(* What an error closes is never the UDP socket.                           *)
Closing(fd) == IF Known(fd) THEN Close(fd) ELSE UNCHANGED <<connections, fd_table>>

LEMMA ClosingStep ==
    ASSUME LoopInv, NEW fd \in Fds, fd # UdpFd, Closing(fd),
           UNCHANGED <<number, reads>>
    PROVE  /\ connections' \in Connections
           /\ fd_table' \in [Fds -> Sockets \cup {NoSock}]
           /\ ConnectionsInv' /\ KernelInv'
<1>1. CASE Known(fd)
  <2>1. /\ connections' = [connections EXCEPT ![fd] = NoConn]
        /\ fd_table' = [fd_table EXCEPT ![fd] = NoSock]
    BY <1>1 DEF Closing, Close
  <2>2. connections' \in Connections /\ fd_table' \in [Fds -> Sockets \cup {NoSock}]
    BY <2>1 DEF LoopInv, TypeOK, Connections
  <2>3. ConnectionsInv'
    BY <2>1, Constants, ConnectionsFacts DEF ConnectionsInv, Connections
  <2>4. KernelInv'
    BY <2>1, Constants DEF LoopInv, TypeOK, KernelInv
  <2> QED BY <2>2, <2>3, <2>4
<1>2. CASE ~Known(fd)
  <2>1. UNCHANGED <<connections, fd_table>>
    BY <1>2 DEF Closing
  <2> QED
    BY <2>1 DEF LoopInv, TypeOK, Connections, ConnectionsInv, KernelInv
<1> QED BY <1>1, <1>2

LEMMA ClientErrorInv == ASSUME LoopInv, ClientError PROVE LoopInv'
<1>1. /\ cqe # Idle /\ cqe' = Idle /\ ~rearming /\ cqe.op \in {"read", "send"}
      /\ cqe.fd # UdpFd /\ Muddle(cqe.fd) /\ Closing(cqe.fd)
      /\ UNCHANGED <<next_group, rings, sq, cq, rearming, number, accepting, reads,
                     sends, fresh, events, refused>>
  BY DEF ClientError, Closing
<1>2. cqe.fd \in Fds /\ ~EndsRead(cqe, UdpFd)
  BY <1>1, ConnectionsFacts DEF EndsRead, CompletionOk
<1>3. muddled \subseteq muddled' /\ muddled' \subseteq Fds
  BY <1>1, <1>2, MuddleType DEF LoopInv
<1>4. /\ connections' \in Connections /\ fd_table' \in [Fds -> Sockets \cup {NoSock}]
      /\ ConnectionsInv' /\ KernelInv'
  BY <1>1, <1>2, ClosingStep
<1>5. TypeOK'
  BY <1>1, <1>3, <1>4 DEF LoopInv, TypeOK, Connections
<1>6. QueuesInv' /\ WorkerInv'
  BY <1>1 DEF LoopInv, QueuesInv, WorkerInv
<1>7. UdpArmed'
  BY <1>1, <1>2, <1>3, Armed, ArmedNext DEF LoopInv
<1> QED BY <1>4, <1>5, <1>6, <1>7 DEF LoopInv

LEMMA AcceptErrorInv == ASSUME LoopInv, AcceptError PROVE LoopInv'
<1>1. /\ cqe # Idle /\ cqe' = Idle /\ ~rearming /\ cqe.op = "accept"
      /\ Muddle(cqe.fd) /\ Closing(cqe.fd) /\ QueueMultishotAccept(cqe.fd)
      /\ UNCHANGED <<next_group, rings, cq, rearming, number, accepting, reads,
                     sends, fresh, events>>
  BY DEF AcceptError, Closing, Handling
<1>2. cqe.fd \in Listeners /\ cqe.fd \in Fds /\ cqe.fd # UdpFd /\ ~EndsRead(cqe, UdpFd)
  BY <1>1, ConnectionsFacts, Constants DEF EndsRead, CompletionOk
<1>3. muddled \subseteq muddled' /\ muddled' \subseteq Fds
  BY <1>1, <1>2, MuddleType DEF LoopInv
<1>4. /\ connections' \in Connections /\ fd_table' \in [Fds -> Sockets \cup {NoSock}]
      /\ ConnectionsInv' /\ KernelInv'
  BY <1>1, <1>2, ClosingStep
<1>5. /\ sq' \in Seq(Request) /\ Len(sq') <= QueueDepth
      /\ \A i \in DOMAIN sq' : RequestOk(sq'[i])
      /\ Queued(sq) => Queued(sq')
      /\ refused \subseteq refused' /\ refused' \subseteq Fds
  <2>1. CASE HasSqe
    <3>1. AcceptOn(cqe.fd) \in Request /\ RequestOk(AcceptOn(cqe.fd))
      BY <1>2, Constants DEF AcceptOn, Request, RequestOk
    <3>2. sq' = Append(sq, AcceptOn(cqe.fd)) /\ refused' = refused
      BY <1>1, <2>1 DEF QueueMultishotAccept
    <3>3. refused \subseteq refused' /\ refused' \subseteq Fds
      BY <3>2 DEF LoopInv, TypeOK
    <3>4. /\ sq' \in Seq(Request) /\ Len(sq') <= QueueDepth
          /\ \A i \in DOMAIN sq' : RequestOk(sq'[i])
          /\ Queued(sq) => Queued(sq')
      BY <2>1, <3>1, <3>2, QueueOtherStep DEF LoopInv
    <3> QED BY <3>3, <3>4
  <2>2. CASE ~HasSqe
    <3>1. refused' = refused \cup {cqe.fd} /\ sq' = sq
      BY <1>1, <2>2 DEF QueueMultishotAccept
    <3> QED BY <1>2, <3>1 DEF LoopInv, TypeOK, QueuesInv, Queued
  <2> QED BY <2>1, <2>2
<1>6. TypeOK'
  BY <1>1, <1>3, <1>4, <1>5 DEF LoopInv, TypeOK, Connections
<1>7. QueuesInv' /\ WorkerInv'
  BY <1>1, <1>5 DEF LoopInv, QueuesInv, WorkerInv
<1>8. UdpArmed'
  BY <1>1, <1>2, <1>3, <1>5, Armed, ArmedNext DEF LoopInv
<1> QED BY <1>4, <1>6, <1>7, <1>8 DEF LoopInv

(* The reply takes no entry a read needs: it goes behind what is queued.    *)
LEMMA ReadDataInv == ASSUME LoopInv, ReadData PROVE LoopInv'
<1> DEFINE op == IF connections[cqe.fd].kind = "udp" THEN "sendmsg" ELSE "send"
           r == SendOn(op, cqe.fd, connections[cqe.fd].sock)
<1>1. /\ cqe # Idle /\ ~rearming /\ cqe.op = "read" /\ cqe.res = "ok" /\ Known(cqe.fd)
      /\ ReleaseBuffer(connections[cqe.fd].buf_group, cqe.buf)
      /\ QueueWrite(op, cqe.fd) /\ Muddle(cqe.fd)
      /\ IF cqe.more THEN cqe' = Idle /\ UNCHANGED rearming
         ELSE cqe' = [cqe EXCEPT !.holds = {}] /\ rearming' = TRUE
      /\ UNCHANGED <<connections, next_group, cq, kernel, refused>>
  BY DEF ReadData, Reply, Handling
<1>2. /\ cqe \in Completion /\ cqe.fd \in Fds /\ cqe.buf \in Bufs /\ cqe.more \in BOOLEAN
      /\ connections[cqe.fd] \in Connection /\ connections[cqe.fd].buf_group \in Groups
      /\ connections[cqe.fd].sock \in Sockets
      /\ CompletionOk(cqe) /\ (Long(cqe) \/ UdpFd \in muddled)
  BY <1>1, ConnectionsFacts DEF Completion, Connection, LoopInv, WorkerInv
<1>3. /\ muddled \subseteq muddled' /\ muddled' \subseteq Fds
      /\ rings' \in [Groups -> [Bufs -> Nat]]
  BY <1>1, <1>2, MuddleType, ReleaseType DEF LoopInv
<1>4. /\ sq' \in Seq(Request) /\ Len(sq') <= QueueDepth
      /\ \A i \in DOMAIN sq' : RequestOk(sq'[i])
      /\ Queued(sq) => Queued(sq')
  <2>1. r \in Request /\ RequestOk(r)
    BY <1>2, Constants DEF SendOn, Request, RequestOk
  <2>2. sq' = IF HasSqe THEN Append(sq, r) ELSE sq
    BY <1>1 DEF QueueWrite
  <2>3. CASE HasSqe
    BY <2>1, <2>2, <2>3, QueueOtherStep DEF LoopInv
  <2>4. CASE ~HasSqe
    BY <2>2, <2>4 DEF LoopInv, TypeOK, QueuesInv, Queued
  <2> QED BY <2>3, <2>4
<1> HIDE DEF op, r
<1>5. ConnectionsInv' /\ KernelInv' /\ QueuesInv'
  BY <1>1, <1>4, ConnectionsFrame, KernelFrame DEF LoopInv, QueuesInv
<1>6. CASE cqe.more
  <2>1. cqe' = Idle /\ rearming' = rearming
    BY <1>1, <1>6
  <2>2. TypeOK'
    BY <1>1, <1>3, <1>4, <2>1 DEF LoopInv, TypeOK, kernel
  <2>3. WorkerInv'
    BY <1>1, <2>1 DEF WorkerInv
  <2>4. ~EndsRead(cqe, UdpFd)
    BY <1>6 DEF EndsRead
  <2>5. UdpArmed'
    BY <1>1, <1>3, <1>4, <2>4, Armed, ArmedNext DEF LoopInv, kernel
  <2> QED BY <1>5, <2>2, <2>3, <2>5 DEF LoopInv
<1>7. CASE ~cqe.more
  <2>1. cqe' = [cqe EXCEPT !.holds = {}] /\ rearming' = TRUE
    BY <1>1, <1>7
  <2>2. /\ cqe' \in Completion /\ cqe'.op = cqe.op /\ cqe'.fd = cqe.fd
        /\ cqe'.sock = cqe.sock /\ cqe'.more = cqe.more /\ cqe'.res = cqe.res
    BY <1>2, <2>1 DEF Completion
  <2>3. cqe' # Idle
    BY <2>2, AbsenceAssumption
  <2>4. TypeOK'
    BY <1>1, <1>3, <1>4, <2>1, <2>2, <2>3 DEF LoopInv, TypeOK, kernel
  <2>5. WorkerInv'
    <3>1. CompletionOk(cqe') /\ (Long(cqe') \/ UdpFd \in muddled')
      BY <1>1, <1>2, <1>3, <2>2 DEF CompletionOk, Long
    <3>2. cqe'.op = "read" /\ Known(cqe.fd) /\ connections' = connections
      BY <1>1, <2>2
    <3> QED BY <2>2, <3>1, <3>2 DEF WorkerInv, Known
  <2>6. UdpArmed'
    <3>1. EndsRead(cqe, UdpFd) => EndsRead(cqe', UdpFd)
      BY <2>2 DEF EndsRead
    <3> QED
      BY <1>1, <1>3, <1>4, <2>3, <3>1, Armed, ArmedNext DEF LoopInv, kernel
  <2> QED BY <1>5, <2>4, <2>5, <2>6 DEF LoopInv
<1> QED BY <1>2, <1>6, <1>7

-----------------------------------------------------------------------------
(* The kernel's steps.  A completion of the UDP socket takes the place of   *)
(* the read or the submission it ends.                                     *)

ReadRecord == [group : Groups, multi : BOOLEAN]

KernelTypes ==
    /\ rings \in [Groups -> [Bufs -> Nat]]
    /\ fd_table \in [Fds -> Sockets \cup {NoSock}]
    /\ number \in [Sockets -> Fds]
    /\ accepting \subseteq Listeners
    /\ reads \in [Sockets -> Seq(ReadRecord)]
    /\ sends \in [Sockets -> Nat]
    /\ fresh \subseteq Socks /\ events \in 0 .. MaxEvents

LEMMA KernelTypesFacts == ASSUME TypeOK PROVE KernelTypes
  BY DEF TypeOK, KernelTypes, ReadRecord

LEMMA PostInv ==
    ASSUME LoopInv, NEW c \in Completion, CompletionOk(c), Long(c),
           NEW met \in SUBSET Fds, Post(c, met), UNCHANGED worker,
           sq' \in Seq(Request), Len(sq') <= QueueDepth,
           \A i \in DOMAIN sq' : RequestOk(sq'[i]),
           Queued(sq) => Queued(sq') \/ EndsRead(c, UdpFd),
           reads[UdpFd] # <<>> => reads'[UdpFd] # <<>> \/ EndsRead(c, UdpFd),
           KernelTypes', KernelInv'
    PROVE  LoopInv'
<1>1. /\ cq' \in Seq(Completion) /\ Len(cq') <= CqSize
      /\ \A i \in DOMAIN cq' : CompletionOk(cq'[i]) /\ Long(cq'[i])
      /\ Ending(cq) \/ EndsRead(c, UdpFd) => Ending(cq')
      /\ cqe' \in Completion \cup {Idle} /\ (cqe' = Idle <=> cqe = Idle)
      /\ cqe # Idle => cqe'.op = cqe.op /\ cqe'.fd = cqe.fd
      /\ cqe # Idle => CompletionOk(cqe') /\ (Long(cqe') \/ UdpFd \in muddled')
      /\ cqe # Idle /\ EndsRead(cqe, UdpFd) => EndsRead(cqe', UdpFd)
      /\ muddled \subseteq muddled' /\ muddled' \subseteq Fds
  BY PostStep DEF LoopInv
<1>2. UNCHANGED <<connections, next_group, rearming, refused>>
  BY DEF worker
<1>3. TypeOK'
  BY <1>1, <1>2 DEF LoopInv, TypeOK, KernelTypes, ReadRecord
<1>4. ConnectionsInv' /\ QueuesInv'
  BY <1>1, <1>2, ConnectionsFrame DEF LoopInv, QueuesInv
<1>5. WorkerInv'
  BY <1>1, <1>2 DEF LoopInv, TypeOK, WorkerInv, Known
<1>6. UdpArmed'
  BY <1>1, <1>2, Armed, ArmedNext DEF LoopInv
<1> QED BY <1>3, <1>4, <1>5, <1>6 DEF LoopInv

LEMMA KernelTakeInv == ASSUME LoopInv, KernelTake PROVE LoopInv'
<1> DEFINE r == Head(sq)
           s == fd_table[r.fd]
           met == IF s # NoSock /\ s # r.sock THEN {r.fd} ELSE {}
<1>1. /\ r \in Request /\ RequestOk(r)
      /\ sq' = Tail(sq) /\ sq' \in Seq(Request) /\ Len(sq') <= QueueDepth
      /\ \A i \in DOMAIN sq' : RequestOk(sq'[i])
      /\ Queued(sq) => Queued(sq') \/ (r.op = "read" /\ r.sock = UdpFd)
  <2>1. /\ r \in Request /\ Tail(sq) \in Seq(Request) /\ Len(Tail(sq)) = Len(sq) - 1
        /\ 1 \in DOMAIN sq /\ r = sq[1]
        /\ \A i \in DOMAIN Tail(sq) : i + 1 \in DOMAIN sq /\ Tail(sq)[i] = sq[i + 1]
        /\ \A i \in DOMAIN sq :
               i = 1 \/ (i - 1 \in DOMAIN Tail(sq) /\ Tail(sq)[i - 1] = sq[i])
    BY Tailed DEF LoopInv, TypeOK, KernelTake
  <2>2. sq' = Tail(sq)
    BY DEF KernelTake
  <2>3. Len(sq) \in Nat /\ Len(sq) <= QueueDepth
    BY DEF LoopInv, TypeOK
  <2>4. Len(sq') <= QueueDepth
    BY <2>1, <2>2, <2>3, Constants
  <2>5. RequestOk(r) /\ \A i \in DOMAIN sq' : RequestOk(sq'[i])
    BY <2>1, <2>2 DEF LoopInv, QueuesInv
  <2>6. Queued(sq) => Queued(sq') \/ (r.op = "read" /\ r.sock = UdpFd)
    BY <2>1, <2>2 DEF Queued
  <2> QED BY <2>1, <2>2, <2>4, <2>5, <2>6
<1>2. /\ UNCHANGED <<worker, rings, fd_table, number, fresh, events>>
      /\ IF s = NoSock \/ (r.op = "accept" /\ s # r.fd)
         THEN /\ Post(Ended(r.op, r.fd, r.sock, "error"), met)
              /\ UNCHANGED <<accepting, reads, sends>>
         ELSE /\ accepting' = IF r.op = "accept" THEN accepting \cup {s} ELSE accepting
              /\ reads' = IF r.op # "read" THEN reads
                          ELSE [reads EXCEPT ![s] =
                              Append(@, [group |-> r.group, multi |-> r.multi])]
              /\ sends' = IF r.op \notin {"send", "sendmsg"} THEN sends
                          ELSE [sends EXCEPT ![s] = @ + 1]
              /\ muddled' = muddled \cup met
              /\ UNCHANGED <<cq, cqe>>
  BY DEF KernelTake
<1>3. /\ r.op \in {"accept", "read", "send", "sendmsg"} /\ r.fd \in Fds
      /\ r.sock \in Sockets /\ r.group \in Groups /\ r.multi \in BOOLEAN
  BY <1>1 DEF Request
<1>4. met \in SUBSET Fds
  BY <1>3
<1>5. s \in Sockets \cup {NoSock} /\ (s = UdpFd <=> r.fd = UdpFd)
  BY <1>3 DEF LoopInv, TypeOK, KernelInv
<1> HIDE DEF r, s, met
<1>6. CASE s = NoSock \/ (r.op = "accept" /\ s # r.fd)
  <2> DEFINE c == Ended(r.op, r.fd, r.sock, "error")
  <2>1. /\ c \in Completion /\ c.op = r.op /\ c.fd = r.fd /\ c.sock = r.sock
        /\ c.res = "error" /\ c.more = FALSE
    BY <1>3, Constants DEF Ended, Completion
  <2>2. Post(c, met) /\ UNCHANGED <<accepting, reads, sends>>
    BY <1>2, <1>6
  <2> HIDE DEF c
  <2>3. CompletionOk(c) /\ Long(c)
    BY <1>1, <2>1 DEF RequestOk, CompletionOk, Long
  <2>4. Queued(sq) => Queued(sq') \/ EndsRead(c, UdpFd)
    BY <1>1, <2>1 DEF EndsRead
  <2>5. KernelTypes' /\ KernelInv'
    BY <1>2, <2>2, KernelTypesFacts DEF LoopInv, KernelTypes, KernelInv
  <2> QED
    BY <1>1, <1>2, <1>4, <2>1, <2>2, <2>3, <2>4, <2>5, PostInv
<1>7. CASE ~(s = NoSock \/ (r.op = "accept" /\ s # r.fd))
  <2>1. s \in Sockets /\ (r.op = "accept" => s \in Listeners)
    BY <1>1, <1>5, <1>7 DEF RequestOk
  <2>2. /\ accepting' = IF r.op = "accept" THEN accepting \cup {s} ELSE accepting
        /\ reads' = IF r.op # "read" THEN reads
                    ELSE [reads EXCEPT ![s] =
                        Append(reads[s], [group |-> r.group, multi |-> r.multi])]
        /\ sends' = IF r.op \notin {"send", "sendmsg"} THEN sends
                    ELSE [sends EXCEPT ![s] = sends[s] + 1]
        /\ muddled' = muddled \cup met
        /\ UNCHANGED <<cq, cqe>>
    BY <1>2, <1>7
  <2>3. accepting' \subseteq Listeners /\ sends' \in [Sockets -> Nat]
    BY <2>1, <2>2 DEF LoopInv, TypeOK
  <2>4. /\ reads' \in [Sockets -> Seq(ReadRecord)]
        /\ \A i \in DOMAIN reads'[UdpFd] : reads'[UdpFd][i].multi
        /\ reads[UdpFd] # <<>> => reads'[UdpFd] # <<>>
        /\ r.op = "read" /\ r.sock = UdpFd => reads'[UdpFd] # <<>>
    <3>1. reads \in [Sockets -> Seq(ReadRecord)]
      BY DEF LoopInv, TypeOK, ReadRecord
    <3>2. \A i \in DOMAIN reads[UdpFd] : reads[UdpFd][i].multi
      BY DEF LoopInv, KernelInv
    <3>3. CASE r.op # "read"
      BY <2>2, <3>1, <3>2, <3>3
    <3>4. CASE r.op = "read"
      <4> DEFINE e == [group |-> r.group, multi |-> r.multi]
                 q == reads[s]
      <4>1. e \in ReadRecord /\ e.multi = r.multi
        BY <1>3 DEF ReadRecord
      <4> HIDE DEF e
      <4>2. q \in Seq(ReadRecord) /\ reads' = [reads EXCEPT ![s] = Append(q, e)]
        BY <2>1, <2>2, <3>1, <3>4 DEF e
      <4>3. /\ Append(q, e) \in Seq(ReadRecord)
            /\ \A i \in DOMAIN q : i \in DOMAIN Append(q, e) /\ Append(q, e)[i] = q[i]
            /\ \A i \in DOMAIN Append(q, e) : i \in DOMAIN q \/ Append(q, e)[i] = e
            /\ Append(q, e) # <<>>
        BY <4>1, <4>2, Appended
      <4>4. reads' \in [Sockets -> Seq(ReadRecord)]
        BY <2>1, <3>1, <4>2, <4>3
      <4>5. reads'[UdpFd] = IF s = UdpFd THEN Append(q, e) ELSE reads[UdpFd]
        BY <2>1, <3>1, <4>2, Constants
      <4> HIDE DEF q
      <4>6. s = UdpFd => r.multi
        BY <1>1, <1>5, <3>4 DEF RequestOk
      <4>7. r.sock = UdpFd => s = UdpFd
        BY <1>1, <1>5, <3>4 DEF RequestOk
      <4> QED
        BY <3>2, <4>1, <4>3, <4>4, <4>5, <4>6, <4>7 DEF q
    <3> QED BY <3>3, <3>4
  <2>5. TypeOK'
    <3>1. muddled' \subseteq Fds
      BY <1>4, <2>2 DEF LoopInv, TypeOK
    <3> QED
      BY <1>1, <1>2, <2>2, <2>3, <2>4, <3>1 DEF LoopInv, TypeOK, worker, ReadRecord
  <2>6. ConnectionsInv'
    BY <1>2, ConnectionsFrame DEF LoopInv, worker
  <2>7. KernelInv'
    BY <1>2, <2>4 DEF LoopInv, KernelInv
  <2>8. QueuesInv' /\ WorkerInv'
    BY <1>1, <1>2, <2>2 DEF LoopInv, QueuesInv, WorkerInv, worker, Known
  <2>9. UdpArmed'
    BY <1>1, <1>2, <2>2, <2>4, Armed, ArmedNext DEF LoopInv, worker
  <2> QED BY <2>5, <2>6, <2>7, <2>8, <2>9 DEF LoopInv
<1> QED BY <1>6, <1>7

(* A read that ends leaves a completion in its place.                      *)
LEMMA ReadEnds ==
    ASSUME LoopInv, NEW s \in Sockets, NEW i \in DOMAIN reads[s],
           reads' = [reads EXCEPT ![s] = Without(reads[s], i)]
    PROVE  /\ reads' \in [Sockets -> Seq(ReadRecord)]
           /\ \A j \in DOMAIN reads'[UdpFd] : reads'[UdpFd][j].multi
           /\ s # UdpFd => reads'[UdpFd] = reads[UdpFd]
<1>1. reads \in [Sockets -> Seq(ReadRecord)]
  BY DEF LoopInv, TypeOK, ReadRecord
<1>2. /\ Without(reads[s], i) \in Seq(ReadRecord)
      /\ \A j \in DOMAIN Without(reads[s], i) :
             \E k \in DOMAIN reads[s] : Without(reads[s], i)[j] = reads[s][k]
  BY <1>1, WithoutOne
<1>3. \A j \in DOMAIN reads[UdpFd] : reads[UdpFd][j].multi
  BY DEF LoopInv, KernelInv
<1> DEFINE w == Without(reads[s], i)
<1> HIDE DEF w
<1>4. reads' = [reads EXCEPT ![s] = w]
  BY DEF w
<1>5. /\ reads' \in [Sockets -> Seq(ReadRecord)]
      /\ reads'[UdpFd] = IF s = UdpFd THEN w ELSE reads[UdpFd]
  BY <1>1, <1>2, <1>4, Constants DEF w
<1>6. s = UdpFd => \A j \in DOMAIN w : w[j].multi
  BY <1>2, <1>3 DEF w
<1> QED BY <1>3, <1>5, <1>6

LEMMA ReadFacts ==
    ASSUME LoopInv, NEW s \in Sockets, NEW i \in DOMAIN reads[s]
    PROVE  /\ reads[s][i] \in ReadRecord /\ reads[s][i].group \in Groups
           /\ reads[s][i].multi \in BOOLEAN
           /\ number[s] \in Fds /\ (s = UdpFd => number[s] = UdpFd /\ reads[s][i].multi)
<1>1. reads[s] \in Seq(ReadRecord)
  BY DEF LoopInv, TypeOK, ReadRecord
<1>2. reads[s][i] \in ReadRecord
  BY <1>1
<1>3. reads[s][i].group \in Groups /\ reads[s][i].multi \in BOOLEAN
  BY <1>2 DEF ReadRecord
<1> QED BY <1>2, <1>3 DEF LoopInv, TypeOK, KernelInv

(* Only the submission queue is the worker's, and the kernel took nothing.  *)
LEMMA QueueFrame ==
    ASSUME LoopInv, UNCHANGED sq
    PROVE  /\ sq' \in Seq(Request) /\ Len(sq') <= QueueDepth
           /\ \A i \in DOMAIN sq' : RequestOk(sq'[i])
           /\ Queued(sq) => Queued(sq')
  BY DEF LoopInv, TypeOK, QueuesInv

LEMMA EventType == ASSUME TypeOK, Event PROVE events' \in 0 .. MaxEvents
<1>1. events \in 0 .. MaxEvents /\ events < MaxEvents /\ events' = events + 1
  BY DEF TypeOK, Event
<1> QED BY <1>1, Constants

LEMMA MessageInv ==
    ASSUME LoopInv, NEW s \in Sockets, NEW i \in DOMAIN reads[s], NEW b \in Bufs,
           NEW res \in {"ok", "short"}, NEW more \in BOOLEAN, Message(s, i, b, res, more)
    PROVE  LoopInv'
<1> DEFINE g == reads[s][i].group
           c == [Ended("read", number[s], s, res) EXCEPT
                    !.more = more, !.buf = b, !.holds = {<<g, b>>}]
<1>1. /\ Event /\ rings[g][b] > 0 /\ rings' = [rings EXCEPT ![g][b] = @ - 1]
      /\ IF reads[s][i].multi THEN res = "ok" ELSE ~more
      /\ reads' = IF more THEN reads ELSE [reads EXCEPT ![s] = Without(reads[s], i)]
      /\ Post(c, {})
      /\ UNCHANGED <<worker, sq, fd_table, number, accepting, sends, fresh>>
  BY DEF Message
<1>2. /\ g \in Groups /\ number[s] \in Fds
      /\ s = UdpFd => number[s] = UdpFd /\ reads[s][i].multi
  BY ReadFacts
<1> HIDE DEF g
<1>3. /\ c \in Completion /\ c.op = "read" /\ c.fd = number[s] /\ c.sock = s
      /\ c.res = res /\ c.more = more
  <2>1. {<<g, b>>} \in SUBSET (Groups \X Bufs)
    BY <1>2
  <2> DEFINE h == {<<g, b>>}
  <2> HIDE DEF h
  <2> DEFINE e == Ended("read", number[s], s, res)
  <2>2. e \in Completion /\ e.op = "read" /\ e.fd = number[s] /\ e.sock = s /\ e.res = res
    BY <1>2, Constants DEF Ended, Completion
  <2> HIDE DEF e
  <2>3. h \in SUBSET (Groups \X Bufs)
    BY <2>1 DEF h
  <2>4. c = [e EXCEPT !.more = more, !.buf = b, !.holds = h]
    BY Zenon DEF e, h
  <2> HIDE DEF c
  <2> QED BY <2>2, <2>3, <2>4 DEF Completion
<1> HIDE DEF c
<1>4. CompletionOk(c) /\ Long(c)
  BY <1>1, <1>2, <1>3 DEF CompletionOk, Long
<1>5. rings' \in [Groups -> [Bufs -> Nat]]
  <2>1. rings[g] \in [Bufs -> Nat] /\ rings[g][b] - 1 \in Nat
    BY <1>1, <1>2 DEF LoopInv, TypeOK
  <2>2. [rings[g] EXCEPT ![b] = rings[g][b] - 1] \in [Bufs -> Nat]
    BY <2>1
  <2> QED BY <1>1, <2>2 DEF LoopInv, TypeOK
<1>6. /\ reads' \in [Sockets -> Seq(ReadRecord)]
      /\ \A j \in DOMAIN reads'[UdpFd] : reads'[UdpFd][j].multi
      /\ reads[UdpFd] # <<>> => reads'[UdpFd] # <<>> \/ EndsRead(c, UdpFd)
  <2>1. CASE more
    BY <1>1, <2>1 DEF LoopInv, TypeOK, KernelInv, ReadRecord
  <2>2. CASE ~more
    BY <1>1, <1>3, <2>2, ReadEnds DEF EndsRead
  <2> QED BY <2>1, <2>2
<1>7. KernelTypes' /\ KernelInv'
  <2>1. events' \in 0 .. MaxEvents
    BY <1>1, EventType DEF LoopInv
  <2> QED
    BY <1>1, <1>5, <1>6, <2>1, KernelTypesFacts DEF LoopInv, KernelTypes, KernelInv
<1> QED
  BY <1>1, <1>3, <1>4, <1>6, <1>7, QueueFrame, PostInv

(* A read that ends without a message: res is "error", or "short" for a     *)
(* read that is no multishot, and so none of the UDP socket.                *)
LEMMA ReadGone ==
    ASSUME LoopInv, NEW s \in Sockets, NEW i \in DOMAIN reads[s],
           NEW res \in {"short", "error"}, s = UdpFd => res # "short", Event,
           reads' = [reads EXCEPT ![s] = Without(reads[s], i)],
           Post(Ended("read", number[s], s, res), {}),
           UNCHANGED <<worker, rings, sq, fd_table, number, accepting, sends, fresh>>
    PROVE  LoopInv'
<1> DEFINE c == Ended("read", number[s], s, res)
<1>1. number[s] \in Fds /\ (s = UdpFd => number[s] = UdpFd)
  BY ReadFacts
<1>2. /\ c \in Completion /\ c.op = "read" /\ c.fd = number[s] /\ c.sock = s
      /\ c.res = res /\ c.more = FALSE
  BY <1>1, Constants DEF Ended, Completion
<1>3. Post(c, {})
  OBVIOUS
<1> HIDE DEF c
<1>4. CompletionOk(c) /\ Long(c)
  BY <1>1, <1>2 DEF CompletionOk, Long
<1>5. /\ reads' \in [Sockets -> Seq(ReadRecord)]
      /\ \A j \in DOMAIN reads'[UdpFd] : reads'[UdpFd][j].multi
      /\ reads[UdpFd] # <<>> => reads'[UdpFd] # <<>> \/ EndsRead(c, UdpFd)
  BY <1>2, ReadEnds DEF EndsRead
<1>6. KernelTypes' /\ KernelInv'
  <2>1. events' \in 0 .. MaxEvents
    BY EventType DEF LoopInv
  <2> QED
    BY <1>5, <2>1, KernelTypesFacts DEF LoopInv, KernelTypes, KernelInv
<1> QED
  BY <1>2, <1>3, <1>4, <1>5, <1>6, QueueFrame, PostInv

LEMMA EndOfStreamInv ==
    ASSUME LoopInv, NEW s \in Sockets, NEW i \in DOMAIN reads[s], EndOfStream(s, i)
    PROVE  LoopInv'
<1>1. s # UdpFd
  BY ReadFacts DEF EndOfStream
<1> QED
  BY <1>1, ReadGone DEF EndOfStream

LEMMA ReadFailsInv ==
    ASSUME LoopInv, NEW s \in Sockets, NEW i \in DOMAIN reads[s], ReadFails(s, i)
    PROVE  LoopInv'
  BY ReadGone DEF ReadFails

LEMMA SendEndsInv ==
    ASSUME LoopInv, NEW s \in Sockets, NEW res \in {"ok", "error"}, SendEnds(s, res)
    PROVE  LoopInv'
<1> DEFINE op == IF s = UdpFd THEN "sendmsg" ELSE "send"
           c == Ended(op, number[s], s, res)
<1>1. /\ sends[s] > 0 /\ sends' = [sends EXCEPT ![s] = sends[s] - 1]
      /\ IF res = "ok" THEN UNCHANGED events ELSE Event
      /\ Post(c, {})
      /\ UNCHANGED <<worker, rings, sq, fd_table, number, accepting, reads, fresh>>
  BY DEF SendEnds
<1>2. number[s] \in Fds /\ op \in {"send", "sendmsg"}
  BY DEF LoopInv, TypeOK
<1>3. c \in Completion /\ c.op \in {"send", "sendmsg"}
  BY <1>2, Constants DEF Ended, Completion
<1> HIDE DEF c, op
<1>4. CompletionOk(c) /\ Long(c)
  BY <1>3 DEF CompletionOk, Long
<1>5. sends' \in [Sockets -> Nat]
  <2>1. sends[s] - 1 \in Nat
    BY <1>1 DEF LoopInv, TypeOK
  <2> QED BY <1>1, <2>1 DEF LoopInv, TypeOK
<1>6. events' \in 0 .. MaxEvents
  BY <1>1, EventType DEF LoopInv, TypeOK
<1>7. KernelTypes' /\ KernelInv'
  BY <1>1, <1>5, <1>6, KernelTypesFacts DEF LoopInv, KernelTypes, KernelInv
<1> QED
  BY <1>1, <1>3, <1>4, <1>7, QueueFrame, PostInv

(* The fd accept hands out is a closed one, and so not the UDP socket's.    *)
LEMMA ConnectInv ==
    ASSUME LoopInv, NEW l \in Listeners, NEW s \in Socks, NEW fd \in Fds,
           NEW more \in BOOLEAN, Connect(l, s, fd, more)
    PROVE  LoopInv'
<1> DEFINE c == [Ended("accept", l, s, "ok") EXCEPT !.more = more, !.client = fd]
<1>1. /\ l \in accepting /\ s \in fresh /\ fd_table[fd] = NoSock
      /\ fresh' = fresh \ {s}
      /\ fd_table' = [fd_table EXCEPT ![fd] = s]
      /\ number' = [number EXCEPT ![s] = fd]
      /\ accepting' = IF more THEN accepting ELSE accepting \ {l}
      /\ Post(c, {})
      /\ UNCHANGED <<worker, rings, sq, reads, sends, events>>
  BY DEF Connect
<1>2. l \in Fds /\ s \in Sockets /\ s # UdpFd
  BY Constants
<1>3. fd # UdpFd
  BY <1>1, Constants DEF LoopInv, KernelInv
<1>4. /\ c \in Completion /\ c.op = "accept" /\ c.fd = l /\ c.sock = s
      /\ c.res = "ok" /\ c.client = fd
  <2> DEFINE e == Ended("accept", l, s, "ok")
  <2>1. e \in Completion /\ e.op = "accept" /\ e.fd = l /\ e.sock = s /\ e.res = "ok"
    BY <1>2, Constants DEF Ended, Completion
  <2> HIDE DEF e
  <2>2. c = [e EXCEPT !.more = more, !.client = fd]
    BY Zenon DEF e
  <2> HIDE DEF c
  <2> QED BY <2>1, <2>2 DEF Completion
<1> HIDE DEF c
<1>5. CompletionOk(c) /\ Long(c)
  BY <1>2, <1>3, <1>4 DEF CompletionOk, Long
<1>6. KernelTypes'
  BY <1>1, <1>2, KernelTypesFacts DEF LoopInv, KernelTypes
<1>7. KernelInv'
  BY <1>1, <1>2, <1>3, Constants DEF LoopInv, TypeOK, KernelInv
<1> QED
  BY <1>1, <1>4, <1>5, <1>6, <1>7, QueueFrame, PostInv

LEMMA AcceptFailsInv ==
    ASSUME LoopInv, NEW l \in Listeners, AcceptFails(l)
    PROVE  LoopInv'
<1> DEFINE c == Ended("accept", l, l, "error")
<1>1. /\ accepting' = accepting \ {l} /\ Event /\ Post(c, {})
      /\ UNCHANGED <<worker, rings, sq, fd_table, number, reads, sends, fresh>>
  BY DEF AcceptFails
<1>2. c \in Completion /\ c.op = "accept" /\ c.fd = l /\ c.res = "error"
  BY Constants DEF Ended, Completion
<1> HIDE DEF c
<1>3. CompletionOk(c) /\ Long(c)
  BY <1>2 DEF CompletionOk, Long
<1>4. KernelTypes' /\ KernelInv'
  <2>1. events' \in 0 .. MaxEvents
    BY <1>1, EventType DEF LoopInv
  <2> QED
    BY <1>1, <2>1, KernelTypesFacts DEF LoopInv, KernelTypes, KernelInv
<1> QED
  BY <1>1, <1>2, <1>3, <1>4, QueueFrame, PostInv

-----------------------------------------------------------------------------
(* The theorems *)

LEMMA Stutter == ASSUME LoopInv, UNCHANGED vars PROVE LoopInv'
  BY DEF LoopInv, TypeOK, ConnectionsInv, KernelInv, QueuesInv, WorkerInv,
         UdpArmed, Known, EndsRead, vars

LEMMA StepInv == ASSUME LoopInv, [Next]_vars PROVE LoopInv'
<1>1. CASE Wait BY <1>1, WaitInv
<1>2. CASE DeleteContext BY <1>2, DeleteContextInv
<1>3. CASE UdpError BY <1>3, UdpErrorInv
<1>4. CASE ClientError BY <1>4, ClientErrorInv
<1>5. CASE AcceptError BY <1>5, AcceptErrorInv
<1>6. CASE Accepted BY <1>6, AcceptedInv
<1>7. CASE Dropped BY <1>7, DroppedInv
<1>8. CASE ReadShort BY <1>8, ReadShortInv
<1>9. CASE ReadData BY <1>9, ReadDataInv
<1>10. CASE Rearm BY <1>10, RearmInv
<1>11. CASE Written BY <1>11, WrittenInv
<1>12. CASE KernelTake BY <1>12, KernelTakeInv
<1>13. CASE \E s \in Sockets : \E i \in DOMAIN reads[s] :
               \/ \E b \in Bufs, res \in {"ok", "short"}, more \in BOOLEAN :
                      Message(s, i, b, res, more)
               \/ EndOfStream(s, i) \/ ReadFails(s, i)
  BY <1>13, MessageInv, EndOfStreamInv, ReadFailsInv
<1>14. CASE \E s \in Sockets, res \in {"ok", "error"} : SendEnds(s, res)
  BY <1>14, SendEndsInv
<1>15. CASE \E l \in Listeners, s \in Socks, fd \in Fds, more \in BOOLEAN :
               Connect(l, s, fd, more)
  BY <1>15, ConnectInv
<1>16. CASE \E l \in Listeners : AcceptFails(l)
  BY <1>16, AcceptFailsInv
<1>17. CASE UNCHANGED vars BY <1>17, Stutter
<1> QED
  BY <1>1, <1>2, <1>3, <1>4, <1>5, <1>6, <1>7, <1>8, <1>9, <1>10, <1>11, <1>12,
     <1>13, <1>14, <1>15, <1>16, <1>17 DEF Next, Worker, Kernel

(* Connections, completions and the kernel's tables keep their types, and   *)
(* the queues their sizes, whatever completions come in whatever order      *)
(* (Core::worker, Pipeline).                                               *)
THEOREM EventLoopTypes == Spec => []TypeOK
<1>1. Init => LoopInv
  BY InitInv
<1>2. LoopInv /\ [Next]_vars => LoopInv'
  BY StepInv
<1>3. LoopInv => TypeOK
  BY DEF LoopInv
<1> QED BY <1>1, <1>2, <1>3, PTL DEF Spec

(* The UDP socket always has a read queued, held by the kernel or about to  *)
(* be queued again, unless the submission queue refused it or one of its    *)
(* completions was overwritten while it was read (Core.cpp:158-170,         *)
(* 651-660).                                                               *)
THEOREM UdpStaysArmed == Spec => []UdpArmed
<1>1. Init => LoopInv
  BY InitInv
<1>2. LoopInv /\ [Next]_vars => LoopInv'
  BY StepInv
<1>3. LoopInv => UdpArmed
  BY DEF LoopInv
<1> QED BY <1>1, <1>2, <1>3, PTL DEF Spec

-----------------------------------------------------------------------------
(***************************************************************************)
(* The listeners.  As long as a listener is open, its fd is no client's,   *)
(* nothing but accepts is asked of it, and its accept is in one place:     *)
(* queued, armed, or failed and about to be queued again.                  *)
(***************************************************************************)

Hits(q, S) == {i \in DOMAIN q : q[i] \in S}

One(S) == \A i, j \in S : i = j

Asks(l) == {r \in Request : r.op = "accept" /\ r.fd = l}

Fails(l) == {c \in Completion : FailedAccept(c, l)}

\* the completion has nothing to do with l but for its accept
Elsewhere(c, l) ==
    /\ c.fd = l => c.op = "accept"
    /\ c.op = "accept" /\ c.res = "ok" => c.client # l

Apart(l) ==
    /\ \A i \in DOMAIN sq : sq[i].fd = l => sq[i].op = "accept"
    /\ \A i \in DOMAIN cq : Elsewhere(cq[i], l)
    /\ cqe # Idle => Elsewhere(cqe, l)
    /\ reads[l] = <<>> /\ sends[l] = 0
    /\ \A s \in Sockets \ {l} : number[s] # l
    /\ l = SyncFd => connections[l] = NoConn

\* the accept of l is in one place, and in none once it was refused
Once(l) ==
    /\ One(Hits(sq, Asks(l))) /\ One(Hits(cq, Fails(l)))
    /\ l \in accepting => /\ Hits(sq, Asks(l)) = {} /\ Hits(cq, Fails(l)) = {}
                          /\ cqe \notin Fails(l)
    /\ Hits(sq, Asks(l)) # {} => Hits(cq, Fails(l)) = {} /\ cqe \notin Fails(l)
    /\ Hits(cq, Fails(l)) # {} => cqe \notin Fails(l)
    /\ l \in refused => /\ l \notin accepting /\ Hits(sq, Asks(l)) = {}
                        /\ Hits(cq, Fails(l)) = {} /\ cqe \notin Fails(l)

ListenerInv(l) ==
    /\ \A fd \in Fds : fd_table[fd] = l => fd = l
    /\ fd_table[l] = l => Apart(l) /\ Once(l)

-----------------------------------------------------------------------------
(* Where an element of S stands in a queue *)

LEMMA HitsAppended ==
    ASSUME NEW T, NEW q \in Seq(T), NEW e \in T, NEW S
    PROVE  /\ e \notin S => Hits(Append(q, e), S) = Hits(q, S)
           /\ e \in S => /\ Hits(Append(q, e), S) # {}
                         /\ Hits(q, S) = {} => One(Hits(Append(q, e), S))
<1>1. /\ DOMAIN Append(q, e) = 1 .. Len(q) + 1 /\ DOMAIN q = 1 .. Len(q) /\ Len(q) \in Nat
      /\ Append(q, e)[Len(q) + 1] = e
      /\ \A i \in DOMAIN q : i \in DOMAIN Append(q, e) /\ Append(q, e)[i] = q[i]
      /\ \A i \in DOMAIN Append(q, e) : i \in DOMAIN q \/ i = Len(q) + 1
  BY Appended, LenProperties
<1> DEFINE a == Append(q, e)
<1> HIDE DEF a
<1>2. CASE e \notin S
  BY <1>1, <1>2 DEF Hits, a
<1>3. CASE e \in S
  <2>1. Len(q) + 1 \in Hits(a, S)
    BY <1>1, <1>3 DEF Hits, a
  <2>2. \A i \in Hits(a, S) : i \in Hits(q, S) \/ i = Len(q) + 1
    BY <1>1 DEF Hits, a
  <2> QED
    BY <1>3, <2>1, <2>2 DEF One, a
<1> QED
  BY <1>2, <1>3

LEMMA HitsTailed ==
    ASSUME NEW T, NEW q \in Seq(T), q # <<>>, NEW S
    PROVE  /\ Head(q) \notin S => (Hits(Tail(q), S) = {} <=> Hits(q, S) = {})
           /\ One(Hits(q, S)) => One(Hits(Tail(q), S))
           /\ Head(q) \in S => /\ Hits(q, S) # {}
                               /\ One(Hits(q, S)) => Hits(Tail(q), S) = {}
<1> DEFINE t == Tail(q)
<1>1. /\ 1 \in DOMAIN q /\ Head(q) = q[1]
      /\ \A i \in DOMAIN t : i + 1 \in DOMAIN q /\ t[i] = q[i + 1]
      /\ \A i \in DOMAIN q : i = 1 \/ (i - 1 \in DOMAIN t /\ t[i - 1] = q[i])
      /\ DOMAIN t \subseteq Nat \ {0}
  BY Tailed
<1> HIDE DEF t
<1>2. \A i \in Hits(t, S) : i + 1 \in Hits(q, S) /\ i + 1 # 1 /\ i \in Nat
  BY <1>1 DEF Hits
<1>3. \A i \in Hits(q, S) : i = 1 \/ i - 1 \in Hits(t, S)
  BY <1>1 DEF Hits
<1>4. Head(q) \in S <=> 1 \in Hits(q, S)
  BY <1>1 DEF Hits
<1>5. One(Hits(q, S)) => One(Hits(t, S))
  <2> SUFFICES ASSUME One(Hits(q, S)), NEW i \in Hits(t, S), NEW j \in Hits(t, S)
               PROVE  i = j
    BY DEF One
  <2>1. i + 1 = j + 1 /\ i \in Nat /\ j \in Nat
    BY <1>2 DEF One
  <2> QED
    BY <2>1
<1>6. Head(q) \notin S => (Hits(t, S) = {} <=> Hits(q, S) = {})
  BY <1>2, <1>3, <1>4
<1>7. Head(q) \in S => /\ Hits(q, S) # {}
                       /\ One(Hits(q, S)) => Hits(t, S) = {}
  BY <1>2, <1>4 DEF One
<1> QED
  BY <1>5, <1>6, <1>7 DEF t

LEMMA HearingIs ==
    ASSUME TypeOK, NEW l
    PROVE  Hearing(l) <=> /\ fd_table[l] = l
                          /\ \/ l \in accepting \/ Hits(sq, Asks(l)) # {}
                             \/ Hits(cq, Fails(l)) # {} \/ cqe \in Fails(l)
<1>1. /\ \A i \in DOMAIN sq : sq[i] \in Request
      /\ \A i \in DOMAIN cq : cq[i] \in Completion
      /\ cqe # Idle <=> cqe \in Completion
  BY ElementOfSeq, LenProperties, AbsenceAssumption DEF TypeOK
<1> QED
  BY <1>1 DEF Hearing, Hits, Asks, Fails

LEMMA HearingNext ==
    ASSUME TypeOK', NEW l
    PROVE  Hearing(l)' <=> /\ fd_table'[l] = l
                           /\ \/ l \in accepting' \/ Hits(sq', Asks(l)) # {}
                              \/ Hits(cq', Fails(l)) # {} \/ cqe' \in Fails(l)
<1>1. /\ \A i \in DOMAIN sq' : sq'[i] \in Request
      /\ \A i \in DOMAIN cq' : cq'[i] \in Completion
      /\ cqe' # Idle <=> cqe' \in Completion
  BY ElementOfSeq, LenProperties, AbsenceAssumption DEF TypeOK
<1> QED
  BY <1>1 DEF Hearing, Hits, Asks, Fails, FailedAccept

-----------------------------------------------------------------------------
(* A step that keeps the places of l's accept                              *)

Live(l) == fd_table[l] = l /\ Apart(l) /\ Once(l)

Stays(l) == Live(l)' /\ (Hearing(l) => Hearing(l)')

SameSq(l) ==
    /\ \A i \in DOMAIN sq' : sq'[i].fd = l => sq'[i].op = "accept"
    /\ One(Hits(sq', Asks(l)))
    /\ Hits(sq', Asks(l)) = {} <=> Hits(sq, Asks(l)) = {}

SameCq(l) ==
    /\ \A i \in DOMAIN cq' : Elsewhere(cq'[i], l)
    /\ One(Hits(cq', Fails(l)))
    /\ Hits(cq', Fails(l)) = {} <=> Hits(cq, Fails(l)) = {}

SameCqe(l) ==
    /\ cqe' \in Fails(l) <=> cqe \in Fails(l)
    /\ cqe' # Idle => Elsewhere(cqe', l)

SameRest(l) ==
    /\ reads'[l] = <<>> /\ sends'[l] = 0
    /\ \A s \in Sockets \ {l} : number'[s] # l
    /\ l = SyncFd => connections'[l] = NoConn
    /\ l \in refused' => l \in refused

LEMMA Steady ==
    ASSUME TypeOK, TypeOK', NEW l, Live(l), fd_table'[l] = l,
           SameSq(l), SameCq(l), SameCqe(l), SameRest(l),
           l \in accepting' => l \in accepting
    PROVE  /\ Live(l)'
           /\ (l \in accepting => l \in accepting') => Stays(l)
<1>1. Apart(l)'
  BY DEF SameSq, SameCq, SameCqe, SameRest, Apart, Elsewhere
<1>2. Once(l)'
  BY DEF SameSq, SameCq, SameCqe, SameRest, Once, Live, Fails, One, Hits, Asks, FailedAccept
<1> QED
  BY <1>1, <1>2, HearingIs, HearingNext DEF Live, Stays, SameSq, SameCq, SameCqe, Once

(* What the steps do to the queues *)

LEMMA SqAppended ==
    ASSUME TypeOK, NEW l, Live(l), NEW r \in Request, r.fd # l, sq' = Append(sq, r)
    PROVE  SameSq(l)
<1>1. r \notin Asks(l)
  BY DEF Asks
<1>2. \A i \in DOMAIN sq' : \/ i \in DOMAIN sq /\ sq'[i] = sq[i]
                            \/ sq'[i] = r
  BY Appended DEF TypeOK
<1>3. Hits(sq', Asks(l)) = Hits(sq, Asks(l))
  BY <1>1, HitsAppended DEF TypeOK
<1> QED
  BY <1>2, <1>3 DEF SameSq, Live, Apart, Once

LEMMA SqUnchanged ==
    ASSUME NEW l, Live(l), UNCHANGED sq
    PROVE  SameSq(l)
  BY DEF SameSq, Live, Apart, Once

LEMMA CqUnchanged ==
    ASSUME NEW l, Live(l), UNCHANGED cq
    PROVE  SameCq(l)
  BY DEF SameCq, Live, Apart, Once

LEMMA CqeDone ==
    ASSUME NEW l, cqe \notin Fails(l), cqe' = Idle
    PROVE  SameCqe(l)
  BY AbsenceAssumption DEF SameCqe, Fails

\* only the completion of a read is overwritten, and it stays one
LEMMA Posted ==
    ASSUME TypeOK, NEW l, Live(l), NEW c \in Completion, NEW met, Post(c, met)
    PROVE  cq' = Append(cq, c) /\ SameCqe(l)
<1>1. CASE Overwrites
  <2>1. PICK res \in {"ok", "short"} : cqe' = [cqe EXCEPT !.buf = c.buf, !.res = res]
    BY <1>1 DEF Post
  <2>2. cqe \in Completion /\ cqe.op = "read" /\ c.buf \in Bufs
    BY <1>1 DEF Overwrites, TypeOK, Completion
  <2>3. cqe' \in Completion /\ cqe'.op = "read" /\ cqe'.fd = cqe.fd
    BY <2>1, <2>2 DEF Completion
  <2> QED
    BY <2>2, <2>3, AbsenceAssumption
       DEF Post, SameCqe, Fails, FailedAccept, Live, Apart, Elsewhere
<1>2. CASE ~Overwrites
  BY <1>2 DEF Post, SameCqe, Live, Apart
<1> QED
  BY <1>1, <1>2

LEMMA CqAppended ==
    ASSUME TypeOK, NEW l, Live(l), NEW c \in Completion, c \notin Fails(l),
           Elsewhere(c, l), cq' = Append(cq, c)
    PROVE  SameCq(l)
<1>1. \A i \in DOMAIN cq' : \/ i \in DOMAIN cq /\ cq'[i] = cq[i]
                            \/ cq'[i] = c
  BY Appended DEF TypeOK
<1>2. Hits(cq', Fails(l)) = Hits(cq, Fails(l))
  BY HitsAppended DEF TypeOK
<1> QED
  BY <1>1, <1>2 DEF SameCq, Live, Apart, Once

\* a read queued for another connection
LEMMA ReadElsewhere ==
    ASSUME TypeOK, NEW l \in Fds, NEW fd \in Fds, fd # l, NEW conns \in Connections,
           conns[fd] \in Connection, conns[l] = connections[l],
           Live(l), QueueRead(fd, conns)
    PROVE  /\ SameSq(l) /\ connections'[l] = connections[l]
           /\ l \in refused' => l \in refused
<1>1. CASE HasSqe
  <2> DEFINE r == ReadOn(fd, conns[fd].sock, next_group, conns[fd].kind # "sync")
  <2>1. r \in Request /\ r.fd = fd /\ sq' = Append(sq, r)
    BY <1>1, Constants DEF QueueRead, ReadOn, Request, TypeOK, Connection
  <2> HIDE DEF r
  <2>2. SameSq(l)
    BY <2>1, SqAppended
  <2>3. /\ connections' = [conns EXCEPT ![fd].buf_group = next_group]
        /\ refused' = refused \ {fd}
    BY <1>1 DEF QueueRead
  <2> QED
    BY <2>2, <2>3 DEF Connections
<1>2. CASE ~HasSqe
  BY <1>2, SqUnchanged DEF QueueRead
<1> QED
  BY <1>1, <1>2

\* a reply
LEMMA WriteElsewhere ==
    ASSUME TypeOK, NEW l, NEW fd \in Fds, fd # l, Known(fd), Live(l),
           NEW op \in {"send", "sendmsg"}, QueueWrite(op, fd)
    PROVE  SameSq(l)
<1>1. CASE HasSqe
  <2> DEFINE r == SendOn(op, fd, connections[fd].sock)
  <2>1. connections[fd] \in Connection
    BY DEF TypeOK, Known
  <2>2. r \in Request /\ r.fd = fd /\ sq' = Append(sq, r)
    BY <1>1, <2>1, Constants DEF QueueWrite, SendOn, Request, Connection
  <2> HIDE DEF r
  <2> QED
    BY <2>2, SqAppended
<1>2. CASE ~HasSqe
  BY <1>2, SqUnchanged DEF QueueWrite
<1> QED
  BY <1>1, <1>2

-----------------------------------------------------------------------------
(* The worker *)

LEMMA CqeFacts ==
    ASSUME LoopInv, NEW l, Live(l), cqe # Idle
    PROVE  /\ cqe \in Completion /\ cqe.fd \in Fds /\ cqe.client \in Fds
           /\ cqe.fd = l => cqe.op = "accept"
           /\ cqe.op = "accept" /\ cqe.res = "ok" => cqe.client # l
           /\ ~FailedAccept(cqe, l) => cqe \notin Fails(l)
  BY DEF LoopInv, TypeOK, Completion, Live, Apart, Elsewhere, Fails

\* a handler that leaves the table, the kernel and the other completions alone
LEMMA Handled ==
    ASSUME TypeOK, TypeOK', NEW l, Live(l), fd_table'[l] = l,
           SameSq(l), SameCqe(l), connections'[l] = connections[l],
           l \in refused' => l \in refused,
           UNCHANGED <<cq, number, accepting, reads, sends>>
    PROVE  Stays(l)
<1>1. SameCq(l)
  BY CqUnchanged
<1>2. SameRest(l)
  BY DEF SameRest, Live, Apart
<1> QED
  BY <1>1, <1>2, Steady

LEMMA WaitStays ==
    ASSUME TypeOK, TypeOK', NEW l, Live(l), Wait
    PROVE  Stays(l)
<1>1. /\ cq \in Seq(Completion) /\ cq # <<>> /\ cqe' = Head(cq) /\ cq' = Tail(cq)
      /\ UNCHANGED <<sq, connections, refused, kernel>>
  BY DEF Wait, TypeOK
<1>2. /\ 1 \in DOMAIN cq /\ Head(cq) = cq[1]
      /\ \A i \in DOMAIN cq' : i + 1 \in DOMAIN cq /\ cq'[i] = cq[i + 1]
      /\ cqe \notin Fails(l)
  BY <1>1, Tailed, AbsenceAssumption DEF Wait, Fails
<1>3. Apart(l)'
  BY <1>1, <1>2 DEF Live, Apart, Elsewhere, kernel
<1>4. /\ Head(cq) \notin Fails(l) =>
             (Hits(cq', Fails(l)) = {} <=> Hits(cq, Fails(l)) = {})
      /\ One(Hits(cq', Fails(l)))
      /\ Head(cq) \in Fails(l) =>
             Hits(cq, Fails(l)) # {} /\ Hits(cq', Fails(l)) = {}
  BY <1>1, HitsTailed DEF Live, Once
<1>5. Once(l)'
  BY <1>1, <1>2, <1>4 DEF Live, Once, Fails, One, Hits, Asks, FailedAccept, kernel
<1>6. Hearing(l) => Hearing(l)'
  BY <1>1, <1>2, <1>4, HearingIs, HearingNext DEF Live, kernel
<1> QED
  BY <1>1, <1>3, <1>5, <1>6 DEF Stays, Live, kernel

LEMMA DeleteContextStays ==
    ASSUME LoopInv, TypeOK', NEW l, Live(l), DeleteContext
    PROVE  Stays(l)
<1>1. SameSq(l) /\ SameCqe(l)
  BY SqUnchanged, CqeDone, CqeFacts DEF DeleteContext, Handling, FailedAccept
<1> QED
  BY <1>1, Handled DEF DeleteContext, kernel, LoopInv, Live

LEMMA DroppedStays ==
    ASSUME LoopInv, TypeOK', NEW l, Live(l), Dropped
    PROVE  Stays(l)
<1>1. SameSq(l) /\ SameCqe(l)
  BY SqUnchanged, CqeDone, CqeFacts DEF Dropped, FailedAccept
<1> QED
  BY <1>1, Handled DEF Dropped, kernel, LoopInv, Live

LEMMA ReadShortStays ==
    ASSUME LoopInv, TypeOK', NEW l, Live(l), ReadShort
    PROVE  Stays(l)
<1>1. SameSq(l) /\ SameCqe(l)
  BY SqUnchanged, CqeDone, CqeFacts DEF ReadShort, Handling, FailedAccept
<1> QED
  BY <1>1, Handled DEF ReadShort, kernel, LoopInv, Live

LEMMA ClientErrorStays ==
    ASSUME LoopInv, TypeOK', NEW l \in Listeners, Live(l), ClientError
    PROVE  Stays(l)
<1>1. /\ cqe # Idle /\ cqe' = Idle /\ cqe.op # "accept"
      /\ UNCHANGED <<sq, cq, number, accepting, reads, sends, refused>>
      /\ \/ Close(cqe.fd)
         \/ UNCHANGED <<connections, fd_table>>
  BY DEF ClientError
<1>2. cqe.fd # l /\ cqe \notin Fails(l)
  BY <1>1, CqeFacts DEF FailedAccept
<1>3. fd_table'[l] = fd_table[l] /\ connections'[l] = connections[l]
  BY <1>1, <1>2, Constants DEF Close, LoopInv, TypeOK
<1>4. SameSq(l) /\ SameCqe(l)
  BY <1>1, <1>2, SqUnchanged, CqeDone
<1> QED
  BY <1>1, <1>3, <1>4, Handled DEF LoopInv, Live

LEMMA UdpErrorStays ==
    ASSUME LoopInv, TypeOK', NEW l \in Listeners, Live(l), UdpError
    PROVE  Stays(l)
<1>1. /\ cqe # Idle /\ cqe' = Idle /\ cqe.op = "read"
      /\ Known(UdpFd) /\ QueueRead(UdpFd, connections)
      /\ UNCHANGED <<cq, kernel>>
  BY DEF UdpError, Handling
<1>2. connections \in Connections /\ connections[UdpFd] \in Connection
  BY <1>1, Constants DEF Connections, LoopInv, TypeOK, Known
<1>3. /\ SameSq(l) /\ connections'[l] = connections[l]
      /\ l \in refused' => l \in refused
  BY <1>1, <1>2, Constants, ReadElsewhere DEF LoopInv
<1>4. SameCqe(l)
  BY <1>1, CqeDone, CqeFacts DEF FailedAccept
<1> QED
  BY <1>1, <1>3, <1>4, Handled DEF kernel, LoopInv, Live

LEMMA RearmStays ==
    ASSUME LoopInv, TypeOK', NEW l \in Listeners, Live(l), Rearm
    PROVE  Stays(l)
<1>1. /\ cqe # Idle /\ cqe' = Idle /\ cqe.op = "read" /\ Known(cqe.fd)
      /\ QueueRead(cqe.fd, connections)
      /\ UNCHANGED <<cq, kernel>>
  BY DEF Rearm, LoopInv, TypeOK, WorkerInv
<1>2. cqe.fd \in Fds /\ cqe.fd # l /\ cqe \notin Fails(l)
  BY <1>1, CqeFacts DEF FailedAccept
<1>3. connections \in Connections /\ connections[cqe.fd] \in Connection
  BY <1>1, <1>2 DEF Connections, LoopInv, TypeOK, Known
<1>4. /\ SameSq(l) /\ connections'[l] = connections[l]
      /\ l \in refused' => l \in refused
  BY <1>1, <1>2, <1>3, Constants, ReadElsewhere DEF LoopInv
<1>5. SameCqe(l)
  BY <1>1, <1>2, CqeDone
<1> QED
  BY <1>1, <1>4, <1>5, Handled DEF kernel, LoopInv, Live

LEMMA WrittenStays ==
    ASSUME LoopInv, TypeOK', NEW l \in Listeners, Live(l), Written
    PROVE  Stays(l)
<1>1. /\ cqe # Idle /\ cqe' = Idle /\ cqe.op = "send" /\ Known(cqe.fd)
      /\ \/ QueueRead(cqe.fd, connections)
         \/ UNCHANGED <<connections, sq, refused>>
      /\ UNCHANGED <<cq, kernel>>
  BY DEF Written, Handling
<1>2. cqe.fd \in Fds /\ cqe.fd # l /\ cqe \notin Fails(l)
  BY <1>1, CqeFacts DEF FailedAccept
<1>3. connections \in Connections /\ connections[cqe.fd] \in Connection
  BY <1>1, <1>2 DEF Connections, LoopInv, TypeOK, Known
<1>4. /\ SameSq(l) /\ connections'[l] = connections[l]
      /\ l \in refused' => l \in refused
  BY <1>1, <1>2, <1>3, Constants, ReadElsewhere, SqUnchanged DEF LoopInv
<1>5. SameCqe(l)
  BY <1>1, <1>2, CqeDone
<1> QED
  BY <1>1, <1>4, <1>5, Handled DEF kernel, LoopInv, Live

LEMMA ReadDataStays ==
    ASSUME LoopInv, TypeOK', NEW l, Live(l), ReadData
    PROVE  Stays(l)
<1>1. /\ cqe # Idle /\ cqe.op = "read" /\ Known(cqe.fd) /\ Reply(cqe.fd)
      /\ \/ cqe' = Idle
         \/ cqe' = [cqe EXCEPT !.holds = {}]
      /\ UNCHANGED <<connections, cq, kernel, refused>>
  BY DEF ReadData, Handling
<1>2. cqe \in Completion /\ cqe.fd \in Fds /\ cqe.fd # l /\ cqe \notin Fails(l)
  BY <1>1, CqeFacts DEF FailedAccept
<1>3. \E op \in {"send", "sendmsg"} : QueueWrite(op, cqe.fd)
  BY <1>1 DEF Reply
<1>4. SameSq(l)
  BY <1>1, <1>2, <1>3, WriteElsewhere DEF LoopInv
<1>5. SameCqe(l)
  <2>1. CASE cqe' = Idle
    BY <1>2, <2>1, CqeDone
  <2>2. CASE cqe' = [cqe EXCEPT !.holds = {}]
    <3>1. cqe'.op = "read" /\ cqe'.fd = cqe.fd
      BY <1>1, <1>2, <2>2 DEF Completion
    <3> QED
      BY <1>2, <3>1 DEF SameCqe, Fails, FailedAccept, Elsewhere
  <2> QED
    BY <1>1, <2>1, <2>2
<1> QED
  BY <1>1, <1>4, <1>5, Handled DEF kernel, LoopInv, Live

LEMMA AcceptedStays ==
    ASSUME LoopInv, TypeOK', NEW l \in Listeners, Live(l), Accepted
    PROVE  Stays(l)
<1> DEFINE client == cqe.client
           conn == [kind |-> IF cqe.fd = TcpFd THEN "tcp" ELSE "sync",
                    sock |-> cqe.sock, buf_group |-> 0]
           conns == [connections EXCEPT ![client] = conn]
<1>1. /\ cqe # Idle /\ cqe' = Idle /\ cqe.op = "accept" /\ cqe.res = "ok"
      /\ QueueRead(client, conns)
      /\ UNCHANGED <<cq, kernel>>
  BY DEF Accepted, Handling
<1>2. /\ cqe \in Completion /\ client \in Fds /\ client # l /\ cqe \notin Fails(l)
  BY <1>1, CqeFacts DEF FailedAccept
<1>3. conn \in Connection
  BY <1>2, Constants DEF Connection, Completion
<1> HIDE DEF conn
<1>4. conns \in Connections /\ conns[client] \in Connection /\ conns[l] = connections[l]
  BY <1>2, <1>3, Constants DEF Connections, LoopInv, TypeOK
<1> HIDE DEF conns, client
<1>5. /\ SameSq(l) /\ connections'[l] = connections[l]
      /\ l \in refused' => l \in refused
  <2>1. TypeOK /\ l \in Fds
    BY Constants DEF LoopInv
  <2> QED
    BY <1>1, <1>2, <1>4, <2>1, ReadElsewhere, Zenon
<1>6. SameCqe(l)
  BY <1>1, <1>2, CqeDone
<1> QED
  BY <1>1, <1>5, <1>6, Handled DEF kernel, LoopInv, Live

\* the ways of ListenerDeafOnlyBy
Excused(l) ==
    \/ \E s \in Socks, fd \in Fds : Connect(l, s, fd, FALSE)
    \/ l \notin refused /\ l \in refused'
    \/ l = TcpFd /\ cqe # Idle /\ FailedAccept(cqe, l)

LEMMA AcceptErrorElsewhere ==
    ASSUME LoopInv, TypeOK', NEW l \in Listeners, Live(l), AcceptError, cqe.fd # l
    PROVE  Stays(l)
<1>1. /\ cqe # Idle /\ cqe' = Idle
      /\ QueueMultishotAccept(cqe.fd)
      /\ UNCHANGED <<cq, number, accepting, reads, sends>>
      /\ \/ Close(cqe.fd)
         \/ UNCHANGED <<connections, fd_table>>
  BY DEF AcceptError, Handling
<1>2. cqe.fd \in Fds /\ cqe \notin Fails(l) /\ cqe.fd \in Listeners
  BY <1>1, CqeFacts DEF FailedAccept, AcceptError, Handling, LoopInv, WorkerInv, CompletionOk
<1>3. fd_table'[l] = fd_table[l] /\ connections'[l] = connections[l]
  BY <1>1, <1>2, Constants DEF Close, LoopInv, TypeOK
<1>4. SameSq(l) /\ (l \in refused' => l \in refused)
  <2>1. CASE HasSqe
    <3> DEFINE r == AcceptOn(cqe.fd)
    <3>1. r \in Request /\ r.fd = cqe.fd
      BY <1>2, Constants DEF AcceptOn, Request
    <3>2. sq' = Append(sq, r) /\ UNCHANGED refused
      BY <1>1, <2>1 DEF QueueMultishotAccept
    <3> HIDE DEF r
    <3> QED
      BY <3>1, <3>2, SqAppended DEF LoopInv
  <2>2. CASE ~HasSqe
    BY <1>1, <2>2, SqUnchanged DEF QueueMultishotAccept
  <2> QED
    BY <2>1, <2>2
<1>5. SameCqe(l)
  BY <1>1, <1>2, CqeDone
<1> QED
  BY <1>1, <1>3, <1>4, <1>5, Handled DEF LoopInv, Live

\* the accept of l itself has failed: it is queued again, or l is refused, or
\* closed where it is a connection
LEMMA AcceptErrorHere ==
    ASSUME LoopInv, TypeOK', NEW l \in Listeners, Live(l), AcceptError, cqe.fd = l
    PROVE  /\ fd_table'[l] = l => Live(l)'
           /\ Hearing(l) => Hearing(l)' \/ Excused(l)
<1>1. /\ cqe # Idle /\ cqe' = Idle /\ FailedAccept(cqe, l)
      /\ QueueMultishotAccept(l)
      /\ UNCHANGED <<cq, number, accepting, reads, sends>>
      /\ IF Known(l) THEN Close(l) ELSE UNCHANGED <<connections, fd_table>>
  BY DEF AcceptError, Handling, FailedAccept
<1>2. cqe \in Fails(l)
  BY <1>1, CqeFacts DEF Fails
<1>3. /\ l \notin accepting /\ l \notin refused
      /\ Hits(sq, Asks(l)) = {} /\ Hits(cq, Fails(l)) = {}
  BY <1>2 DEF Live, Once
<1>4. CASE Known(l)
  <2>1. l # SyncFd
    BY <1>4 DEF Live, Apart, Known
  <2>2. l = TcpFd
    BY <2>1 DEF Listeners
  <2>3. fd_table'[l] # l
    BY <1>1, <1>4, Constants DEF Close, LoopInv, TypeOK
  <2> QED
    BY <1>1, <2>2, <2>3 DEF Excused
<1>5. CASE ~Known(l)
  <2>1. fd_table'[l] = l /\ UNCHANGED connections
    BY <1>1, <1>5 DEF Live
  <2>2. CASE HasSqe
    <3> DEFINE r == AcceptOn(l)
    <3>1. r \in Request /\ r \in Asks(l) /\ r.op = "accept"
      BY Constants DEF AcceptOn, Request, Asks
    <3>2. sq' = Append(sq, r) /\ UNCHANGED refused
      BY <1>1, <2>2 DEF QueueMultishotAccept
    <3> HIDE DEF r
    <3>3. /\ Hits(sq', Asks(l)) # {} /\ One(Hits(sq', Asks(l)))
          /\ \A i \in DOMAIN sq' : \/ i \in DOMAIN sq /\ sq'[i] = sq[i]
                                   \/ sq'[i] = r
      BY <1>3, <3>1, <3>2, Appended, HitsAppended DEF LoopInv, TypeOK
    <3>4. Apart(l)'
      BY <1>1, <2>1, <3>1, <3>3 DEF Live, Apart, Elsewhere
    <3>5. cqe' \notin Fails(l)
      BY <1>1, AbsenceAssumption DEF Fails
    <3>6. Once(l)'
      BY <1>1, <1>3, <3>2, <3>3, <3>5 DEF Live, Once, Fails, One, Hits, Asks, FailedAccept
    <3> QED
      BY <2>1, <3>3, <3>4, <3>6, HearingNext DEF Live
  <2>3. CASE ~HasSqe
    <3>1. sq' = sq /\ refused' = refused \cup {l}
      BY <1>1, <2>3 DEF QueueMultishotAccept
    <3>2. Apart(l)'
      BY <1>1, <2>1, <3>1 DEF Live, Apart, Elsewhere
    <3>3. cqe' \notin Fails(l)
      BY <1>1, AbsenceAssumption DEF Fails
    <3>4. Once(l)'
      BY <1>1, <1>3, <3>1, <3>3 DEF Live, Once, Fails, One, Hits, Asks, FailedAccept
    <3> QED
      BY <1>3, <2>1, <3>1, <3>2, <3>4 DEF Live, Excused
  <2> QED
    BY <2>2, <2>3
<1> QED
  BY <1>4, <1>5

-----------------------------------------------------------------------------
(* The kernel *)

\* a completion that is not of l's accept
LEMMA PostElsewhere ==
    ASSUME TypeOK, TypeOK', NEW l, Live(l), fd_table'[l] = l,
           NEW c \in Completion, c \notin Fails(l), Elsewhere(c, l),
           NEW met, Post(c, met), SameSq(l), UNCHANGED worker,
           reads'[l] = <<>>, sends'[l] = 0,
           \A s \in Sockets \ {l} : number'[s] # l,
           l \in accepting' => l \in accepting
    PROVE  /\ Live(l)'
           /\ (l \in accepting => l \in accepting') => Stays(l)
<1>1. SameCq(l) /\ SameCqe(l)
  BY Posted, CqAppended
<1>2. SameRest(l)
  BY DEF SameRest, worker, Live, Apart
<1> QED
  BY <1>1, <1>2, Steady

LEMMA EndOfRequest ==
    ASSUME NEW op \in {"accept", "read", "send", "sendmsg"}, NEW fd \in Fds,
           NEW s \in Sockets, NEW res \in {"ok", "short", "error"},
           NEW c, c = Ended(op, fd, s, res)
    PROVE  /\ c \in Completion
           /\ c.op = op /\ c.fd = fd /\ c.sock = s /\ c.res = res
           /\ ~c.more /\ c.holds = {} /\ c.client = fd
  BY Constants DEF Ended, Completion

\* a socket with reads or sends is no listener, nor is its fd
LEMMA SocketElsewhere ==
    ASSUME LoopInv, NEW l, Live(l), NEW s \in Sockets,
           reads[s] # <<>> \/ sends[s] > 0
    PROVE  s # l /\ number[s] \in Fds /\ number[s] # l
  BY DEF LoopInv, TypeOK, Live, Apart

LEMMA ReadEndsElsewhere ==
    ASSUME LoopInv, TypeOK', NEW l \in Listeners, Live(l), NEW s \in Sockets,
           reads[s] # <<>>, NEW c \in Completion, c.op = "read", c.fd = number[s],
           NEW rest, reads' = reads \/ reads' = [reads EXCEPT ![s] = rest], Post(c, {}),
           UNCHANGED <<worker, sq, fd_table, number, accepting, sends>>
    PROVE  Stays(l)
<1>1. s # l /\ number[s] # l
  BY SocketElsewhere
<1>2. reads'[l] = <<>> /\ sends'[l] = 0 /\ \A t \in Sockets \ {l} : number'[t] # l
  BY <1>1, Constants DEF Live, Apart, LoopInv, TypeOK
<1>3. c \notin Fails(l) /\ Elsewhere(c, l)
  BY <1>1 DEF Fails, FailedAccept, Elsewhere
<1>4. SameSq(l)
  BY SqUnchanged
<1> QED
  BY <1>2, <1>3, <1>4, PostElsewhere DEF LoopInv, Live

LEMMA MessageStays ==
    ASSUME LoopInv, TypeOK', NEW l \in Listeners, Live(l), NEW s \in Sockets,
           NEW i \in DOMAIN reads[s], NEW b \in Bufs, NEW res \in {"ok", "short"},
           NEW more \in BOOLEAN,
           Message(s, i, b, res, more)
    PROVE  Stays(l)
<1> DEFINE g == reads[s][i].group
           e == Ended("read", number[s], s, res)
           h == {<<g, b>>}
           c == [e EXCEPT !.more = more, !.buf = b, !.holds = h]
           rest == Without(reads[s], i)
<1>1. /\ Post(c, {})
      /\ reads' = reads \/ reads' = [reads EXCEPT ![s] = rest]
      /\ UNCHANGED <<worker, sq, fd_table, number, accepting, sends>>
  BY DEF Message
<1>2. reads[s] # <<>> /\ number[s] \in Fds /\ g \in Groups
  BY ReadFacts
<1>3. e \in Completion /\ e.op = "read" /\ e.fd = number[s]
  BY <1>2, EndOfRequest
<1>4. h \in SUBSET (Groups \X Bufs)
  BY <1>2
<1> HIDE DEF e, h
<1>5. c \in Completion /\ c.op = "read" /\ c.fd = number[s]
  BY <1>3, <1>4 DEF Completion
<1> HIDE DEF c, rest
<1> QED
  BY <1>1, <1>2, <1>5, ReadEndsElsewhere

LEMMA ReadGoneStays ==
    ASSUME LoopInv, TypeOK', NEW l \in Listeners, Live(l), NEW s \in Sockets,
           NEW i \in DOMAIN reads[s],
           EndOfStream(s, i) \/ ReadFails(s, i)
    PROVE  Stays(l)
<1> DEFINE rest == Without(reads[s], i)
<1>1. PICK res \in {"short", "error"} :
          /\ Post(Ended("read", number[s], s, res), {})
          /\ reads' = [reads EXCEPT ![s] = rest]
          /\ UNCHANGED <<worker, sq, fd_table, number, accepting, sends>>
  BY DEF EndOfStream, ReadFails
<1> DEFINE c == Ended("read", number[s], s, res)
<1>2. reads[s] # <<>> /\ number[s] \in Fds
  BY ReadFacts
<1>3. c \in Completion /\ c.op = "read" /\ c.fd = number[s]
  BY <1>2, EndOfRequest
<1> HIDE DEF c, rest
<1>4. Post(c, {})
  BY <1>1 DEF c
<1> QED
  BY <1>1, <1>2, <1>3, <1>4, ReadEndsElsewhere

LEMMA SendEndsStays ==
    ASSUME LoopInv, TypeOK', NEW l \in Listeners, Live(l), NEW s \in Sockets,
           NEW res \in {"ok", "error"}, SendEnds(s, res)
    PROVE  Stays(l)
<1> DEFINE op == IF s = UdpFd THEN "sendmsg" ELSE "send"
           c == Ended(op, number[s], s, res)
<1>1. /\ sends[s] > 0 /\ sends' = [sends EXCEPT ![s] = sends[s] - 1]
      /\ Post(c, {})
      /\ UNCHANGED <<worker, sq, fd_table, number, accepting, reads>>
  BY DEF SendEnds
<1>2. s # l /\ number[s] \in Fds /\ number[s] # l
  BY <1>1, SocketElsewhere
<1>3. op \in {"send", "sendmsg"}
  OBVIOUS
<1> HIDE DEF op
<1>4. c \in Completion /\ c.op # "accept" /\ c.fd = number[s]
  BY <1>2, <1>3, EndOfRequest
<1> HIDE DEF c
<1>5. reads'[l] = <<>> /\ sends'[l] = 0 /\ \A t \in Sockets \ {l} : number'[t] # l
  BY <1>1, <1>2, Constants DEF Live, Apart, LoopInv, TypeOK
<1>6. c \notin Fails(l) /\ Elsewhere(c, l)
  BY <1>2, <1>4 DEF Fails, FailedAccept, Elsewhere
<1>7. SameSq(l)
  BY <1>1, SqUnchanged
<1> QED
  BY <1>1, <1>4, <1>5, <1>6, <1>7, PostElsewhere DEF LoopInv, Live

LEMMA ConnectStays ==
    ASSUME LoopInv, TypeOK', NEW l \in Listeners, Live(l), NEW k \in Listeners,
           NEW s \in Socks, NEW fd \in Fds, NEW more \in BOOLEAN, Connect(k, s, fd, more)
    PROVE  Live(l)' /\ (k # l \/ more => Stays(l))
<1> DEFINE e == Ended("accept", k, s, "ok")
           c == [e EXCEPT !.more = more, !.client = fd]
<1>1. /\ fd_table[fd] = NoSock
      /\ fd_table' = [fd_table EXCEPT ![fd] = s]
      /\ number' = [number EXCEPT ![s] = fd]
      /\ accepting' = IF more THEN accepting ELSE accepting \ {k}
      /\ Post(c, {})
      /\ UNCHANGED <<worker, sq, reads, sends>>
  BY DEF Connect
<1>2. fd # l /\ l \in Fds /\ l \in Sockets /\ s \in Sockets /\ s # l
  BY <1>1, Constants, SocketsAssumption DEF Live
<1>3. e \in Completion /\ e.op = "accept" /\ e.fd = k /\ e.res = "ok"
  BY <1>2, Constants, EndOfRequest
<1> HIDE DEF e
<1>4. /\ c \in Completion /\ c.op = "accept" /\ c.fd = k /\ c.res = "ok" /\ c.client = fd
  BY <1>3 DEF Completion
<1> HIDE DEF c
<1>5. /\ fd_table'[l] = l /\ reads'[l] = <<>> /\ sends'[l] = 0
      /\ \A t \in Sockets \ {l} : number'[t] # l
  BY <1>1, <1>2, Constants DEF Live, Apart, LoopInv, TypeOK
<1>6. c \notin Fails(l) /\ Elsewhere(c, l)
  BY <1>2, <1>4 DEF Fails, FailedAccept, Elsewhere
<1>7. SameSq(l)
  BY <1>1, SqUnchanged
<1> QED
  BY <1>1, <1>4, <1>5, <1>6, <1>7, PostElsewhere DEF LoopInv

\* an armed accept fails: its completion takes its place
LEMMA AcceptFailsStays ==
    ASSUME LoopInv, TypeOK', NEW l \in Listeners, Live(l), NEW k \in Listeners, AcceptFails(k)
    PROVE  Stays(l)
<1> DEFINE c == Ended("accept", k, k, "error")
<1>1. /\ k \in accepting /\ accepting' = accepting \ {k} /\ Post(c, {})
      /\ UNCHANGED <<worker, sq, fd_table, number, reads, sends>>
  BY DEF AcceptFails
<1>2. c \in Completion /\ c.op = "accept" /\ c.fd = k /\ c.res = "error"
  BY Constants, EndOfRequest
<1> HIDE DEF c
<1>3. fd_table'[l] = l /\ SameSq(l)
  BY <1>1, SqUnchanged DEF Live
<1>4. CASE k # l
  <2>1. c \notin Fails(l) /\ Elsewhere(c, l)
    BY <1>2, <1>4 DEF Fails, FailedAccept, Elsewhere
  <2> QED
    BY <1>1, <1>2, <1>3, <1>4, <2>1, PostElsewhere DEF LoopInv, Live, Apart
<1>5. CASE k = l
  <2>1. /\ c \in Fails(l) /\ Elsewhere(c, l)
        /\ Hits(sq, Asks(l)) = {} /\ Hits(cq, Fails(l)) = {}
        /\ cqe \notin Fails(l) /\ l \notin refused
    BY <1>1, <1>2, <1>5 DEF Fails, FailedAccept, Elsewhere, Live, Once
  <2>2. cq' = Append(cq, c) /\ SameCqe(l)
    BY <1>1, <1>2, Posted DEF LoopInv
  <2>3. /\ Hits(cq', Fails(l)) # {} /\ One(Hits(cq', Fails(l)))
        /\ \A i \in DOMAIN cq' : \/ i \in DOMAIN cq /\ cq'[i] = cq[i]
                                 \/ cq'[i] = c
    BY <1>2, <2>1, <2>2, Appended, HitsAppended DEF LoopInv, TypeOK
  <2>4. Apart(l)'
    BY <1>1, <2>1, <2>2, <2>3 DEF Live, Apart, Elsewhere, SameCqe, worker
  <2>5. Once(l)'
    BY <1>1, <1>5, <2>1, <2>2, <2>3
       DEF Live, Once, Fails, One, Hits, Asks, FailedAccept, SameCqe, worker
  <2> QED
    BY <1>3, <2>3, <2>4, <2>5, HearingNext DEF Live, Stays
<1> QED
  BY <1>4, <1>5

\* the request of another fd is taken, or fails
LEMMA TakeElsewhere ==
    ASSUME LoopInv, TypeOK', NEW l \in Listeners, Live(l),
           \A fd \in Fds : fd_table[fd] = l => fd = l,
           KernelTake, Head(sq).fd # l
    PROVE  Stays(l)
<1> DEFINE r == Head(sq)
           s == fd_table[r.fd]
<1>1. /\ sq # <<>> /\ sq' = Tail(sq) /\ sq \in Seq(Request)
      /\ UNCHANGED <<worker, fd_table, number>>
  BY DEF KernelTake, LoopInv, TypeOK
<1>2. /\ r \in Request /\ r.fd \in Fds /\ r.fd # l /\ r.sock \in Sockets
      /\ r.op \in {"accept", "read", "send", "sendmsg"}
      /\ \A i \in DOMAIN sq' : i + 1 \in DOMAIN sq /\ sq'[i] = sq[i + 1]
  <2>1. /\ r \in Request
        /\ \A i \in DOMAIN sq' : i + 1 \in DOMAIN sq /\ sq'[i] = sq[i + 1]
    BY <1>1, Tailed
  <2>2. r.fd # l
    OBVIOUS
  <2> HIDE DEF r
  <2> QED
    BY <2>1, <2>2 DEF Request
<1>3. s # l
  BY <1>2
<1>4. SameSq(l)
  <2>1. r \notin Asks(l)
    BY <1>2 DEF Asks
  <2>2. /\ Hits(sq', Asks(l)) = {} <=> Hits(sq, Asks(l)) = {}
        /\ One(Hits(sq', Asks(l)))
    BY <1>1, <2>1, HitsTailed DEF Live, Once
  <2> QED
    BY <1>2, <2>2 DEF SameSq, Live, Apart
<1> DEFINE met == IF s # NoSock /\ s # r.sock THEN {r.fd} ELSE {}
           c == Ended(r.op, r.fd, r.sock, "error")
<1>5. CASE s = NoSock \/ (r.op = "accept" /\ s # r.fd)
  <2>1. Post(c, met) /\ UNCHANGED <<accepting, reads, sends>>
    BY <1>5 DEF KernelTake
  <2>2. c \in Completion /\ c.fd = r.fd /\ c.res = "error"
    BY <1>2, EndOfRequest
  <2> HIDE DEF c, met
  <2>3. c \notin Fails(l) /\ Elsewhere(c, l)
    BY <1>2, <2>2 DEF Fails, FailedAccept, Elsewhere
  <2> QED
    BY <1>1, <1>4, <2>1, <2>2, <2>3, PostElsewhere DEF LoopInv, Live, Apart
<1>6. CASE ~(s = NoSock \/ (r.op = "accept" /\ s # r.fd))
  <2>1. \E e : reads' = reads \/ reads' = [reads EXCEPT ![s] = e]
    BY <1>6 DEF KernelTake
  <2>2. /\ accepting' = accepting \/ accepting' = accepting \cup {s}
        /\ sends' = sends \/ sends' = [sends EXCEPT ![s] = sends[s] + 1]
        /\ UNCHANGED <<cq, cqe>>
    BY <1>6 DEF KernelTake
  <2>3. reads'[l] = <<>> /\ sends'[l] = 0 /\ (l \in accepting' <=> l \in accepting)
    BY <1>3, <2>1, <2>2, Constants DEF LoopInv, TypeOK, Live, Apart
  <2>4. SameCq(l) /\ SameCqe(l)
    BY <2>2, CqUnchanged DEF SameCqe, Live, Apart
  <2>5. SameRest(l)
    BY <1>1, <2>3 DEF SameRest, worker, Live, Apart
  <2> QED
    BY <1>1, <1>4, <2>3, <2>4, <2>5, Steady DEF LoopInv, Live
<1> QED
  BY <1>5, <1>6

\* the accept of l is armed
LEMMA TakeHere ==
    ASSUME LoopInv, TypeOK', NEW l \in Listeners, Live(l), KernelTake, Head(sq).fd = l
    PROVE  Stays(l)
<1> DEFINE r == Head(sq)
<1>1. /\ sq # <<>> /\ sq' = Tail(sq) /\ sq \in Seq(Request)
      /\ UNCHANGED <<worker, fd_table, number>>
  BY DEF KernelTake, LoopInv, TypeOK
<1>2. /\ r \in Request /\ 1 \in DOMAIN sq /\ r = sq[1]
      /\ \A i \in DOMAIN sq' : i + 1 \in DOMAIN sq /\ sq'[i] = sq[i + 1]
  BY <1>1, Tailed
<1>3. r.op = "accept" /\ r \in Asks(l)
  BY <1>2 DEF Live, Apart, Asks
<1>4. fd_table[r.fd] = l /\ l # NoSock
  BY Constants DEF Live
<1>5. accepting' = accepting \cup {l} /\ UNCHANGED <<reads, sends, cq, cqe>>
  BY <1>3, <1>4 DEF KernelTake
<1>6. /\ Hits(sq, Asks(l)) # {} /\ Hits(sq', Asks(l)) = {}
      /\ One(Hits(sq', Asks(l)))
  BY <1>1, <1>3, HitsTailed DEF Live, Once
<1>7. Apart(l)'
  BY <1>1, <1>2, <1>5 DEF Live, Apart, Elsewhere, worker
<1>8. Once(l)'
  BY <1>1, <1>5, <1>6 DEF Live, Once, Fails, One, Hits, Asks, FailedAccept, worker
<1> QED
  BY <1>1, <1>5, <1>7, <1>8, HearingNext DEF Live, Stays

-----------------------------------------------------------------------------
(* The theorem *)

LEMMA InitListener == ASSUME Init, NEW l \in Listeners PROVE ListenerInv(l)
<1>1. /\ l \in Fds /\ l \in Sockets /\ l \notin ClientFds /\ l # UdpFd /\ NoSock # l
      /\ l \notin Socks
  BY Constants, SocketsAssumption
<1>2. \A fd \in Fds : fd_table[fd] = l <=> fd = l
  BY <1>1 DEF Init
<1>3. /\ sq = <<AcceptOn(TcpFd), AcceptOn(SyncFd), ReadOn(UdpFd, UdpFd, 0, TRUE)>>
      /\ DOMAIN sq = {1, 2, 3} /\ cq = <<>> /\ DOMAIN cq = {} /\ cqe = Idle
      /\ accepting = {} /\ refused = {}
  BY DEF Init
<1>4. /\ \A i \in DOMAIN sq : sq[i].fd = l => sq[i].op = "accept"
      /\ \A i \in DOMAIN sq : sq[i].op = "accept" =>
             \/ i = 1 /\ sq[i].fd = TcpFd
             \/ i = 2 /\ sq[i].fd = SyncFd
  BY <1>1, <1>3 DEF AcceptOn, ReadOn
<1>5. Apart(l)
  BY <1>1, <1>3, <1>4, SocketsAssumption DEF Init, Apart, Sockets
<1>6. Once(l)
  <2>1. One(Hits(sq, Asks(l)))
    BY <1>4, SocketsAssumption DEF One, Hits, Asks
  <2> QED
    BY <1>3, <2>1, AbsenceAssumption DEF Once, One, Hits, Fails
<1> QED
  BY <1>2, <1>5, <1>6 DEF ListenerInv

\* a socket only becomes open as a client's, under a new fd
LEMMA TableKept ==
    ASSUME LoopInv, [Next]_vars, NEW l \in Listeners,
           \A fd \in Fds : fd_table[fd] = l => fd = l
    PROVE  /\ \A fd \in Fds : fd_table'[fd] = l => fd = l
           /\ fd_table'[l] = l => fd_table[l] = l
<1>1. l # NoSock /\ l \notin Socks /\ l \in Fds
  BY Constants, SocketsAssumption
<1>2. \/ UNCHANGED fd_table
      \/ \E fd \in Fds : fd_table' = [fd_table EXCEPT ![fd] = NoSock]
      \/ \E fd \in Fds, s \in Socks : fd_table' = [fd_table EXCEPT ![fd] = s]
  <2>1. cqe # Idle => cqe.fd \in Fds
    BY DEF LoopInv, TypeOK, Completion
  <2>2. CASE Worker
    BY <2>1, <2>2 DEF Worker, Wait, DeleteContext, UdpError, ClientError, AcceptError,
           Accepted, Dropped, ReadShort, ReadData, Rearm, Written, Handling, Close, kernel
  <2>3. CASE Kernel
    <3>1. CASE \E k \in Listeners, s \in Socks, fd \in Fds, more \in BOOLEAN :
                   Connect(k, s, fd, more)
      BY <3>1 DEF Connect
    <3>2. CASE KernelTake
      BY <3>2 DEF KernelTake
    <3>3. CASE \E s \in Sockets : \E i \in DOMAIN reads[s] :
                   \/ \E b \in Bufs, res \in {"ok", "short"}, more \in BOOLEAN :
                          Message(s, i, b, res, more)
                   \/ EndOfStream(s, i) \/ ReadFails(s, i)
      <4>1. \A s, i, b, res, more : Message(s, i, b, res, more) => UNCHANGED fd_table
        BY DEF Message
      <4>2. \A s, i : EndOfStream(s, i) \/ ReadFails(s, i) => UNCHANGED fd_table
        BY DEF EndOfStream, ReadFails
      <4> QED
        BY <3>3, <4>1, <4>2
    <3>4. CASE \/ \E s \in Sockets, res \in {"ok", "error"} : SendEnds(s, res)
               \/ \E k \in Listeners : AcceptFails(k)
      BY <3>4 DEF SendEnds, AcceptFails
    <3> QED
      BY <2>3, <3>1, <3>2, <3>3, <3>4 DEF Kernel
  <2> QED
    BY <2>2, <2>3 DEF Next, vars
<1> QED
  BY <1>1, <1>2 DEF LoopInv, TypeOK

LEMMA ListenerStep ==
    ASSUME LoopInv, LoopInv', [Next]_vars, NEW l \in Listeners, ListenerInv(l)
    PROVE  ListenerInv(l)' /\ (Hearing(l) /\ ~Hearing(l)' => Excused(l))
<1>1. /\ \A fd \in Fds : fd_table[fd] = l => fd = l
      /\ \A fd \in Fds : fd_table'[fd] = l => fd = l
      /\ fd_table'[l] = l => fd_table[l] = l
  BY TableKept DEF ListenerInv
<1>2. CASE fd_table[l] # l
  BY <1>1, <1>2 DEF ListenerInv, Hearing
<1>3. CASE Live(l)
  <2> SUFFICES /\ fd_table'[l] = l => Live(l)'
               /\ Hearing(l) => Hearing(l)' \/ Excused(l)
    BY <1>1 DEF ListenerInv, Live
  <2>1. TypeOK /\ TypeOK'
    BY DEF LoopInv
  <2>2. Stays(l) => /\ Live(l)'
                    /\ Hearing(l) => Hearing(l)'
    BY DEF Stays
  <2>3. CASE Worker
    <3>1. CASE AcceptError
      BY <1>3, <2>1, <2>2, <3>1, AcceptErrorElsewhere, AcceptErrorHere
    <3>2. CASE ~AcceptError
      BY <1>3, <2>1, <2>2, <2>3, <3>2, WaitStays, DeleteContextStays, UdpErrorStays,
         ClientErrorStays, AcceptedStays, DroppedStays, ReadShortStays, ReadDataStays,
         RearmStays, WrittenStays DEF Worker
    <3> QED
      BY <3>1, <3>2
  <2>4. CASE KernelTake
    BY <1>1, <1>3, <2>1, <2>2, <2>4, TakeElsewhere, TakeHere
  <2>5. CASE \E s \in Sockets : \E i \in DOMAIN reads[s] :
                 \/ \E b \in Bufs, res \in {"ok", "short"}, more \in BOOLEAN :
                        Message(s, i, b, res, more)
                 \/ EndOfStream(s, i) \/ ReadFails(s, i)
    BY <1>3, <2>1, <2>2, <2>5, MessageStays, ReadGoneStays
  <2>6. CASE \E s \in Sockets, res \in {"ok", "error"} : SendEnds(s, res)
    BY <1>3, <2>1, <2>2, <2>6, SendEndsStays
  <2>7. CASE \E k \in Listeners, s \in Socks, fd \in Fds, more \in BOOLEAN :
                 Connect(k, s, fd, more)
    <3>1. PICK k \in Listeners, s \in Socks, fd \in Fds, more \in BOOLEAN :
              Connect(k, s, fd, more)
      BY <2>7
    <3>2. Live(l)' /\ (k # l \/ more => Stays(l))
      BY <1>3, <2>1, <3>1, ConnectStays
    <3>3. k = l /\ ~more => Excused(l)
      <4>1. ~more => more = FALSE
        OBVIOUS
      <4> QED BY <3>1, <4>1 DEF Excused
    <3> QED
      BY <2>2, <3>2, <3>3
  <2>8. CASE \E k \in Listeners : AcceptFails(k)
    BY <1>3, <2>1, <2>2, <2>8, AcceptFailsStays
  <2>9. CASE UNCHANGED vars
    BY <1>3, <2>9 DEF vars, Live, Apart, Elsewhere, Once, One, Hits, Asks, Fails,
                      FailedAccept, Hearing
  <2> QED
    BY <2>3, <2>4, <2>5, <2>6, <2>7, <2>8, <2>9 DEF Next, Kernel
<1> QED
  BY <1>2, <1>3 DEF ListenerInv, Live

\* An accept is queued, armed or about to be queued again for each listener,
\* until one that succeeds is its last, the submission queue is full, or an
\* accept of the TCP listener fails (Core.cpp:172-190, 232-236).
THEOREM ListenersGoDeafOnlyBy == Spec => ListenerDeafOnlyBy
<1> DEFINE Inv == LoopInv /\ \A l \in Listeners : ListenerInv(l)
           Step == \A l \in Listeners : Hearing(l) /\ ~Hearing(l)' => Excused(l)
<1>1. Init => Inv
  BY InitInv, InitListener
<1>2. Inv /\ [Next]_vars => Inv' /\ Step
  BY StepInv, ListenerStep
<1>3. [Step]_vars => [\A l \in Listeners : Hearing(l) /\ ~Hearing(l)' =>
         \/ \E s \in Socks, fd \in Fds : Connect(l, s, fd, FALSE)
         \/ l \notin refused /\ l \in refused'
         \/ l = TcpFd /\ cqe # Idle /\ FailedAccept(cqe, l)]_vars
  BY DEF Excused
<1> HIDE DEF Inv, Step
<1> QED
  BY <1>1, <1>2, <1>3, PTL DEF Spec, ListenerDeafOnlyBy

-----------------------------------------------------------------------------
(***************************************************************************)
(* The reads and the buffers.  A socket that accept has handed out meets   *)
(* no request before its connection is made; from then on its read is in   *)
(* one place, of the group that was picked last, until an fd meets the     *)
(* request of another socket.                                              *)
(***************************************************************************)

IsRead(x, s) == x.op = "read" /\ x.sock = s

\* who has which fd: a socket keeps its number when its fd goes to another
SocketsInv ==
    /\ \A fd \in Fds : connections[fd] # NoConn => fd_table[fd] = connections[fd].sock
    /\ \A fd \in Fds : fd_table[fd] # NoSock =>
           fd_table[fd] \notin fresh /\ number[fd_table[fd]] = fd
    /\ \A s \in Socks \ fresh : fd_table[number[s]] \in Socks \cup {NoSock}

\* a request other than an accept is of a socket that was accepted, or of the
\* UDP socket, and carries its number
ItsOwn(x) == x.op # "accept" => x.sock \notin fresh \cup Listeners /\ number[x.sock] = x.fd

OwnersInv ==
    /\ \A i \in DOMAIN sq : ItsOwn(sq[i])
    /\ \A i \in DOMAIN cq : ItsOwn(cq[i])
    /\ cqe # Idle => ItsOwn(cqe)
    /\ \A s \in fresh \cup Listeners : reads[s] = <<>> /\ sends[s] = 0

\* no read of s has been asked for
Untouched(s) ==
    /\ \A i \in DOMAIN sq : ~IsRead(sq[i], s)
    /\ reads[s] = <<>>
    /\ \A i \in DOMAIN cq : ~IsRead(cq[i], s)
    /\ cqe # Idle => ~IsRead(cqe, s)

NewSocket(c) == c.op = "accept" /\ c.res = "ok"

\* the accepted socket has its fd and not yet its connection
Pending(c) ==
    /\ c.sock \in Socks \ fresh /\ number[c.sock] = c.client
    /\ fd_table[c.client] = c.sock /\ connections[c.client] = NoConn
    /\ c.client \in muddled \/ Untouched(c.sock)

NewInv ==
    /\ \A i \in DOMAIN cq : NewSocket(cq[i]) => Pending(cq[i])
    /\ cqe # Idle /\ NewSocket(cqe) => Pending(cqe)
    /\ \A i, j \in DOMAIN cq :
           NewSocket(cq[i]) /\ NewSocket(cq[j]) /\ cq[i].sock = cq[j].sock => i = j
    /\ cqe # Idle /\ NewSocket(cqe) =>
           \A i \in DOMAIN cq : NewSocket(cq[i]) => cq[i].sock # cqe.sock

\* a read of group g has ended with an error, or it brings a buffer of g
Full(c, g) == IF c.res = "error" THEN ~c.more ELSE c.res = "ok" /\ c.holds = {<<g, c.buf>>}

Regular(s, g) ==
    /\ \A i \in DOMAIN sq : IsRead(sq[i], s) => sq[i].group = g /\ sq[i].multi
    /\ \A i \in DOMAIN reads[s] : reads[s][i].group = g /\ reads[s][i].multi
    /\ \A i \in DOMAIN cq : IsRead(cq[i], s) => Full(cq[i], g)
    /\ cqe # Idle /\ IsRead(cqe, s) /\ ~rearming => Full(cqe, g)

\* the completion that ends the read of s is the last of it
Ordered(s) ==
    /\ \A i, j \in DOMAIN cq : EndsRead(cq[i], s) /\ IsRead(cq[j], s) => j <= i
    /\ cqe # Idle /\ EndsRead(cqe, s) => \A j \in DOMAIN cq : ~IsRead(cq[j], s)

Kept(s, g, n) == Reads(s) = n /\ Regular(s, g) /\ Ordered(s)

\* fd has a connection that should have a read
Reading(fd) ==
    /\ fd \notin muddled /\ connections[fd] # NoConn
    /\ connections[fd].sock \notin Listeners /\ connections[fd].kind # "sync"

Wanted(fd) == IF fd \in refused THEN 0 ELSE 1

\* n reads of group g are to be found of the socket s, the connection of fd
Owed(fd, s, g, n) ==
    /\ Reading(fd) /\ Wanted(fd) = n
    /\ connections[fd].sock = s /\ connections[fd].buf_group = g

ReadsInv ==
    \A fd \in Fds, s \in Sockets, g \in Groups, n \in 0 .. 1 :
        Owed(fd, s, g, n) => Kept(s, g, n)

RearmingInv ==
    rearming => /\ ~cqe.more /\ cqe.holds = {}
                /\ cqe.fd \in muddled \/ connections[cqe.fd].sock = cqe.sock

\* only the message of a read holds a buffer
Emptied(c) == c.op # "read" \/ c.res = "error" => c.holds = {}

HoldsInv ==
    /\ \A i \in DOMAIN cq : Emptied(cq[i])
    /\ cqe # Idle => Emptied(cqe)

FlowInv ==
    SocketsInv /\ OwnersInv /\ NewInv /\ ReadsInv /\ RearmingInv /\ HoldsInv

-----------------------------------------------------------------------------
(* How many elements of a queue are in a set *)

NumIn(q, S) == Cardinality(Hits(q, S))

LEMMA NumType ==
    ASSUME NEW T, NEW q \in Seq(T), NEW S
    PROVE  /\ IsFiniteSet(Hits(q, S)) /\ NumIn(q, S) \in Nat
           /\ NumIn(q, S) = 0 <=> Hits(q, S) = {}
<1>1. DOMAIN q = 1 .. Len(q) /\ Len(q) \in Nat
  OBVIOUS
<1>2. IsFiniteSet(1 .. Len(q))
  BY <1>1, FS_Interval
<1>3. Hits(q, S) \in SUBSET (1 .. Len(q))
  BY <1>1 DEF Hits
<1>4. IsFiniteSet(Hits(q, S))
  BY <1>2, <1>3, FS_Subset
<1> QED
  BY <1>4, FS_CardinalityType, FS_EmptySet DEF NumIn

LEMMA NumAppended ==
    ASSUME NEW T, NEW q \in Seq(T), NEW e \in T, NEW S
    PROVE  NumIn(Append(q, e), S) = NumIn(q, S) + (IF e \in S THEN 1 ELSE 0)
<1>1. /\ DOMAIN Append(q, e) = 1 .. Len(q) + 1 /\ DOMAIN q = 1 .. Len(q) /\ Len(q) \in Nat
      /\ Append(q, e)[Len(q) + 1] = e
      /\ \A i \in DOMAIN q : i \in DOMAIN Append(q, e) /\ Append(q, e)[i] = q[i]
      /\ \A i \in DOMAIN Append(q, e) : i \in DOMAIN q \/ i = Len(q) + 1
  BY Appended, LenProperties
<1> DEFINE a == Append(q, e)
<1> HIDE DEF a
<1>2. IsFiniteSet(Hits(q, S)) /\ NumIn(q, S) \in Nat
  BY NumType
<1>3. CASE e \notin S
  BY <1>2, <1>3, HitsAppended DEF NumIn
<1>4. CASE e \in S
  <2>1. Hits(a, S) = Hits(q, S) \cup {Len(q) + 1}
    BY <1>1, <1>4 DEF Hits, a
  <2>2. Len(q) + 1 \notin Hits(q, S)
    BY <1>1 DEF Hits
  <2>3. Cardinality(Hits(q, S) \cup {Len(q) + 1}) = Cardinality(Hits(q, S)) + 1
    BY <1>2, <2>2, FS_AddElement
  <2> QED
    BY <1>4, <2>1, <2>3 DEF NumIn, a
<1> QED
  BY <1>3, <1>4

LEMMA NumTailed ==
    ASSUME NEW T, NEW q \in Seq(T), q # <<>>, NEW S
    PROVE  NumIn(q, S) = NumIn(Tail(q), S) + (IF Head(q) \in S THEN 1 ELSE 0)
<1> DEFINE t == Tail(q)
<1>1. /\ 1 \in DOMAIN q /\ Head(q) = q[1] /\ t \in Seq(T)
      /\ \A i \in DOMAIN t : i + 1 \in DOMAIN q /\ t[i] = q[i + 1]
      /\ \A i \in DOMAIN q : i = 1 \/ (i - 1 \in DOMAIN t /\ t[i - 1] = q[i])
      /\ DOMAIN t \subseteq Nat \ {0} /\ DOMAIN q \subseteq Nat \ {0}
  BY Tailed
<1> HIDE DEF t
<1> DEFINE A == Hits(t, S)
           B == Hits(q, S) \ {1}
<1>2. IsFiniteSet(A) /\ IsFiniteSet(Hits(q, S)) /\ NumIn(q, S) \in Nat /\ NumIn(t, S) \in Nat
  BY <1>1, NumType
<1>3. \A i \in A : i + 1 \in B /\ i \in Nat
  BY <1>1 DEF Hits
<1>4. \A i \in B : i - 1 \in A /\ i \in Nat
  BY <1>1 DEF Hits
<1> HIDE DEF A, B
<1>5. Cardinality(B) = Cardinality(A)
  <2> DEFINE f == [i \in A |-> i + 1]
  <2>1. f \in [A -> B]
    BY <1>3
  <2>2. \A i, j \in A : f[i] = f[j] => i = j
    BY <1>3
  <2>3. \A k \in B : \E i \in A : f[i] = k
    <3>1. ASSUME NEW k \in B PROVE \E i \in A : f[i] = k
      <4>1. k - 1 \in A /\ k \in Nat
        BY <1>4
      <4>2. f[k - 1] = k
        BY <4>1
      <4> QED BY <4>1, <4>2
    <3> QED BY <3>1
  <2> HIDE DEF f
  <2>4. f \in Bijection(A, B)
    BY <2>1, <2>2, <2>3 DEF Bijection, Injection, Surjection, IsInjective
  <2>5. ExistsBijection(A, B)
    BY <2>4 DEF ExistsBijection
  <2> QED
    BY <1>2, <2>5, FS_Bijection
<1>6. Cardinality(B) = IF 1 \in Hits(q, S) THEN NumIn(q, S) - 1 ELSE NumIn(q, S)
  BY <1>2, FS_RemoveElement DEF B, NumIn
<1>7. Head(q) \in S <=> 1 \in Hits(q, S)
  BY <1>1 DEF Hits
<1>8. Cardinality(A) = NumIn(t, S)
  BY DEF NumIn, A
<1>9. NumIn(t, S) = IF Head(q) \in S THEN NumIn(q, S) - 1 ELSE NumIn(q, S)
  BY <1>5, <1>6, <1>7, <1>8
<1>10. NumIn(q, S) = NumIn(t, S) + (IF Head(q) \in S THEN 1 ELSE 0)
  BY <1>2, <1>9
<1> QED
  BY <1>10 DEF t

-----------------------------------------------------------------------------
(* The reads of one socket, wherever they are                              *)

ReadsOf(s) == {r \in Request : IsRead(r, s)}

EndsOf(s) == {c \in Completion : EndsRead(c, s)}

ReadsTotal(s) ==
    NumIn(sq, ReadsOf(s)) + Len(reads[s]) + NumIn(cq, EndsOf(s))
      + (IF cqe \in EndsOf(s) THEN 1 ELSE 0)

LEMMA ReadsAre == TypeOK => \A s \in Sockets : Reads(s) = ReadsTotal(s)
<1> SUFFICES ASSUME TypeOK, NEW s \in Sockets PROVE Reads(s) = ReadsTotal(s)
  OBVIOUS
<1>1. /\ \A i \in DOMAIN sq : sq[i] \in Request
      /\ \A i \in DOMAIN cq : cq[i] \in Completion
      /\ cqe # Idle <=> cqe \in Completion
  BY ElementOfSeq, LenProperties, AbsenceAssumption DEF TypeOK
<1>2. Hits(sq, ReadsOf(s)) = {i \in DOMAIN sq : sq[i].op = "read" /\ sq[i].sock = s}
  BY <1>1 DEF Hits, ReadsOf, IsRead
<1>3. Hits(cq, EndsOf(s)) = {i \in DOMAIN cq : EndsRead(cq[i], s)}
  BY <1>1 DEF Hits, EndsOf
<1>4. cqe \in EndsOf(s) <=> cqe # Idle /\ EndsRead(cqe, s)
  BY <1>1 DEF EndsOf
<1> QED
  BY <1>2, <1>3, <1>4 DEF Reads, Count, ReadsTotal, NumIn

LEMMA ReadsAreNext == TypeOK' => (\A s \in Sockets : Reads(s) = ReadsTotal(s))'
  BY ReadsAre, PTL

LEMMA Numbers ==
    ASSUME TypeOK, NEW s \in Sockets
    PROVE  /\ NumIn(sq, ReadsOf(s)) \in Nat /\ Len(reads[s]) \in Nat
           /\ NumIn(cq, EndsOf(s)) \in Nat
           /\ NumIn(sq, ReadsOf(s)) = 0 => \A i \in DOMAIN sq : ~IsRead(sq[i], s)
           /\ (\A i \in DOMAIN sq : ~IsRead(sq[i], s)) => NumIn(sq, ReadsOf(s)) = 0
           /\ Len(reads[s]) = 0 <=> reads[s] = <<>>
           /\ NumIn(cq, EndsOf(s)) = 0 => \A i \in DOMAIN cq : ~EndsRead(cq[i], s)
           /\ (\A i \in DOMAIN cq : ~EndsRead(cq[i], s)) => NumIn(cq, EndsOf(s)) = 0
<1>1. /\ \A i \in DOMAIN sq : sq[i] \in Request
      /\ \A i \in DOMAIN cq : cq[i] \in Completion
  BY ElementOfSeq, LenProperties DEF TypeOK
<1>2. /\ NumIn(sq, ReadsOf(s)) \in Nat /\ NumIn(cq, EndsOf(s)) \in Nat
      /\ NumIn(sq, ReadsOf(s)) = 0 <=> Hits(sq, ReadsOf(s)) = {}
      /\ NumIn(cq, EndsOf(s)) = 0 <=> Hits(cq, EndsOf(s)) = {}
  BY NumType DEF TypeOK
<1>3. /\ Hits(sq, ReadsOf(s)) = {} <=> \A i \in DOMAIN sq : ~IsRead(sq[i], s)
      /\ Hits(cq, EndsOf(s)) = {} <=> \A i \in DOMAIN cq : ~EndsRead(cq[i], s)
  BY <1>1 DEF Hits, ReadsOf, EndsOf
<1>4. reads[s] \in Seq(ReadRecord)
  BY DEF TypeOK, ReadRecord
<1>5. Len(reads[s]) \in Nat /\ (Len(reads[s]) = 0 <=> reads[s] = <<>>)
  BY <1>4, EmptySeq, LenProperties
<1> QED
  BY <1>2, <1>3, <1>5

Numbered(s) ==
    /\ NumIn(sq, ReadsOf(s)) \in Nat /\ Len(reads[s]) \in Nat
    /\ NumIn(cq, EndsOf(s)) \in Nat
    /\ NumIn(sq, ReadsOf(s)) = 0 => \A i \in DOMAIN sq : ~IsRead(sq[i], s)
    /\ (\A i \in DOMAIN sq : ~IsRead(sq[i], s)) => NumIn(sq, ReadsOf(s)) = 0
    /\ Len(reads[s]) = 0 <=> reads[s] = <<>>
    /\ NumIn(cq, EndsOf(s)) = 0 => \A i \in DOMAIN cq : ~EndsRead(cq[i], s)
    /\ (\A i \in DOMAIN cq : ~EndsRead(cq[i], s)) => NumIn(cq, EndsOf(s)) = 0

LEMMA AllNumbered == TypeOK => \A s \in Sockets : Numbered(s)
  BY Numbers DEF Numbered

LEMMA AllNumberedNext == TypeOK' => (\A s \in Sockets : Numbered(s))'
  BY AllNumbered, PTL

(* No read of s is queued, held or ended, but for the completion that is   *)
(* being handled.                                                          *)
Gone(s) ==
    /\ \A i \in DOMAIN sq : ~IsRead(sq[i], s)
    /\ reads[s] = <<>>
    /\ \A i \in DOMAIN cq : ~IsRead(cq[i], s)

LEMMA EndedIsGone ==
    ASSUME TypeOK, NEW s \in Sockets, NEW g, NEW n \in 0 .. 1, Kept(s, g, n),
           cqe # Idle, EndsRead(cqe, s)
    PROVE  Gone(s) /\ n = 1
<1>1. cqe \in EndsOf(s)
  BY DEF TypeOK, EndsOf
<1>2. ReadsTotal(s) = n /\ Numbered(s)
  BY ReadsAre, AllNumbered DEF Kept
<1>3. NumIn(sq, ReadsOf(s)) = 0 /\ Len(reads[s]) = 0 /\ n = 1
  BY <1>1, <1>2 DEF ReadsTotal, Numbered
<1>4. \A i \in DOMAIN cq : ~IsRead(cq[i], s)
  BY DEF Kept, Ordered
<1> QED
  BY <1>2, <1>3, <1>4 DEF Gone, Numbered

-----------------------------------------------------------------------------
(* Steps that leave the reads of s where they are, or move them on         *)

NoReadQueued(s) == sq' = sq \/ \E r \in Request : ~IsRead(r, s) /\ sq' = Append(sq, r)

Handed(s) ==
    \/ cqe' = Idle /\ ~EndsRead(cqe, s)
    \/ /\ cqe' \in Completion /\ cqe'.op = cqe.op /\ cqe'.sock = cqe.sock
       /\ cqe'.more = cqe.more /\ rearming'

LEMMA SqKept ==
    ASSUME TypeOK, NEW s, NoReadQueued(s)
    PROVE  /\ NumIn(sq', ReadsOf(s)) = NumIn(sq, ReadsOf(s))
           /\ \A i \in DOMAIN sq' : IsRead(sq'[i], s) => i \in DOMAIN sq /\ sq'[i] = sq[i]
<1>1. CASE sq' = sq
  BY <1>1
<1>2. ASSUME NEW r \in Request, ~IsRead(r, s), sq' = Append(sq, r)
      PROVE  /\ NumIn(sq', ReadsOf(s)) = NumIn(sq, ReadsOf(s))
             /\ \A i \in DOMAIN sq' : IsRead(sq'[i], s) => i \in DOMAIN sq /\ sq'[i] = sq[i]
  <2>1. r \notin ReadsOf(s) /\ NumIn(sq, ReadsOf(s)) \in Nat
    BY <1>2, NumType DEF ReadsOf, TypeOK
  <2>2. NumIn(sq', ReadsOf(s)) = NumIn(sq, ReadsOf(s)) + (IF r \in ReadsOf(s) THEN 1 ELSE 0)
    BY <1>2, NumAppended DEF TypeOK
  <2>3. \A i \in DOMAIN sq' : \/ i \in DOMAIN sq /\ sq'[i] = sq[i]
                              \/ sq'[i] = r
    BY <1>2, Appended DEF TypeOK
  <2> QED BY <1>2, <2>1, <2>2, <2>3
<1> QED BY <1>1, <1>2 DEF NoReadQueued

LEMMA WorkerKept ==
    ASSUME TypeOK, TypeOK', NEW s \in Sockets, UNCHANGED <<cq, reads>>,
           NoReadQueued(s), cqe # Idle, Handed(s)
    PROVE  /\ Untouched(s) => Untouched(s)'
           /\ \A g, n : Kept(s, g, n) => Kept(s, g, n)'
<1>1. /\ NumIn(sq', ReadsOf(s)) = NumIn(sq, ReadsOf(s))
      /\ \A i \in DOMAIN sq' : IsRead(sq'[i], s) => i \in DOMAIN sq /\ sq'[i] = sq[i]
  BY SqKept
<1>2. Untouched(s) => Untouched(s)'
  BY <1>1, AbsenceAssumption DEF Untouched, Handed, IsRead
<1>3. cqe' \in EndsOf(s) <=> cqe \in EndsOf(s)
  BY AbsenceAssumption DEF EndsOf, EndsRead, Handed, TypeOK
<1>4. Reads(s)' = Reads(s)
  BY <1>1, <1>3, ReadsAre, ReadsAreNext DEF ReadsTotal
<1>5. \A g : Regular(s, g) => Regular(s, g)'
  BY <1>1, AbsenceAssumption DEF Regular, Handed, TypeOK
<1>6. Ordered(s) => Ordered(s)'
  BY AbsenceAssumption DEF Ordered, EndsRead, IsRead, Handed
<1> QED
  BY <1>2, <1>4, <1>5, <1>6 DEF Kept

LEMMA ReadQueued ==
    ASSUME TypeOK, TypeOK', NEW s \in Sockets, Gone(s), cqe' = Idle,
           UNCHANGED <<cq, reads>>, NEW r \in Request, IsRead(r, s), r.multi,
           sq' = Append(sq, r)
    PROVE  Kept(s, r.group, 1)'
<1>1. NumIn(sq, ReadsOf(s)) = 0 /\ Len(reads[s]) = 0 /\ NumIn(cq, EndsOf(s)) = 0
  BY AllNumbered DEF Numbered, Gone, EndsRead, IsRead
<1>2. NumIn(sq', ReadsOf(s)) = 1
  <2>1. NumIn(sq', ReadsOf(s)) = NumIn(sq, ReadsOf(s)) + (IF r \in ReadsOf(s) THEN 1 ELSE 0)
    BY NumAppended DEF TypeOK
  <2> QED BY <1>1, <2>1 DEF ReadsOf
<1>3. cqe' \notin EndsOf(s)
  BY AbsenceAssumption DEF EndsOf
<1>4. Reads(s)' = 1
  BY <1>1, <1>2, <1>3, ReadsAreNext DEF ReadsTotal
<1>5. \A i \in DOMAIN sq' : IsRead(sq'[i], s) => sq'[i] = r
  BY Appended DEF TypeOK, Gone
<1>6. DOMAIN reads'[s] = {}
  BY DEF Gone
<1>7. Regular(s, r.group)' /\ Ordered(s)'
  BY <1>5, <1>6 DEF Regular, Ordered, Gone, EndsRead, IsRead
<1> QED
  BY <1>4, <1>7 DEF Kept

LEMMA ReadRefused ==
    ASSUME TypeOK, TypeOK', NEW s \in Sockets, Gone(s), cqe' = Idle,
           UNCHANGED <<sq, cq, reads>>, NEW g
    PROVE  Kept(s, g, 0)'
<1>1. NumIn(sq, ReadsOf(s)) = 0 /\ Len(reads[s]) = 0 /\ NumIn(cq, EndsOf(s)) = 0
  BY AllNumbered DEF Numbered, Gone, EndsRead, IsRead
<1>2. cqe' \notin EndsOf(s)
  BY AbsenceAssumption DEF EndsOf
<1>3. Reads(s)' = 0
  BY <1>1, <1>2, ReadsAreNext DEF ReadsTotal
<1>4. DOMAIN reads'[s] = {}
  BY DEF Gone
<1>5. Regular(s, g)' /\ Ordered(s)'
  BY <1>4 DEF Regular, Ordered, Gone, EndsRead, IsRead
<1> QED
  BY <1>3, <1>5 DEF Kept

LEMMA WaitKept ==
    ASSUME TypeOK, TypeOK', ~rearming, NEW s \in Sockets, Wait
    PROVE  /\ Untouched(s) => Untouched(s)'
           /\ \A g, n : Kept(s, g, n) => Kept(s, g, n)'
<1>1. /\ Head(cq) \in Completion /\ 1 \in DOMAIN cq /\ Head(cq) = cq[1] /\ cq \in Seq(Completion)
      /\ \A i \in DOMAIN Tail(cq) : i + 1 \in DOMAIN cq /\ Tail(cq)[i] = cq[i + 1] /\ i \in Nat \ {0}
  BY Tailed DEF TypeOK, Wait
<1>2. cqe' = Head(cq) /\ cq' = Tail(cq) /\ cqe = Idle /\ cq # <<>> /\ ~rearming'
      /\ UNCHANGED <<sq, reads>>
  BY DEF Wait, kernel
<1> DEFINE t == Tail(cq)
<1>3. /\ cqe' = cq[1] /\ 1 \in DOMAIN cq
      /\ \A i \in DOMAIN cq' : i + 1 \in DOMAIN cq /\ cq'[i] = cq[i + 1] /\ i \in Nat \ {0}
  BY <1>1, <1>2
<1>4. Untouched(s) => Untouched(s)'
  BY <1>2, <1>3 DEF Untouched
<1>5. cqe' \in EndsOf(s) <=> Head(cq) \in EndsOf(s)
  BY <1>2
<1>6. NumIn(cq, EndsOf(s)) = NumIn(cq', EndsOf(s)) + (IF Head(cq) \in EndsOf(s) THEN 1 ELSE 0)
  BY <1>1, <1>2, NumTailed
<1>7. cqe \notin EndsOf(s)
  BY <1>2, AbsenceAssumption DEF EndsOf
<1>8. Numbered(s) /\ Numbered(s)'
  BY AllNumbered, AllNumberedNext
<1>9. Reads(s)' = Reads(s)
  BY <1>2, <1>5, <1>6, <1>7, <1>8, ReadsAre, ReadsAreNext DEF ReadsTotal, Numbered
<1>10. \A g : Regular(s, g) => Regular(s, g)'
  BY <1>2, <1>3 DEF Regular
<1>11. Ordered(s) => Ordered(s)'
  <2> SUFFICES ASSUME Ordered(s) PROVE Ordered(s)'
    OBVIOUS
  <2>1. ASSUME NEW i \in DOMAIN cq', NEW j \in DOMAIN cq', EndsRead(cq'[i], s), IsRead(cq'[j], s)
        PROVE  j <= i
    <3>1. j + 1 <= i + 1 /\ i \in Nat /\ j \in Nat
      BY <1>3, <2>1 DEF Ordered
    <3> QED BY <3>1
  <2>2. ASSUME EndsRead(cqe', s), NEW j \in DOMAIN cq', IsRead(cq'[j], s)
        PROVE  FALSE
    <3>1. j + 1 <= 1 /\ j \in Nat \ {0}
      BY <1>3, <2>2 DEF Ordered
    <3> QED BY <3>1
  <2> QED BY <2>1, <2>2 DEF Ordered, EndsRead, IsRead
<1> QED
  BY <1>4, <1>9, <1>10, <1>11 DEF Kept

(* The kernel posts c.  The completion being handled is overwritten only if *)
(* it is not one of s.                                                     *)
Spared(s) == cqe' = cqe \/ (cqe # Idle /\ ~IsRead(cqe, s) /\ ~IsRead(cqe', s))

LEMMA CqeSpared ==
    ASSUME NEW s, Spared(s)
    PROVE  /\ cqe' \in EndsOf(s) <=> cqe \in EndsOf(s)
           /\ cqe' # Idle /\ IsRead(cqe', s) => cqe' = cqe
           /\ cqe' # Idle /\ EndsRead(cqe', s) => cqe' = cqe
  BY DEF Spared, EndsOf, EndsRead, IsRead

LEMMA PostKept ==
    ASSUME TypeOK, TypeOK', NEW s \in Sockets, NEW c \in Completion,
           cq' = Append(cq, c), Spared(s), UNCHANGED rearming,
           NEW g, NEW n \in 0 .. 1, Kept(s, g, n),
           NumIn(sq', ReadsOf(s)) + Len(reads'[s]) + (IF c \in EndsOf(s) THEN 1 ELSE 0)
               = NumIn(sq, ReadsOf(s)) + Len(reads[s]),
           \A i \in DOMAIN sq' : IsRead(sq'[i], s) => sq'[i].group = g /\ sq'[i].multi,
           \A i \in DOMAIN reads'[s] : reads'[s][i].group = g /\ reads'[s][i].multi,
           IsRead(c, s) => /\ Full(c, g)
                           /\ NumIn(sq, ReadsOf(s)) + Len(reads[s]) > 0
    PROVE  Kept(s, g, n)'
<1>1. \A i \in DOMAIN cq' : \/ i \in DOMAIN cq /\ cq'[i] = cq[i]
                            \/ i = Len(cq) + 1 /\ cq'[i] = c
  BY Appended, LenProperties DEF TypeOK
<1>2. Len(cq) \in Nat /\ DOMAIN cq' = 1 .. Len(cq) + 1 /\ DOMAIN cq = 1 .. Len(cq)
  BY Appended, LenProperties DEF TypeOK
<1>3. NumIn(cq', EndsOf(s)) = NumIn(cq, EndsOf(s)) + (IF c \in EndsOf(s) THEN 1 ELSE 0)
  BY NumAppended DEF TypeOK
<1>4. Numbered(s) /\ Numbered(s)' /\ ReadsTotal(s) = n /\ Reads(s)' = ReadsTotal(s)'
  BY AllNumbered, AllNumberedNext, ReadsAre, ReadsAreNext DEF Kept
<1>5. Reads(s)' = n
  <2> DEFINE e == IF c \in EndsOf(s) THEN 1 ELSE 0
             m == IF cqe \in EndsOf(s) THEN 1 ELSE 0
  <2>1. e \in Nat /\ m \in Nat
    OBVIOUS
  <2>2. (IF cqe' \in EndsOf(s) THEN 1 ELSE 0) = m
    BY CqeSpared
  <2> HIDE DEF e, m
  <2>3. /\ NumIn(cq', EndsOf(s)) = NumIn(cq, EndsOf(s)) + e
        /\ NumIn(sq', ReadsOf(s)) + Len(reads'[s]) + e = NumIn(sq, ReadsOf(s)) + Len(reads[s])
    BY <1>3 DEF e
  <2>4. ReadsTotal(s)' =
            NumIn(sq', ReadsOf(s)) + Len(reads'[s]) + NumIn(cq', EndsOf(s)) + m
    BY <2>2 DEF ReadsTotal
  <2>5. n = NumIn(sq, ReadsOf(s)) + Len(reads[s]) + NumIn(cq, EndsOf(s)) + m
    BY <1>4 DEF ReadsTotal, m
  <2>6. PICK q, r, q2, r2, k, k2 :
            /\ q = NumIn(sq, ReadsOf(s)) /\ r = Len(reads[s])
            /\ q2 = NumIn(sq', ReadsOf(s)) /\ r2 = Len(reads'[s])
            /\ k = NumIn(cq, EndsOf(s)) /\ k2 = NumIn(cq', EndsOf(s))
    OBVIOUS
  <2>7. q \in Nat /\ r \in Nat /\ q2 \in Nat /\ r2 \in Nat /\ k \in Nat /\ k2 \in Nat
    BY <1>4, <2>6 DEF Numbered
  <2>8. k2 = k + e /\ q2 + r2 + e = q + r /\ n = q + r + k + m
    BY <2>3, <2>5, <2>6
  <2>9. q2 + r2 + k2 + m = n
    BY ONLY <2>1, <2>7, <2>8
  <2> QED
    BY <1>4, <2>4, <2>6, <2>9
<1>6. Regular(s, g)'
  <2>1. \A i \in DOMAIN cq' : IsRead(cq'[i], s) => Full(cq'[i], g)
    BY <1>1 DEF Kept, Regular
  <2>2. cqe' # Idle /\ IsRead(cqe', s) /\ ~rearming' => Full(cqe', g)
    BY CqeSpared DEF Kept, Regular
  <2> QED BY <2>1, <2>2 DEF Regular
<1>7. IsRead(c, s) => /\ \A i \in DOMAIN cq : ~EndsRead(cq[i], s)
                      /\ cqe \notin EndsOf(s)
  <2> SUFFICES ASSUME IsRead(c, s)
               PROVE  NumIn(cq, EndsOf(s)) = 0 /\ cqe \notin EndsOf(s)
    BY <1>4 DEF Numbered
  <2> QED BY <1>4 DEF ReadsTotal, Numbered
<1>8. Ordered(s)'
  <2>1. ASSUME NEW i \in DOMAIN cq', NEW j \in DOMAIN cq', EndsRead(cq'[i], s), IsRead(cq'[j], s)
        PROVE  j <= i
    <3>1. CASE i \in DOMAIN cq /\ cq'[i] = cq[i] /\ j \in DOMAIN cq /\ cq'[j] = cq[j]
      BY <2>1, <3>1 DEF Kept, Ordered
    <3>2. CASE i \in DOMAIN cq /\ cq'[i] = cq[i] /\ cq'[j] = c
      BY <1>7, <2>1, <3>2
    <3>3. CASE i = Len(cq) + 1
      BY <1>2, <3>3
    <3> QED BY <1>1, <3>1, <3>2, <3>3
  <2>2. ASSUME cqe' # Idle, EndsRead(cqe', s), NEW j \in DOMAIN cq', IsRead(cq'[j], s)
        PROVE  FALSE
    <3>1. cqe' = cqe
      BY <2>2, CqeSpared
    <3>2. cqe \in EndsOf(s)
      BY <2>2, <3>1 DEF TypeOK, EndsOf
    <3> QED BY <1>1, <1>7, <2>2, <3>1, <3>2 DEF Kept, Ordered
  <2> QED BY <2>1, <2>2 DEF Ordered, EndsRead, IsRead
<1> QED
  BY <1>5, <1>6, <1>8 DEF Kept

LEMMA PostUntouched ==
    ASSUME TypeOK, NEW s, NEW c \in Completion, cq' = Append(cq, c), Spared(s),
           Untouched(s), ~IsRead(c, s), reads'[s] = <<>>,
           \A i \in DOMAIN sq' : ~IsRead(sq'[i], s)
    PROVE  Untouched(s)'
<1>1. \A i \in DOMAIN cq' : \/ i \in DOMAIN cq /\ cq'[i] = cq[i]
                            \/ cq'[i] = c
  BY Appended DEF TypeOK
<1> QED
  BY <1>1, CqeSpared DEF Untouched, IsRead

(* The kernel takes a submission without an answer.                        *)
LEMMA TakeKept ==
    ASSUME TypeOK, TypeOK', NEW s \in Sockets, UNCHANGED <<cq, cqe, rearming>>,
           NEW g, NEW n, Kept(s, g, n),
           NumIn(sq', ReadsOf(s)) + Len(reads'[s]) = NumIn(sq, ReadsOf(s)) + Len(reads[s]),
           \A i \in DOMAIN sq' : IsRead(sq'[i], s) => sq'[i].group = g /\ sq'[i].multi,
           \A i \in DOMAIN reads'[s] : reads'[s][i].group = g /\ reads'[s][i].multi
    PROVE  Kept(s, g, n)'
<1>1. Numbered(s) /\ Numbered(s)' /\ ReadsTotal(s) = n /\ Reads(s)' = ReadsTotal(s)'
  BY AllNumbered, AllNumberedNext, ReadsAre, ReadsAreNext DEF Kept
<1>2. Reads(s)' = n
  BY <1>1 DEF ReadsTotal, Numbered
<1>3. Regular(s, g)' /\ Ordered(s)'
  BY DEF Kept, Regular, Ordered, EndsRead, IsRead
<1> QED
  BY <1>2, <1>3 DEF Kept

(* The head of the submission queue is taken from it.                      *)
LEMMA SqTailed ==
    ASSUME TypeOK, sq # <<>>, sq' = Tail(sq), NEW s
    PROVE  /\ Head(sq) \in Request
           /\ NumIn(sq, ReadsOf(s)) =
                  NumIn(sq', ReadsOf(s)) + (IF Head(sq) \in ReadsOf(s) THEN 1 ELSE 0)
           /\ \E j \in DOMAIN sq : sq[j] = Head(sq)
           /\ \A i \in DOMAIN sq' : \E j \in DOMAIN sq : sq'[i] = sq[j]
<1>1. sq \in Seq(Request)
  BY DEF TypeOK
<1> QED
  BY <1>1, NumTailed, Tailed

-----------------------------------------------------------------------------
(* Sockets and their numbers                                               *)

\* who is where is settled by the number
LEMMA OneFdEach ==
    ASSUME TypeOK, SocketsInv, NEW fd \in Fds, connections[fd] # NoConn
    PROVE  /\ connections[fd] \in Connection /\ connections[fd].sock \in Sockets
           /\ connections[fd].sock \notin fresh /\ number[connections[fd].sock] = fd
<1>1. connections[fd] \in Connection /\ connections[fd].sock \in Sockets
  BY DEF TypeOK, Connection
<1>2. connections[fd].sock # NoSock
  BY <1>1, Constants
<1> QED
  BY <1>1, <1>2 DEF SocketsInv

LEMMA SocketsFrame ==
    ASSUME SocketsInv, UNCHANGED <<connections, fd_table, number, fresh>>
    PROVE  SocketsInv'
  BY DEF SocketsInv

-----------------------------------------------------------------------------
(* The worker's steps.  A read is queued for the socket of a connection    *)
(* only, and a fd gets a connection only from the accept that handed it    *)
(* out.                                                                    *)

QueuesFor(r) ==
    /\ r \in Request /\ ItsOwn(r)
    /\ r.op = "read" => connections'[r.fd] # NoConn /\ connections'[r.fd].sock = r.sock

Hands ==
    \/ cqe' = Idle /\ ~rearming'
    \/ /\ cqe' \in Completion /\ rearming'
       /\ cqe'.op = "read" /\ cqe'.sock = cqe.sock /\ cqe'.fd = cqe.fd
       /\ cqe.op = "read" /\ ~cqe.more /\ cqe'.more = cqe.more /\ cqe'.holds = {}
       /\ cqe.fd \in muddled' \/ connections'[cqe.fd].sock = cqe.sock

LEMMA Worked ==
    ASSUME TypeOK, TypeOK', FlowInv, SocketsInv', ReadsInv',
           cqe # Idle, Hands, UNCHANGED <<cq, reads, sends, number, fresh>>,
           muddled \subseteq muddled',
           sq' = sq \/ \E r : QueuesFor(r) /\ sq' = Append(sq, r),
           \A fd \in Fds : connections[fd] = NoConn =>
               fd_table'[fd] = fd_table[fd]
               /\ (connections'[fd] = NoConn \/ (NewSocket(cqe) /\ fd = cqe.client))
    PROVE  FlowInv'
<1>1. ItsOwn(cqe) /\ \A r : QueuesFor(r) => r \in Request /\ ItsOwn(r)
  BY DEF FlowInv, OwnersInv, QueuesFor
<1>2. \A i \in DOMAIN sq' : \/ i \in DOMAIN sq /\ sq'[i] = sq[i]
                            \/ QueuesFor(sq'[i])
  <2>1. CASE sq' = sq
    BY <2>1
  <2>2. ASSUME NEW r, QueuesFor(r), sq' = Append(sq, r)
        PROVE  \A i \in DOMAIN sq' : \/ i \in DOMAIN sq /\ sq'[i] = sq[i]
                                     \/ sq'[i] = r
    BY <1>1, <2>2, Appended DEF TypeOK
  <2> QED BY <2>1, <2>2
<1>3. OwnersInv'
  <2>1. \A i \in DOMAIN sq' : ItsOwn(sq'[i])
    BY <1>1, <1>2 DEF FlowInv, OwnersInv
  <2>2. cqe' # Idle => ItsOwn(cqe')
    BY <1>1 DEF Hands, ItsOwn
  <2> QED BY <2>1, <2>2 DEF FlowInv, OwnersInv, ItsOwn
<1>4. ASSUME NEW c \in Completion, NEW i \in DOMAIN cq, c = cq[i], NewSocket(c)
      PROVE  Pending(c)'
  <2>1. Pending(c) /\ c.client \in Fds /\ c.sock \in Sockets
    BY <1>4 DEF FlowInv, NewInv, Completion
  <2>2. NewSocket(cqe) => Pending(cqe) /\ cqe.sock # c.sock
    BY <1>4 DEF FlowInv, NewInv
  <2>3. NewSocket(cqe) => cqe.client # c.client
    BY <2>1, <2>2 DEF Pending
  <2>4. fd_table'[c.client] = c.sock /\ connections'[c.client] = NoConn
    BY <2>1, <2>3 DEF Pending
  <2>5. ASSUME Untouched(c.sock) PROVE Untouched(c.sock)'
    <3>1. ASSUME NEW r, QueuesFor(r), IsRead(r, c.sock) PROVE FALSE
      <4>1. r.fd \in Fds /\ r.fd = number[r.sock] /\ r.sock = c.sock
            /\ connections'[r.fd] # NoConn
        BY <3>1, Constants DEF QueuesFor, IsRead, ItsOwn, Request
      <4> QED BY <2>1, <2>4, <4>1 DEF Pending
    <3>2. NoReadQueued(c.sock)
      BY <1>1, <3>1 DEF NoReadQueued
    <3>3. Handed(c.sock)
      BY <2>5 DEF Untouched, Hands, Handed, IsRead, EndsRead
    <3> QED BY <2>1, <2>5, <3>2, <3>3, WorkerKept
  <2> QED BY <2>1, <2>4, <2>5 DEF Pending
<1>5. NewInv'
  <2>1. cqe' # Idle => ~NewSocket(cqe')
    BY DEF Hands, NewSocket
  <2>2. \A i \in DOMAIN cq : cq[i] \in Completion
    BY ElementOfSeq, LenProperties DEF TypeOK
  <2>3. \A i \in DOMAIN cq' : NewSocket(cq'[i]) => Pending(cq[i])'
    BY <1>4, <2>2
  <2> QED BY <2>1, <2>3 DEF FlowInv, NewInv, NewSocket
<1>6. RearmingInv'
  BY DEF RearmingInv, Hands
<1>7. HoldsInv'
  BY AbsenceAssumption DEF FlowInv, HoldsInv, Hands, Emptied
<1> QED BY <1>3, <1>5, <1>6, <1>7 DEF FlowInv

(* The connections but one keep their reads.                               *)
Aside(fd) ==
    /\ connections'[fd] = connections[fd] /\ (fd \in refused' <=> fd \in refused)
    /\ NoReadQueued(connections[fd].sock) /\ Handed(connections[fd].sock)

LEMMA ReadsWorked ==
    ASSUME TypeOK, TypeOK', ReadsInv, cqe # Idle, UNCHANGED <<cq, reads>>,
           muddled \subseteq muddled',
           \A fd \in Fds, s \in Sockets, g \in Groups, n \in 0 .. 1 :
               Owed(fd, s, g, n)' => Aside(fd) \/ Kept(s, g, n)'
    PROVE  ReadsInv'
<1> SUFFICES ASSUME NEW fd \in Fds, NEW s \in Sockets, NEW g \in Groups, NEW n \in 0 .. 1,
                    Owed(fd, s, g, n)'
             PROVE  Kept(s, g, n)'
  BY DEF ReadsInv
<1>1. CASE Aside(fd)
  <2>1. Owed(fd, s, g, n) /\ connections[fd].sock = s
    BY <1>1 DEF Aside, Owed, Reading, Wanted
  <2>2. Kept(s, g, n) /\ NoReadQueued(s) /\ Handed(s)
    BY <1>1, <2>1 DEF Aside, ReadsInv
  <2> QED BY <2>2, WorkerKept
<1> QED BY <1>1

LEMMA OwnersFd ==
    ASSUME LoopInv, FlowInv, cqe # Idle, cqe.op # "accept"
    PROVE  /\ cqe \in Completion /\ cqe.fd \in Fds /\ cqe.sock \in Sockets
           /\ number[cqe.sock] = cqe.fd /\ cqe.sock \notin fresh \cup Listeners
           /\ \A fd \in Fds : connections[fd] # NoConn /\ connections[fd].sock = cqe.sock
                  => fd = cqe.fd
           /\ connections[cqe.fd] # NoConn => connections[cqe.fd].sock \notin Listeners
           /\ cqe.fd = UdpFd => cqe.sock = UdpFd
<1>1. /\ cqe \in Completion /\ cqe.fd \in Fds /\ cqe.sock \in Sockets
      /\ number[cqe.sock] = cqe.fd /\ cqe.sock \notin fresh \cup Listeners
  BY DEF LoopInv, TypeOK, Completion, FlowInv, OwnersInv, ItsOwn
<1>2. \A fd \in Fds : connections[fd] # NoConn /\ connections[fd].sock = cqe.sock
                         => fd = cqe.fd
  BY <1>1, OneFdEach DEF LoopInv, FlowInv
<1>3. cqe.sock = UdpFd \/ cqe.sock \in Socks \ fresh
  BY <1>1 DEF Sockets
<1>4. connections[cqe.fd] # NoConn => connections[cqe.fd].sock \notin Listeners
  <2>1. CASE cqe.sock = UdpFd
    BY <1>1, <2>1, Constants DEF LoopInv, KernelInv, ConnectionsInv
  <2>2. CASE cqe.sock \in Socks \ fresh
    <3>1. fd_table[cqe.fd] \in Socks \cup {NoSock}
      BY <1>1, <2>2 DEF FlowInv, SocketsInv
    <3>2. Socks \cap Listeners = {}
      BY SocketsAssumption, Constants
    <3> QED BY <1>1, <3>1, <3>2, Constants DEF FlowInv, SocketsInv
  <2> QED BY <1>3, <2>1, <2>2
<1>5. cqe.fd = UdpFd => cqe.sock = UdpFd
  <2> SUFFICES ASSUME cqe.fd = UdpFd, cqe.sock \in Socks \ fresh PROVE FALSE
    BY <1>3
  <2>1. fd_table[UdpFd] \in Socks \cup {NoSock}
    BY <1>1 DEF FlowInv, SocketsInv
  <2>2. fd_table[UdpFd] = UdpFd
    BY Constants DEF LoopInv, KernelInv
  <2> QED BY <2>1, <2>2, Constants
<1> QED
  BY <1>1, <1>2, <1>4, <1>5

(* The handlers that leave the connections alone and queue no read.         *)
LEMMA LeavesConnections ==
    ASSUME LoopInv, LoopInv', FlowInv, cqe # Idle, Hands,
           UNCHANGED <<connections, cq, kernel, refused>>, muddled \subseteq muddled',
           \/ sq' = sq
           \/ \E r \in Request : ItsOwn(r) /\ r.op # "read" /\ sq' = Append(sq, r),
           \A fd \in Fds : Reading(fd) /\ fd \notin muddled' /\ cqe' = Idle =>
               ~EndsRead(cqe, connections[fd].sock)
    PROVE  FlowInv'
<1>1. TypeOK /\ TypeOK' /\ SocketsInv'
  BY SocketsFrame DEF LoopInv, FlowInv, kernel
<1>2. sq' = sq \/ \E r : QueuesFor(r) /\ sq' = Append(sq, r)
  BY DEF QueuesFor
<1>3. ASSUME NEW fd \in Fds, Reading(fd)' PROVE Aside(fd)
  <2>1. Reading(fd)
    BY <1>3 DEF Reading
  <2>2. NoReadQueued(connections[fd].sock)
    BY DEF NoReadQueued, IsRead
  <2>3. Handed(connections[fd].sock)
    BY <1>3, <2>1, AbsenceAssumption DEF Reading, Handed, Hands
  <2> QED BY <2>2, <2>3 DEF Aside
<1>4. ReadsInv'
  <2>1. \A fd \in Fds, s \in Sockets, g \in Groups, n \in 0 .. 1 :
            Owed(fd, s, g, n)' => Aside(fd)
    BY <1>3 DEF Owed
  <2>2. UNCHANGED <<cq, reads>>
    BY DEF kernel
  <2> QED BY <1>1, <2>1, <2>2, ReadsWorked DEF FlowInv
<1>5. UNCHANGED <<cq, reads, sends, number, fresh>>
  BY DEF kernel
<1>6. \A fd \in Fds : connections[fd] = NoConn =>
          fd_table'[fd] = fd_table[fd]
          /\ (connections'[fd] = NoConn \/ (NewSocket(cqe) /\ fd = cqe.client))
  BY DEF kernel
<1> QED
  BY <1>1, <1>2, <1>4, <1>5, <1>6, Worked

LEMMA DeleteContextFlow ==
    ASSUME LoopInv, LoopInv', FlowInv, DeleteContext
    PROVE  FlowInv'
<1>1. cqe # Idle /\ Hands
  BY DEF DeleteContext, Handling, Hands
<1>2. \A s : ~EndsRead(cqe, s)
  BY DEF DeleteContext, Handling, EndsRead
<1> QED
  BY <1>1, <1>2, LeavesConnections DEF DeleteContext

LEMMA DroppedFlow ==
    ASSUME LoopInv, LoopInv', FlowInv, Dropped
    PROVE  FlowInv'
<1>1. cqe # Idle /\ Hands /\ cqe.op # "accept" /\ connections[cqe.fd] = NoConn
  BY DEF Dropped, Hands, Known
<1>2. \A fd \in Fds : Reading(fd) => ~EndsRead(cqe, connections[fd].sock)
  BY <1>1, OwnersFd DEF Reading, EndsRead
<1> QED
  BY <1>1, <1>2, LeavesConnections DEF Dropped

LEMMA OwedOne ==
    ASSUME LoopInv, FlowInv, NEW fd \in Fds, Reading(fd)
    PROVE  \E g \in Groups, n \in 0 .. 1 :
               /\ connections[fd].buf_group = g
               /\ connections[fd].sock \in Sockets
               /\ Kept(connections[fd].sock, g, n)
<1>1. connections[fd] \in Connection /\ connections[fd].buf_group \in Groups
      /\ connections[fd].sock \in Sockets
  BY DEF LoopInv, TypeOK, Reading, Connection
<1>2. Wanted(fd) \in 0 .. 1
  BY DEF Wanted
<1>3. Owed(fd, connections[fd].sock, connections[fd].buf_group, Wanted(fd))
  BY DEF Owed
<1> QED
  BY <1>1, <1>2, <1>3 DEF FlowInv, ReadsInv

(* A short read is none of a connection that should have one.              *)
LEMMA ReadShortFlow ==
    ASSUME LoopInv, LoopInv', FlowInv, ReadShort
    PROVE  FlowInv'
<1>1. /\ cqe # Idle /\ Hands /\ cqe.op = "read" /\ cqe.res = "short" /\ ~rearming
  BY DEF ReadShort, Handling, Hands
<1>2. muddled \subseteq muddled'
  BY <1>1, OwnersFd, MuddleType DEF ReadShort, LoopInv
<1>3. ASSUME NEW fd \in Fds, Reading(fd), EndsRead(cqe, connections[fd].sock) PROVE FALSE
  <2>1. PICK g \in Groups, n \in 0 .. 1 : Kept(connections[fd].sock, g, n)
    BY <1>3, OwedOne
  <2>2. Full(cqe, g)
    BY <1>1, <1>3, <2>1 DEF Kept, Regular, EndsRead, IsRead
  <2> QED BY <1>1, <2>2 DEF Full
<1> QED
  BY <1>1, <1>2, <1>3, LeavesConnections DEF ReadShort

LEMMA MuddledUnless ==
    ASSUME NEW fd, Muddle(fd), connections[fd] # NoConn
    PROVE  fd \in muddled' \/ connections[fd].sock = cqe.sock
  BY DEF Muddle, Known

LEMMA ReadDataFlow ==
    ASSUME LoopInv, LoopInv', FlowInv, ReadData
    PROVE  FlowInv'
<1> DEFINE op == IF connections[cqe.fd].kind = "udp" THEN "sendmsg" ELSE "send"
           r == SendOn(op, cqe.fd, connections[cqe.fd].sock)
<1>1. /\ cqe # Idle /\ ~rearming /\ cqe.op = "read" /\ cqe.res = "ok" /\ Known(cqe.fd)
      /\ QueueWrite(op, cqe.fd) /\ Muddle(cqe.fd)
      /\ IF cqe.more THEN cqe' = Idle /\ UNCHANGED rearming
         ELSE cqe' = [cqe EXCEPT !.holds = {}] /\ rearming' = TRUE
      /\ UNCHANGED <<connections, next_group, cq, kernel, refused>>
  BY DEF ReadData, Reply, Handling
<1>2. /\ cqe \in Completion /\ cqe.fd \in Fds
      /\ connections[cqe.fd] # NoConn /\ connections[cqe.fd] \in Connection
      /\ connections[cqe.fd].sock \in Sockets
      /\ connections[cqe.fd].sock \notin Listeners \cup fresh
      /\ number[connections[cqe.fd].sock] = cqe.fd
  BY <1>1, OwnersFd, OneFdEach DEF LoopInv, FlowInv, Known
<1>3. muddled \subseteq muddled'
  BY <1>1, <1>2, MuddleType DEF LoopInv
<1>4. r \in Request /\ ItsOwn(r) /\ r.op # "read"
  BY <1>2, Constants DEF SendOn, Request, ItsOwn
<1>5. sq' = sq \/ sq' = Append(sq, r)
  BY <1>1 DEF QueueWrite
<1> HIDE DEF op, r
<1>6. cqe.fd \in muddled' \/ connections[cqe.fd].sock = cqe.sock
  BY <1>1, <1>2, MuddledUnless
<1>7. Hands
  <2>1. CASE cqe.more
    BY <1>1, <2>1 DEF Hands
  <2>2. CASE ~cqe.more
    BY <1>1, <1>2, <1>6, <2>2 DEF Hands, Completion
  <2> QED BY <2>1, <2>2
<1>8. cqe' = Idle => cqe.more
  <2>1. ASSUME ~cqe.more PROVE cqe' \in Completion
    BY <1>1, <1>2, <2>1 DEF Completion
  <2> QED BY <2>1, AbsenceAssumption
<1>9. \A s : cqe' = Idle => ~EndsRead(cqe, s)
  BY <1>8 DEF EndsRead
<1> QED
  BY <1>1, <1>3, <1>4, <1>5, <1>7, <1>9, LeavesConnections

(* The handlers that end in queueRead: no read of the socket is left.       *)
LEMMA QueueReadFlow ==
    ASSUME LoopInv, LoopInv', FlowInv, NEW fd \in Fds, NEW conns \in Connections,
           conns[fd] \in Connection, QueueRead(fd, conns),
           \A f \in Fds \ {fd} : conns[f] = connections[f],
           \/ connections[fd] # NoConn /\ conns[fd] = connections[fd]
           \/ NewSocket(cqe) /\ fd = cqe.client /\ conns[fd].sock = cqe.sock,
           conns[fd].sock \notin Listeners,
           cqe # Idle, cqe' = Idle, rearming' = FALSE,
           UNCHANGED <<cq, kernel>>, muddled \subseteq muddled',
           conns[fd].kind # "sync" /\ fd \notin muddled' => Gone(conns[fd].sock),
           \A f \in Fds \ {fd} : Reading(f) /\ f \notin muddled' =>
               ~EndsRead(cqe, connections[f].sock)
    PROVE  FlowInv'
<1>0. PICK s : s = conns[fd].sock
  OBVIOUS
<1> DEFINE r == ReadOn(fd, s, next_group, conns[fd].kind # "sync")
<1>1. TypeOK /\ TypeOK' /\ SocketsInv /\ UNCHANGED <<reads, sends, fresh, number, fd_table>>
  BY DEF LoopInv, FlowInv, kernel
<1>2. s \in Sockets \ fresh /\ number[s] = fd /\ fd_table[fd] = s /\ s \in Sockets
  <2>1. CASE connections[fd] # NoConn /\ conns[fd] = connections[fd]
    BY <1>1, <1>0, <2>1, OneFdEach DEF SocketsInv
  <2>2. CASE NewSocket(cqe) /\ fd = cqe.client /\ conns[fd].sock = cqe.sock
    BY <1>0, <2>2, Constants DEF FlowInv, NewInv, Pending
  <2> QED BY <2>1, <2>2
<1>3. r \in Request /\ ItsOwn(r) /\ IsRead(r, s) /\ r.op = "read" /\ r.fd = fd
      /\ r.sock = s /\ r.group = next_group /\ (conns[fd].kind # "sync" => r.multi)
  BY <1>0, <1>1, <1>2, Constants DEF ReadOn, Request, ItsOwn, IsRead, TypeOK
<1>4. \/ HasSqe /\ sq' = Append(sq, r)
         /\ connections' = [conns EXCEPT ![fd].buf_group = next_group]
         /\ refused' = refused \ {fd}
      \/ ~HasSqe /\ sq' = sq /\ connections' = conns /\ refused' = refused \cup {fd}
  BY <1>0 DEF QueueRead
<1> HIDE DEF r
<1>5. /\ \A f \in Fds \ {fd} : connections'[f] = connections[f]
                               /\ (f \in refused' <=> f \in refused)
      /\ connections'[fd] \in Connection /\ connections'[fd] # NoConn
      /\ connections'[fd].sock = s /\ connections'[fd].kind = conns[fd].kind
  <2>1. conns[fd] \in Connection /\ next_group \in Groups
    BY <1>1 DEF TypeOK
  <2> QED BY <1>0, <1>4, <2>1, AbsenceAssumption DEF Connections, Connection
<1>6. SocketsInv'
  <2>1. \A f \in Fds : connections'[f] # NoConn => fd_table[f] = connections'[f].sock
    BY <1>1, <1>2, <1>5 DEF SocketsInv
  <2> QED BY <1>1, <2>1 DEF SocketsInv
<1>7. sq' = sq \/ \E q : QueuesFor(q) /\ sq' = Append(sq, q)
  BY <1>3, <1>4, <1>5 DEF QueuesFor
<1>8. Hands
  BY DEF Hands
<1>9. ASSUME NEW f \in Fds, Reading(f)', f # fd PROVE Aside(f)
  <2>1. Reading(f) /\ f \notin muddled' /\ connections[f] # NoConn
    BY <1>5, <1>9 DEF Reading
  <2>2. connections[f].sock # s
    BY <1>1, <1>2, <1>9, <2>1, OneFdEach
  <2>3. ~IsRead(r, connections[f].sock)
    BY <1>3, <2>2 DEF IsRead
  <2>4. NoReadQueued(connections[f].sock)
    BY <1>3, <1>4, <2>3 DEF NoReadQueued
  <2>5. Handed(connections[f].sock)
    BY <1>9, <2>1 DEF Handed
  <2> QED BY <1>5, <1>9, <2>4, <2>5 DEF Aside
<1>10. ASSUME NEW g \in Groups, NEW n \in 0 .. 1, Owed(fd, s, g, n)' PROVE Kept(s, g, n)'
  <2>1. Gone(s) /\ conns[fd].kind # "sync" /\ connections'[fd].buf_group = g
    BY <1>0, <1>5, <1>10 DEF Owed, Reading
  <2>2. CASE HasSqe
    <3>1. sq' = Append(sq, r) /\ r.group = g /\ n = 1
      <4>1. connections'[fd].buf_group = next_group
        BY <1>4, <2>2 DEF Connections, Connection
      <4>2. n = 1
        BY <1>4, <1>10, <2>2 DEF Owed, Wanted
      <4> QED BY <1>3, <1>4, <2>1, <2>2, <4>1, <4>2
    <3>2. PICK q : q = r
      OBVIOUS
    <3>3. /\ q \in Request /\ IsRead(q, s) /\ q.multi /\ q.group = g
          /\ sq' = Append(sq, q)
      BY <1>3, <2>1, <3>1, <3>2
    <3>4. Kept(s, q.group, 1)'
      BY <1>1, <1>2, <2>1, <3>3, ReadQueued
    <3>5. Kept(s, g, 1)'
      BY <3>3, <3>4
    <3> QED BY <3>1, <3>5
  <2>3. CASE ~HasSqe
    <3>1. sq' = sq /\ n = 0
      BY <1>4, <1>10, <2>3 DEF Owed, Wanted
    <3> QED BY <1>1, <1>2, <2>1, <3>1, ReadRefused
  <2> QED BY <2>2, <2>3
<1>11. ReadsInv'
  <2>1. ASSUME NEW f \in Fds, NEW t \in Sockets, NEW g \in Groups, NEW n \in 0 .. 1,
               Owed(f, t, g, n)'
        PROVE  Aside(f) \/ Kept(t, g, n)'
    <3>1. CASE f # fd
      BY <1>9, <2>1, <3>1 DEF Owed
    <3>2. CASE f = fd
      <4>1. t = s
        BY <1>5, <2>1, <3>2 DEF Owed
      <4>2. Owed(fd, s, g, n)'
        BY <2>1, <3>2, <4>1
      <4>3. Kept(s, g, n)'
        BY <1>10, <4>2
      <4> QED BY <4>1, <4>3
    <3> QED BY <3>1, <3>2
  <2> QED BY <1>1, <2>1, ReadsWorked DEF FlowInv
<1>12. \A f \in Fds : connections[f] = NoConn =>
           fd_table'[f] = fd_table[f]
           /\ (connections'[f] = NoConn \/ (NewSocket(cqe) /\ f = cqe.client))
  BY <1>1, <1>5
<1> QED
  BY <1>1, <1>6, <1>7, <1>8, <1>11, <1>12, Worked

\* the completion that ends the read of a connection leaves nothing behind
LEMMA EndLeavesNothing ==
    ASSUME LoopInv, FlowInv, NEW fd \in Fds, Reading(fd), cqe # Idle,
           EndsRead(cqe, connections[fd].sock)
    PROVE  Gone(connections[fd].sock)
<1>1. PICK s \in Sockets, g \in Groups, n \in 0 .. 1 :
          s = connections[fd].sock /\ Kept(s, g, n)
  BY OwedOne
<1>2. EndsRead(cqe, s)
  BY <1>1
<1>3. Gone(s)
  BY <1>1, <1>2, EndedIsGone DEF LoopInv
<1> QED BY <1>1, <1>3

LEMMA UdpErrorFlow ==
    ASSUME LoopInv, LoopInv', FlowInv, UdpError
    PROVE  FlowInv'
<1>1. /\ cqe # Idle /\ ~rearming /\ cqe.op = "read" /\ cqe.res = "error" /\ cqe.fd = UdpFd
      /\ QueueRead(UdpFd, connections) /\ cqe' = Idle /\ UNCHANGED <<rearming, muddled>>
      /\ UNCHANGED <<cq, kernel>>
  BY DEF UdpError, Handling
<1>2. cqe.sock = UdpFd /\ connections[UdpFd] # NoConn /\ connections[UdpFd].sock = UdpFd
      /\ connections[UdpFd] \in Connection /\ connections \in Connections /\ UdpFd \in Fds
      /\ UdpFd \notin Listeners
  BY <1>1, OwnersFd, ConnectionsFacts, AbsenceAssumption, Constants
<1>3. connections[UdpFd].kind # "sync" /\ UdpFd \notin muddled => Gone(UdpFd)
  <2> SUFFICES ASSUME connections[UdpFd].kind # "sync", UdpFd \notin muddled
               PROVE  Gone(UdpFd)
    OBVIOUS
  <2>1. Reading(UdpFd)
    BY <1>2 DEF Reading
  <2>2. PICK g \in Groups, n \in 0 .. 1 : Kept(UdpFd, g, n)
    BY <1>2, <2>1, OwedOne
  <2>3. Full(cqe, g)
    BY <1>1, <1>2, <2>2 DEF Kept, Regular, IsRead
  <2>4. EndsRead(cqe, UdpFd)
    BY <1>1, <1>2, <2>3 DEF Full, EndsRead
  <2> QED BY <1>1, <1>2, <2>1, <2>4, EndLeavesNothing
<1>4. \A f \in Fds \ {UdpFd} : Reading(f) => ~EndsRead(cqe, connections[f].sock)
  BY <1>1, OwnersFd DEF Reading, EndsRead
<1>5. rearming' = FALSE /\ muddled \subseteq muddled' /\ muddled' = muddled
  BY <1>1 DEF LoopInv, TypeOK
<1> QED
  BY <1>1, <1>2, <1>3, <1>4, <1>5, QueueReadFlow

LEMMA RearmFlow ==
    ASSUME LoopInv, LoopInv', FlowInv, Rearm
    PROVE  FlowInv'
<1>1. /\ QueueRead(cqe.fd, connections) /\ cqe # Idle /\ cqe' = Idle /\ rearming' = FALSE
      /\ cqe.op = "read" /\ Known(cqe.fd) /\ ~cqe.more
      /\ cqe.fd \in muddled \/ connections[cqe.fd].sock = cqe.sock
      /\ UNCHANGED <<cq, kernel, muddled>>
  BY DEF Rearm, LoopInv, TypeOK, WorkerInv, FlowInv, RearmingInv
<1>2. PICK fd \in Fds : fd = cqe.fd
  BY <1>1, OwnersFd
<1>3. /\ connections[fd] # NoConn /\ connections[fd] \in Connection
      /\ connections \in Connections /\ connections[fd].sock \notin Listeners
  BY <1>1, <1>2, OwnersFd, ConnectionsFacts DEF Known
<1>4. connections[fd].kind # "sync" /\ fd \notin muddled => Gone(connections[fd].sock)
  <2> SUFFICES ASSUME connections[fd].kind # "sync", fd \notin muddled
               PROVE  Gone(connections[fd].sock)
    OBVIOUS
  <2>1. Reading(fd) /\ connections[fd].sock = cqe.sock
    BY <1>1, <1>2, <1>3 DEF Reading
  <2>2. EndsRead(cqe, connections[fd].sock)
    BY <1>1, <2>1 DEF EndsRead
  <2> QED BY <1>1, <2>1, <2>2, EndLeavesNothing
<1>5. \A f \in Fds \ {fd} : Reading(f) => ~EndsRead(cqe, connections[f].sock)
  BY <1>1, <1>2, OwnersFd DEF Reading, EndsRead
<1>6. QueueRead(fd, connections) /\ muddled \subseteq muddled' /\ muddled' = muddled
  BY <1>1, <1>2
<1> QED
  BY <1>1, <1>3, <1>4, <1>5, <1>6, QueueReadFlow

LEMMA WrittenFlow ==
    ASSUME LoopInv, LoopInv', FlowInv, Written
    PROVE  FlowInv'
<1>1. /\ cqe # Idle /\ cqe' = Idle /\ ~rearming /\ cqe.op = "send" /\ Known(cqe.fd)
      /\ Muddle(cqe.fd) /\ UNCHANGED <<rings, cq, rearming, kernel>>
  BY DEF Written, Handling
<1>2. PICK fd \in Fds : fd = cqe.fd
  BY <1>1, OwnersFd
<1>3. /\ connections[fd] # NoConn /\ connections[fd] \in Connection
      /\ connections \in Connections /\ connections[fd].sock \notin Listeners
  BY <1>1, <1>2, OwnersFd, ConnectionsFacts DEF Known
<1>4. \A s : ~EndsRead(cqe, s)
  BY <1>1 DEF EndsRead
<1>5. rearming' = FALSE /\ muddled \subseteq muddled'
  BY <1>1, <1>2, MuddleType DEF LoopInv, TypeOK
<1>6. CASE connections[fd].kind = "sync"
  <2>1. QueueRead(fd, connections)
    BY <1>2, <1>6 DEF Written
  <2> QED
    BY <1>1, <1>3, <1>4, <1>5, <1>6, <2>1, QueueReadFlow
<1>7. CASE connections[fd].kind # "sync"
  <2>1. UNCHANGED <<connections, next_group, sq, refused>>
    BY <1>2, <1>7 DEF Written
  <2>2. Hands
    BY <1>1, <1>5 DEF Hands
  <2> QED
    BY <1>1, <1>4, <1>5, <2>1, <2>2, LeavesConnections
<1> QED BY <1>6, <1>7

LEMMA AcceptedFlow ==
    ASSUME LoopInv, LoopInv', FlowInv, Accepted
    PROVE  FlowInv'
<1> DEFINE kind == IF cqe.fd = TcpFd THEN "tcp" ELSE "sync"
           conn == [kind |-> kind, sock |-> cqe.sock, buf_group |-> 0]
           new == [connections EXCEPT ![cqe.client] = conn]
<1>1. /\ QueueRead(cqe.client, new) /\ cqe # Idle /\ cqe' = Idle /\ ~rearming
      /\ cqe.op = "accept" /\ cqe.res = "ok" /\ NewSocket(cqe) /\ Pending(cqe)
      /\ UNCHANGED <<rings, cq, rearming, kernel, muddled>>
  BY DEF Accepted, Handling, NewSocket, FlowInv, NewInv
<1>2. cqe.client \in Fds /\ cqe.sock \in Sockets
  BY <1>1 DEF LoopInv, TypeOK, Completion
<1>3. conn \in Connection /\ conn.sock = cqe.sock
  BY <1>2, Constants DEF Connection
<1> HIDE DEF conn
<1>4. PICK fd, conns : fd \in Fds /\ fd = cqe.client /\ conns = new
  BY <1>2
<1>5. /\ conns \in Connections /\ conns[fd] = conn
      /\ \A f \in Fds \ {fd} : conns[f] = connections[f]
  BY <1>3, <1>4, ConnectionsFacts DEF Connections
<1> HIDE DEF new
<1>6. cqe.sock \notin Listeners
  <2>1. Socks \cap Listeners = {}
    BY SocketsAssumption, Constants
  <2> QED BY <1>1, <2>1 DEF Pending
<1>7. fd \notin muddled' => Gone(conns[fd].sock)
  BY <1>1, <1>3, <1>4, <1>5 DEF Pending, Untouched, Gone
<1>8. \A s : ~EndsRead(cqe, s)
  BY <1>1 DEF EndsRead
<1>9. rearming' = FALSE /\ muddled \subseteq muddled'
  BY <1>1 DEF LoopInv, TypeOK
<1>10. QueueRead(fd, conns) /\ conns[fd] \in Connection /\ conns[fd].sock \notin Listeners
       /\ conns[fd].sock = cqe.sock
  BY <1>1, <1>3, <1>4, <1>5, <1>6
<1> QED
  BY <1>1, <1>4, <1>5, <1>7, <1>8, <1>9, <1>10, QueueReadFlow

(* What an error closes owes no read any more.                              *)
LEMMA ClosingFlow ==
    ASSUME LoopInv, LoopInv', FlowInv, NEW fd \in Fds, Closing(fd),
           cqe # Idle, cqe' = Idle, rearming' = FALSE,
           UNCHANGED <<cq, reads, sends, number, fresh>>, muddled \subseteq muddled',
           \/ sq' = sq
           \/ \E r \in Request : ItsOwn(r) /\ r.op # "read" /\ sq' = Append(sq, r),
           \A f \in Fds \ {fd} : /\ f \in refused' <=> f \in refused
                                 /\ Reading(f) => ~EndsRead(cqe, connections[f].sock)
    PROVE  FlowInv'
<1>1. TypeOK /\ TypeOK' /\ Hands
  BY DEF LoopInv, Hands
<1>2. /\ connections'[fd] = NoConn
      /\ \A f \in Fds \ {fd} : connections'[f] = connections[f] /\ fd_table'[f] = fd_table[f]
      /\ fd_table'[fd] = NoSock \/ fd_table'[fd] = fd_table[fd]
      /\ connections[fd] = NoConn => fd_table'[fd] = fd_table[fd]
  BY <1>1 DEF Closing, Close, Known, TypeOK
<1>3. SocketsInv'
  <2>1. \A f \in Fds : fd_table'[f] = fd_table[f] \/ fd_table'[f] = NoSock
    BY <1>2
  <2>2. \A f \in Fds : connections'[f] # NoConn => fd_table'[f] = connections'[f].sock
    BY <1>2 DEF FlowInv, SocketsInv
  <2>3. \A f \in Fds : fd_table'[f] # NoSock =>
            fd_table'[f] \notin fresh' /\ number'[fd_table'[f]] = f
    BY <2>1 DEF FlowInv, SocketsInv
  <2>4. \A s \in Socks \ fresh' : fd_table'[number'[s]] \in Socks \cup {NoSock}
    <3>1. \A s \in Socks : number[s] \in Fds
      BY <1>1, Constants DEF TypeOK
    <3> QED BY <2>1, <3>1 DEF FlowInv, SocketsInv
  <2> QED BY <2>2, <2>3, <2>4 DEF SocketsInv
<1>4. sq' = sq \/ \E r : QueuesFor(r) /\ sq' = Append(sq, r)
  BY DEF QueuesFor
<1>5. ASSUME NEW f \in Fds, Reading(f)' PROVE Aside(f)
  <2>1. Reading(f) /\ f # fd
    BY <1>2, <1>5 DEF Reading
  <2>2. NoReadQueued(connections[f].sock)
    BY DEF NoReadQueued, IsRead
  <2>3. Handed(connections[f].sock)
    BY <2>1 DEF Handed
  <2> QED BY <1>2, <2>1, <2>2, <2>3 DEF Aside
<1>6. ReadsInv'
  <2>1. \A f \in Fds, s \in Sockets, g \in Groups, n \in 0 .. 1 :
            Owed(f, s, g, n)' => Aside(f)
    BY <1>5 DEF Owed
  <2> QED BY <1>1, <2>1, ReadsWorked DEF FlowInv
<1>7. \A f \in Fds : connections[f] = NoConn =>
          fd_table'[f] = fd_table[f]
          /\ (connections'[f] = NoConn \/ (NewSocket(cqe) /\ f = cqe.client))
  BY <1>2
<1> QED
  BY <1>1, <1>3, <1>4, <1>6, <1>7, Worked

LEMMA ClientErrorFlow ==
    ASSUME LoopInv, LoopInv', FlowInv, ClientError
    PROVE  FlowInv'
<1>1. /\ cqe # Idle /\ cqe' = Idle /\ ~rearming /\ cqe.op # "accept"
      /\ Muddle(cqe.fd) /\ Closing(cqe.fd)
      /\ UNCHANGED <<sq, cq, rearming, number, reads, sends, fresh, refused>>
  BY DEF ClientError, Closing
<1>2. PICK fd \in Fds : fd = cqe.fd
  BY <1>1, OwnersFd
<1>3. rearming' = FALSE /\ muddled \subseteq muddled'
  BY <1>1, <1>2, MuddleType DEF LoopInv, TypeOK
<1>4. \A f \in Fds \ {fd} : Reading(f) => ~EndsRead(cqe, connections[f].sock)
  BY <1>1, <1>2, OwnersFd DEF Reading, EndsRead
<1> QED
  BY <1>1, <1>2, <1>3, <1>4, ClosingFlow

LEMMA AcceptErrorFlow ==
    ASSUME LoopInv, LoopInv', FlowInv, AcceptError
    PROVE  FlowInv'
<1>1. /\ cqe # Idle /\ cqe' = Idle /\ ~rearming /\ cqe.op = "accept"
      /\ Muddle(cqe.fd) /\ Closing(cqe.fd) /\ QueueMultishotAccept(cqe.fd)
      /\ UNCHANGED <<cq, rearming, number, reads, sends, fresh>>
  BY DEF AcceptError, Closing, Handling
<1>2. PICK fd \in Fds : fd = cqe.fd
  BY <1>1, ConnectionsFacts
<1>3. rearming' = FALSE /\ muddled \subseteq muddled'
  BY <1>1, <1>2, MuddleType DEF LoopInv, TypeOK
<1>4. \A s : ~EndsRead(cqe, s)
  BY <1>1 DEF EndsRead
<1>5. /\ sq' = sq \/ \E r \in Request : ItsOwn(r) /\ r.op # "read" /\ sq' = Append(sq, r)
      /\ \A f \in Fds \ {fd} : f \in refused' <=> f \in refused
  <2>1. fd \in Listeners
    BY <1>1, <1>2, ConnectionsFacts DEF CompletionOk
  <2>2. /\ AcceptOn(fd) \in Request /\ ItsOwn(AcceptOn(fd)) /\ AcceptOn(fd).op # "read"
    BY <2>1, Constants DEF AcceptOn, Request, ItsOwn
  <2> QED BY <1>1, <1>2, <2>2 DEF QueueMultishotAccept
<1> QED
  BY <1>1, <1>2, <1>3, <1>4, <1>5, ClosingFlow

LEMMA WaitFlow ==
    ASSUME LoopInv, LoopInv', FlowInv, Wait
    PROVE  FlowInv'
<1>1. /\ Head(cq) \in Completion /\ 1 \in DOMAIN cq /\ Head(cq) = cq[1] /\ cq \in Seq(Completion)
      /\ \A i \in DOMAIN Tail(cq) : i + 1 \in DOMAIN cq /\ Tail(cq)[i] = cq[i + 1] /\ i \in Nat \ {0}
  BY Tailed DEF LoopInv, TypeOK, Wait
<1>2. /\ cqe' = Head(cq) /\ cq' = Tail(cq) /\ cqe = Idle /\ ~rearming /\ rearming' = rearming
      /\ UNCHANGED <<sq, connections, next_group, rings, kernel, refused, muddled>>
  BY DEF Wait, LoopInv, TypeOK
<1>3. /\ cqe' = cq[1] /\ 1 \in DOMAIN cq
      /\ \A i \in DOMAIN cq' : i + 1 \in DOMAIN cq /\ cq'[i] = cq[i + 1] /\ i \in Nat \ {0}
  BY <1>1, <1>2
<1>4. /\ TypeOK /\ TypeOK' /\ SocketsInv'
      /\ UNCHANGED <<fd_table, number, fresh, reads, sends>>
  BY <1>2, SocketsFrame DEF LoopInv, FlowInv, kernel
<1>5. OwnersInv'
  BY <1>2, <1>3, <1>4 DEF FlowInv, OwnersInv, ItsOwn
<1>6. ASSUME NEW c \in Completion, NEW i \in DOMAIN cq, c = cq[i], NewSocket(c)
      PROVE  Pending(c)'
  <2>1. Pending(c) /\ c.sock \in Sockets
    BY <1>6 DEF FlowInv, NewInv, Completion
  <2>2. Untouched(c.sock) => Untouched(c.sock)'
    BY <1>2, <1>4, <2>1, WaitKept
  <2> QED BY <1>2, <1>4, <2>1, <2>2 DEF Pending
<1>7. NewInv'
  <2>1. \A i \in DOMAIN cq : cq[i] \in Completion /\ (NewSocket(cq[i]) => Pending(cq[i]))
    BY ElementOfSeq, LenProperties DEF LoopInv, TypeOK, FlowInv, NewInv
  <2>2. ASSUME NEW i \in DOMAIN cq', NewSocket(cq'[i]) PROVE Pending(cq[i])'
    <3>1. PICK c \in Completion : c = cq'[i] /\ c = cq[i + 1] /\ i + 1 \in DOMAIN cq
      BY <1>3, <2>1
    <3> QED BY <1>6, <2>2, <3>1
  <2>3. NewSocket(cqe') => Pending(cqe)'
    <3> SUFFICES ASSUME NewSocket(cqe') PROVE Pending(cqe)'
      OBVIOUS
    <3>1. PICK c \in Completion : c = cqe' /\ c = cq[1]
      BY <1>3, <2>1
    <3> QED BY <1>3, <1>6, <3>1
  <2>4. ASSUME NEW i \in DOMAIN cq', NEW j \in DOMAIN cq', NewSocket(cq'[i]), NewSocket(cq'[j]),
               cq'[i].sock = cq'[j].sock
        PROVE  i = j
    <3>1. i + 1 = j + 1 /\ i \in Nat /\ j \in Nat
      BY <1>3, <2>4 DEF FlowInv, NewInv
    <3> QED BY <3>1
  <2>5. ASSUME NewSocket(cqe'), NEW i \in DOMAIN cq', NewSocket(cq'[i]), cq'[i].sock = cqe'.sock
        PROVE  FALSE
    <3>1. i + 1 = 1 /\ i \in Nat \ {0}
      BY <1>3, <2>5 DEF FlowInv, NewInv
    <3> QED BY <3>1
  <2> QED BY <2>2, <2>3, <2>4, <2>5 DEF NewInv, NewSocket
<1>8. ReadsInv'
  <2> SUFFICES ASSUME NEW fd \in Fds, NEW s \in Sockets, NEW g \in Groups, NEW n \in 0 .. 1,
                      Owed(fd, s, g, n)'
               PROVE  Kept(s, g, n)'
    BY DEF ReadsInv
  <2>1. Owed(fd, s, g, n)
    BY <1>2 DEF Owed, Reading, Wanted
  <2> QED BY <1>2, <1>4, <2>1, WaitKept DEF FlowInv, ReadsInv
<1>9. RearmingInv' /\ HoldsInv'
  BY <1>2, <1>3 DEF RearmingInv, FlowInv, HoldsInv, Emptied
<1> QED BY <1>4, <1>5, <1>7, <1>8, <1>9 DEF FlowInv

-----------------------------------------------------------------------------
(* The kernel's steps.  A completion takes the place of the submission or   *)
(* the read it ends.                                                       *)

Moves(s, g, c) ==
    /\ NumIn(sq', ReadsOf(s)) + Len(reads'[s]) + (IF c \in EndsOf(s) THEN 1 ELSE 0)
           = NumIn(sq, ReadsOf(s)) + Len(reads[s])
    /\ \A i \in DOMAIN reads'[s] : reads'[s][i].group = g /\ reads'[s][i].multi
    /\ IsRead(c, s) => Full(c, g) /\ NumIn(sq, ReadsOf(s)) + Len(reads[s]) > 0

LEMMA PostFacts ==
    ASSUME LoopInv, NEW c \in Completion, NEW met \in SUBSET Fds, Post(c, met)
    PROVE  /\ cq' = Append(cq, c) /\ muddled \subseteq muddled' /\ met \subseteq muddled'
           /\ cqe' = Idle <=> cqe = Idle
           /\ \/ cqe' = cqe
              \/ /\ cqe # Idle /\ cqe.op = "read" /\ cqe.fd \in muddled' /\ ~rearming
                 /\ cqe' \in Completion /\ cqe'.op = "read" /\ cqe'.res # "error"
                 /\ cqe'.sock = cqe.sock /\ cqe'.fd = cqe.fd /\ cqe'.more = cqe.more
                 /\ cqe'.holds = cqe.holds
<1>1. CASE Overwrites
  <2>1. PICK res \in {"ok", "short"} : cqe' = [cqe EXCEPT !.buf = c.buf, !.res = res]
    BY <1>1 DEF Post
  <2>2. cqe \in Completion /\ cqe # Idle /\ cqe.op = "read" /\ ~rearming /\ c.buf \in Bufs
    BY <1>1 DEF Overwrites, LoopInv, TypeOK, Completion
  <2>3. /\ cqe' \in Completion /\ cqe'.op = "read" /\ cqe'.res # "error"
        /\ cqe'.sock = cqe.sock /\ cqe'.fd = cqe.fd /\ cqe'.more = cqe.more
        /\ cqe'.holds = cqe.holds
    BY <2>1, <2>2 DEF Completion
  <2>4. cq' = Append(cq, c) /\ muddled' = muddled \cup met \cup {cqe.fd}
    BY <1>1 DEF Post
  <2> QED BY <2>2, <2>3, <2>4, AbsenceAssumption
<1>2. CASE ~Overwrites
  BY <1>2 DEF Post
<1> QED BY <1>1, <1>2

LEMMA PostFlow ==
    ASSUME LoopInv, LoopInv', FlowInv, NEW c \in Completion, NEW met \in SUBSET Fds,
           Post(c, met), UNCHANGED worker,
           SocketsInv', ItsOwn(c)', Emptied(c),
           NewSocket(c) => Pending(c)' /\ c.sock \in fresh,
           \A s \in Sockets \ fresh : s \notin fresh' /\ number'[s] = number[s],
           \A f \in Fds : fd_table[f] # NoSock => fd_table'[f] = fd_table[f],
           \A i \in DOMAIN sq' : \E j \in DOMAIN sq : sq'[i] = sq[j],
           \A s \in fresh' \cup Listeners : reads'[s] = <<>> /\ sends'[s] = 0,
           \A s \in Socks \ fresh : Untouched(s) /\ number[s] \notin muddled' =>
               reads'[s] = <<>> /\ ~IsRead(c, s),
           \A fd \in Fds, s \in Sockets, g \in Groups, n \in 0 .. 1 :
               fd \notin muddled' /\ Owed(fd, s, g, n) /\ Kept(s, g, n) => Moves(s, g, c)
    PROVE  FlowInv'
<1>1. /\ cq' = Append(cq, c) /\ muddled \subseteq muddled'
      /\ cqe' = Idle <=> cqe = Idle
      /\ \/ cqe' = cqe
         \/ /\ cqe # Idle /\ cqe.op = "read" /\ cqe.fd \in muddled' /\ ~rearming
            /\ cqe' \in Completion /\ cqe'.op = "read" /\ cqe'.res # "error"
            /\ cqe'.sock = cqe.sock /\ cqe'.fd = cqe.fd /\ cqe'.more = cqe.more
            /\ cqe'.holds = cqe.holds
  BY PostFacts
<1>2. TypeOK /\ TypeOK' /\ UNCHANGED <<connections, rearming, refused>>
  BY DEF LoopInv, worker
<1>3. /\ \A i \in DOMAIN sq : sq[i] \in Request
      /\ \A i \in DOMAIN cq : cq[i] \in Completion
      /\ cqe # Idle => cqe \in Completion
  BY <1>2, ElementOfSeq, LenProperties DEF TypeOK
<1>4. /\ \A i \in DOMAIN cq' : \/ i \in DOMAIN cq /\ cq'[i] = cq[i]
                               \/ i = Len(cq) + 1 /\ cq'[i] = c
      /\ \A i \in DOMAIN cq : i # Len(cq) + 1
  <2>1. cq \in Seq(Completion)
    BY <1>2 DEF TypeOK
  <2> QED BY <1>1, <2>1, Appended, LenProperties
<1>5. ASSUME NEW x \in Request \cup Completion, ItsOwn(x) PROVE ItsOwn(x)'
  BY <1>5 DEF ItsOwn, Request, Completion
<1>6. OwnersInv'
  <2>1. \A i \in DOMAIN sq : ItsOwn(sq[i]) /\ sq[i] \in Request
    BY <1>3 DEF FlowInv, OwnersInv
  <2>2. ASSUME NEW i \in DOMAIN sq' PROVE ItsOwn(sq[i])'
    <3>1. PICK x \in Request : x = sq'[i] /\ ItsOwn(x)
      BY <2>1
    <3>2. ItsOwn(x)'
      BY <1>5, <3>1
    <3> QED BY <3>1, <3>2 DEF ItsOwn
  <2>3. ASSUME NEW i \in DOMAIN cq' PROVE ItsOwn(cq[i])'
    <3>1. PICK x \in Completion : x = cq'[i] /\ (ItsOwn(x) \/ x = c)
      BY <1>3, <1>4 DEF FlowInv, OwnersInv
    <3>2. ItsOwn(x)'
      BY <1>5, <3>1
    <3> QED BY <3>1, <3>2 DEF ItsOwn
  <2>4. cqe' # Idle => ItsOwn(cqe)'
    <3> SUFFICES ASSUME cqe' # Idle PROVE ItsOwn(cqe)'
      OBVIOUS
    <3>1. PICK x \in Completion : x = cqe /\ ItsOwn(x)
      BY <1>1, <1>3 DEF FlowInv, OwnersInv
    <3>2. ItsOwn(x)'
      BY <1>5, <3>1
    <3> QED BY <1>1, <3>1, <3>2 DEF ItsOwn
  <2> QED BY <2>2, <2>3, <2>4 DEF OwnersInv
<1>7. ASSUME NEW s \in Sockets, cqe # Idle /\ IsRead(cqe, s) => cqe.fd \notin muddled'
      PROVE  Spared(s)
  BY <1>1, <1>7 DEF Spared, IsRead
<1>8. ASSUME NEW x \in Completion, NewSocket(x), Pending(x) PROVE Pending(x)'
  <2>1. /\ x.client \in Fds /\ x.sock \in Sockets /\ fd_table[x.client] # NoSock
        /\ x.sock \in Socks \ fresh /\ number[x.sock] = x.client
    BY <1>8, Constants DEF Pending, Completion
  <2>2. /\ fd_table'[x.client] = x.sock /\ connections'[x.client] = NoConn
        /\ x.sock \in Socks \ fresh' /\ number'[x.sock] = x.client
    BY <1>2, <1>8, <2>1 DEF Pending
  <2>3. ASSUME x.client \notin muddled' PROVE Untouched(x.sock)'
    <3>1. Untouched(x.sock)
      BY <1>1, <1>8, <2>3 DEF Pending
    <3>2. Spared(x.sock)
      BY <1>7, <2>1, <3>1 DEF Untouched
    <3>3. reads'[x.sock] = <<>> /\ ~IsRead(c, x.sock)
      BY <2>1, <2>3, <3>1
    <3>4. \A i \in DOMAIN sq' : ~IsRead(sq'[i], x.sock)
      BY <3>1 DEF Untouched
    <3> QED BY <1>1, <1>2, <3>1, <3>2, <3>3, <3>4, PostUntouched
  <2> QED BY <2>2, <2>3 DEF Pending
<1>9. NewInv'
  <2>1. ASSUME NEW i \in DOMAIN cq', NewSocket(cq'[i]) PROVE Pending(cq[i])'
    <3>1. PICK x \in Completion : x = cq'[i] /\ (x = c \/ (NewSocket(x) /\ Pending(x)))
      BY <1>3, <1>4, <2>1 DEF FlowInv, NewInv
    <3>2. Pending(x)'
      BY <1>8, <2>1, <3>1
    <3> QED BY <3>1, <3>2
  <2>2. ASSUME cqe' # Idle, NewSocket(cqe') PROVE Pending(cqe)'
    <3>1. PICK x \in Completion : x = cqe' /\ x = cqe /\ Pending(x)
      BY <1>1, <1>3, <2>2 DEF NewSocket, FlowInv, NewInv
    <3>2. Pending(x)'
      BY <1>8, <2>2, <3>1
    <3> QED BY <3>1, <3>2
  <2>3. \A i \in DOMAIN cq : NewSocket(cq[i]) => cq[i].sock \notin fresh
    BY DEF FlowInv, NewInv, Pending
  <2>4. ASSUME NEW i \in DOMAIN cq', NEW j \in DOMAIN cq', NewSocket(cq'[i]), NewSocket(cq'[j]),
               cq'[i].sock = cq'[j].sock
        PROVE  i = j
    BY <1>4, <2>3, <2>4 DEF FlowInv, NewInv
  <2>5. ASSUME cqe' # Idle, NewSocket(cqe'), NEW i \in DOMAIN cq', NewSocket(cq'[i]),
               cq'[i].sock = cqe'.sock
        PROVE  FALSE
    <3>1. cqe' = cqe /\ cqe.sock \notin fresh
      BY <1>1, <2>5 DEF NewSocket, FlowInv, NewInv, Pending
    <3> QED BY <1>4, <2>5, <3>1 DEF FlowInv, NewInv
  <2> QED BY <2>1, <2>2, <2>4, <2>5 DEF NewInv, NewSocket
<1>10. ReadsInv'
  <2> SUFFICES ASSUME NEW fd \in Fds, NEW s \in Sockets, NEW g \in Groups, NEW n \in 0 .. 1,
                      Owed(fd, s, g, n)'
               PROVE  Kept(s, g, n)'
    BY DEF ReadsInv
  <2>1. Owed(fd, s, g, n) /\ fd \notin muddled' /\ connections[fd] # NoConn
        /\ connections[fd].sock = s
    BY <1>1, <1>2 DEF Owed, Reading, Wanted
  <2>2. Kept(s, g, n)
    BY <2>1 DEF FlowInv, ReadsInv
  <2>3. Moves(s, g, c)
    BY <2>1, <2>2
  <2>4. Spared(s)
    <3>1. number[s] = fd
      BY <1>2, <2>1, OneFdEach DEF FlowInv
    <3> QED BY <1>7, <2>1, <3>1 DEF FlowInv, OwnersInv, ItsOwn, IsRead
  <2>5. \A i \in DOMAIN sq' : IsRead(sq'[i], s) => sq'[i].group = g /\ sq'[i].multi
    BY <2>2 DEF Kept, Regular
  <2> QED BY <1>1, <1>2, <2>2, <2>3, <2>4, <2>5, PostKept DEF Moves
<1>11. RearmingInv'
  BY <1>1, <1>2 DEF FlowInv, RearmingInv
<1>12. HoldsInv'
  <2>1. \A i \in DOMAIN cq' : Emptied(cq'[i])
    BY <1>4 DEF FlowInv, HoldsInv
  <2>2. cqe' # Idle => Emptied(cqe')
    BY <1>1 DEF FlowInv, HoldsInv, Emptied
  <2> QED BY <2>1, <2>2 DEF HoldsInv
<1> QED BY <1>6, <1>9, <1>10, <1>11, <1>12 DEF FlowInv

LEMMA StillMoves ==
    ASSUME TypeOK, NEW s \in Sockets, NEW g, NEW n, Kept(s, g, n), NEW c, ~IsRead(c, s),
           sq' = sq, reads'[s] = reads[s]
    PROVE  Moves(s, g, c)
<1>1. c \notin EndsOf(s)
  BY DEF EndsOf, EndsRead, IsRead
<1>2. Numbered(s)
  BY AllNumbered
<1> QED BY <1>1, <1>2 DEF Moves, Kept, Regular, Numbered

LEMMA WithoutLen ==
    ASSUME NEW S, NEW q \in Seq(S), NEW i \in DOMAIN q
    PROVE  Len(Without(q, i)) = Len(q) - 1
<1> DEFINE low == SubSeq(q, 1, i - 1)
           high == SubSeq(q, i + 1, Len(q))
<1>1. i \in 1 .. Len(q) /\ DOMAIN q = 1 .. Len(q) /\ Len(q) \in Nat
  OBVIOUS
<1>2. \A j \in 1 .. Len(q) : q[j] \in S
  BY <1>1
<1>3. low \in Seq(S) /\ Len(low) = i - 1
  BY <1>1, <1>2, SubSeqProperties
<1>4. high \in Seq(S) /\ Len(high) = Len(q) - i
  <2>1. /\ high \in Seq(S)
        /\ Len(high) = IF i + 1 <= Len(q) THEN Len(q) - (i + 1) + 1 ELSE 0
    BY <1>1, <1>2, SubSeqProperties
  <2> QED BY <1>1, <2>1
<1> HIDE DEF low, high
<1>5. Len(low \o high) = Len(low) + Len(high)
  BY <1>3, <1>4, ConcatProperties
<1> QED
  BY <1>1, <1>3, <1>4, <1>5 DEF Without, low, high

\* a read of t ends with the completion c
LEMMA EndMoves ==
    ASSUME LoopInv, NEW t \in Sockets, NEW i \in DOMAIN reads[t], sq' = sq,
           reads' = [reads EXCEPT ![t] = Without(reads[t], i)],
           NEW c \in Completion, EndsRead(c, t),
           NEW s \in Sockets, NEW g, NEW n, Kept(s, g, n), s = t => Full(c, g)
    PROVE  Moves(s, g, c)
<1>1. TypeOK /\ reads \in [Sockets -> Seq(ReadRecord)] /\ Numbered(s)
  BY AllNumbered DEF LoopInv, TypeOK, ReadRecord
<1>2. CASE s # t
  <2>1. reads'[s] = reads[s] /\ ~IsRead(c, s)
    BY <1>1, <1>2 DEF EndsRead, IsRead
  <2> QED BY <1>1, <2>1, StillMoves
<1>3. CASE s = t
  <2> DEFINE w == Without(reads[t], i)
  <2>1. /\ Len(w) = Len(reads[t]) - 1 /\ w \in Seq(ReadRecord)
        /\ \A j \in DOMAIN w : \E k \in DOMAIN reads[t] : w[j] = reads[t][k]
    BY <1>1, WithoutLen, WithoutOne
  <2> HIDE DEF w
  <2>2. reads'[s] = w
    BY <1>1, <1>3 DEF w
  <2>3. c \in EndsOf(s) /\ IsRead(c, s)
    BY <1>3 DEF EndsOf, EndsRead, IsRead
  <2>4. \A j \in DOMAIN w : w[j].group = g /\ w[j].multi
    BY <1>3, <2>1 DEF Kept, Regular
  <2>5. Len(reads[s]) > 0
    <3>1. reads[s] \in Seq(ReadRecord) /\ i \in DOMAIN reads[s]
      BY <1>1, <1>3
    <3> QED BY <3>1
  <2>6. Len(w) + 1 = Len(reads[s])
    BY <1>1, <1>3, <2>1 DEF Numbered
  <2>7. Len(w) \in Nat
    BY <2>1
  <2>8. NumIn(sq', ReadsOf(s)) + Len(reads'[s]) + (IF c \in EndsOf(s) THEN 1 ELSE 0)
          = NumIn(sq, ReadsOf(s)) + Len(reads[s])
    <3>1. NumIn(sq, ReadsOf(s)) \in Nat /\ Len(reads[s]) \in Nat
      BY <1>1 DEF Numbered
    <3>2. NumIn(sq', ReadsOf(s)) = NumIn(sq, ReadsOf(s)) /\ Len(reads'[s]) = Len(w)
      BY <2>2
    <3> HIDE DEF Kept
    <3> QED BY <2>3, <2>6, <2>7, <3>1, <3>2
  <2>9. Full(c, g) /\ NumIn(sq, ReadsOf(s)) + Len(reads[s]) > 0
    BY <1>1, <1>3, <2>5 DEF Numbered
  <2>10. \A j \in DOMAIN reads'[s] : reads'[s][j].group = g /\ reads'[s][j].multi
    BY <2>2, <2>4
  <2> QED BY <2>8, <2>9, <2>10 DEF Moves
<1> QED BY <1>2, <1>3

LEMMA ReadersOwn ==
    ASSUME LoopInv, FlowInv, NEW t \in Sockets, NEW i \in DOMAIN reads[t]
    PROVE  /\ t \notin fresh \cup Listeners /\ reads[t] # <<>>
           /\ number[t] \in Fds
<1>1. reads[t] # <<>>
  OBVIOUS
<1> QED BY <1>1, ReadFacts DEF FlowInv, OwnersInv

LEMMA MessageFlow ==
    ASSUME LoopInv, LoopInv', FlowInv, NEW t \in Sockets, NEW i \in DOMAIN reads[t],
           NEW b \in Bufs, NEW res \in {"ok", "short"}, NEW more \in BOOLEAN,
           Message(t, i, b, res, more)
    PROVE  FlowInv'
<1>0. PICK h, num, m : h = reads[t][i].group /\ num = number[t] /\ m = reads[t][i].multi
  OBVIOUS
<1> DEFINE c == [Ended("read", num, t, res) EXCEPT
                    !.more = more, !.buf = b, !.holds = {<<h, b>>}]
<1>1. /\ IF m THEN res = "ok" ELSE ~more
      /\ reads' = IF more THEN reads ELSE [reads EXCEPT ![t] = Without(reads[t], i)]
      /\ Post(c, {})
      /\ UNCHANGED <<worker, sq, fd_table, number, accepting, sends, fresh>>
  BY <1>0 DEF Message
<1>2. h \in Groups /\ num \in Fds /\ t \notin fresh \cup Listeners /\ reads[t] # <<>>
      /\ m \in BOOLEAN
  BY <1>0, ReadFacts, ReadersOwn
<1>3. /\ c \in Completion /\ c.op = "read" /\ c.fd = num /\ c.sock = t
      /\ c.res = res /\ c.more = more /\ c.buf = b /\ c.holds = {<<h, b>>}
  <2> DEFINE e == Ended("read", num, t, res)
  <2>1. e \in Completion /\ e.op = "read" /\ e.fd = num /\ e.sock = t /\ e.res = res
    BY <1>2, Constants DEF Ended, Completion
  <2> HIDE DEF e
  <2>2. PICK hs : hs = {<<h, b>>}
    OBVIOUS
  <2>3. hs \in SUBSET (Groups \X Bufs)
    BY <1>2, <2>2
  <2>4. c = [e EXCEPT !.more = more, !.buf = b, !.holds = hs]
    BY <2>2, Zenon DEF e
  <2> HIDE DEF c
  <2>5. /\ c \in Completion /\ c.op = "read" /\ c.fd = num /\ c.sock = t
        /\ c.res = res /\ c.more = more /\ c.buf = b /\ c.holds = hs
    BY <2>1, <2>3, <2>4 DEF Completion
  <2> QED BY <2>2, <2>5
<1> HIDE DEF c
<1>4. ItsOwn(c)' /\ Emptied(c) /\ ~NewSocket(c)
  BY <1>0, <1>1, <1>2, <1>3 DEF ItsOwn, Emptied, NewSocket
<1>5. SocketsInv'
  BY <1>1, SocketsFrame DEF FlowInv, worker
<1>6. \A s \in Sockets : s # t => reads'[s] = reads[s]
  BY <1>1 DEF LoopInv, TypeOK
<1>7. /\ \A s \in fresh' \cup Listeners : reads'[s] = <<>> /\ sends'[s] = 0
      /\ \A s \in Socks : Untouched(s) => reads'[s] = <<>> /\ ~IsRead(c, s)
  BY <1>1, <1>2, <1>3, <1>6, Constants DEF FlowInv, OwnersInv, Untouched, IsRead, LoopInv, TypeOK
<1>8. ASSUME NEW s \in Sockets, NEW g \in Groups, NEW n, Kept(s, g, n)
      PROVE  Moves(s, g, c)
  <2>1. s = t => Full(c, g)
    <3> SUFFICES ASSUME s = t PROVE Full(c, g)
      OBVIOUS
    <3>1. h = g /\ m
      BY <1>0, <1>8 DEF Kept, Regular
    <3> QED BY <1>1, <1>3, <3>1 DEF Full
  <2>2. CASE ~more
    <3>1. EndsRead(c, t)
      BY <1>3, <2>2 DEF EndsRead
    <3> QED BY <1>1, <1>3, <1>8, <2>1, <2>2, <3>1, EndMoves
  <2>3. CASE more
    <3>1. reads' = reads /\ sq' = sq /\ c \notin EndsOf(s)
      BY <1>1, <1>3, <2>3 DEF EndsOf, EndsRead
    <3>2. IsRead(c, s) => s = t
      BY <1>3 DEF IsRead
    <3>3. Numbered(s) /\ Numbered(t)
      BY AllNumbered DEF LoopInv
    <3>4. Len(reads[t]) > 0
      BY <1>2, <3>3 DEF Numbered
    <3>5. Len(reads[t]) > 0 /\ NumIn(sq, ReadsOf(t)) \in Nat /\ Len(reads[t]) \in Nat
      BY <3>3, <3>4 DEF Numbered
    <3>6. IsRead(c, s) => NumIn(sq, ReadsOf(s)) + Len(reads[s]) > 0
      BY <3>2, <3>5
    <3>7. \A j \in DOMAIN reads[s] : reads[s][j].group = g /\ reads[s][j].multi
      BY <1>8 DEF Kept, Regular
    <3>8. NumIn(sq', ReadsOf(s)) + Len(reads'[s]) + (IF c \in EndsOf(s) THEN 1 ELSE 0)
              = NumIn(sq, ReadsOf(s)) + Len(reads[s])
      BY <3>1, <3>3 DEF Numbered
    <3>9. IsRead(c, s) => Full(c, g)
      BY <2>1, <3>2
    <3>10. \A j \in DOMAIN reads'[s] : reads'[s][j].group = g /\ reads'[s][j].multi
      BY <3>1, <3>7
    <3> QED BY <3>6, <3>8, <3>9, <3>10 DEF Moves
  <2> QED BY <2>2, <2>3
<1>9. {} \in SUBSET Fds
  OBVIOUS
<1> QED
  BY <1>1, <1>3, <1>4, <1>5, <1>7, <1>8, <1>9, PostFlow

\* a read ends without a message
LEMMA ReadEndsFlow ==
    ASSUME LoopInv, LoopInv', FlowInv, NEW t \in Sockets, NEW i \in DOMAIN reads[t],
           NEW c \in Completion, EndsRead(c, t), c.fd = number[t], Emptied(c),
           reads' = [reads EXCEPT ![t] = Without(reads[t], i)], Post(c, {}),
           UNCHANGED <<worker, sq, fd_table, number, sends, fresh>>,
           \A g \in Groups : \A n : Kept(t, g, n) => Full(c, g)
    PROVE  FlowInv'
<1>1. t \notin fresh \cup Listeners /\ reads[t] # <<>>
  BY ReadersOwn
<1>2. ItsOwn(c)' /\ ~NewSocket(c)
  BY <1>1 DEF ItsOwn, NewSocket, EndsRead
<1>3. SocketsInv'
  BY SocketsFrame DEF FlowInv, worker
<1>4. \A s \in Sockets : s # t => reads'[s] = reads[s]
  BY DEF LoopInv, TypeOK
<1>5. /\ \A s \in fresh' \cup Listeners : reads'[s] = <<>> /\ sends'[s] = 0
      /\ \A s \in Socks : Untouched(s) => reads'[s] = <<>> /\ ~IsRead(c, s)
  BY <1>1, <1>4, Constants
  DEF FlowInv, OwnersInv, Untouched, IsRead, EndsRead, LoopInv, TypeOK
<1>6. ASSUME NEW s \in Sockets, NEW g \in Groups, NEW n, Kept(s, g, n)
      PROVE  Moves(s, g, c)
  <2>1. s = t => Full(c, g)
    BY <1>6
  <2> QED BY <1>6, <2>1, EndMoves
<1>7. {} \in SUBSET Fds
  OBVIOUS
<1> QED
  BY <1>2, <1>3, <1>5, <1>6, <1>7, PostFlow

LEMMA EndOfStreamFlow ==
    ASSUME LoopInv, LoopInv', FlowInv, NEW t \in Sockets, NEW i \in DOMAIN reads[t],
           EndOfStream(t, i)
    PROVE  FlowInv'
<1>1. PICK num, c : num = number[t] /\ c = Ended("read", num, t, "short")
  OBVIOUS
<1>2. num \in Fds
  BY <1>1, ReadersOwn
<1>3. /\ c \in Completion /\ c.op = "read" /\ c.fd = num /\ c.sock = t
      /\ ~c.more /\ Emptied(c)
  BY <1>1, <1>2, EndOfRequest DEF Emptied
<1>4. ASSUME NEW g \in Groups, NEW n, Kept(t, g, n) PROVE Full(c, g)
  BY <1>4 DEF Kept, Regular, EndOfStream
<1>5. /\ EndsRead(c, t) /\ c.fd = number[t] /\ Post(c, {})
      /\ reads' = [reads EXCEPT ![t] = Without(reads[t], i)]
      /\ UNCHANGED <<worker, sq, fd_table, number, sends, fresh>>
  BY <1>1, <1>3 DEF EndOfStream, EndsRead
<1> QED
  BY <1>3, <1>4, <1>5, ReadEndsFlow

LEMMA ReadFailsFlow ==
    ASSUME LoopInv, LoopInv', FlowInv, NEW t \in Sockets, NEW i \in DOMAIN reads[t],
           ReadFails(t, i)
    PROVE  FlowInv'
<1>1. PICK num, c : num = number[t] /\ c = Ended("read", num, t, "error")
  OBVIOUS
<1>2. num \in Fds
  BY <1>1, ReadersOwn
<1>3. /\ c \in Completion /\ c.op = "read" /\ c.fd = num /\ c.sock = t /\ c.res = "error"
      /\ ~c.more /\ Emptied(c)
  BY <1>1, <1>2, EndOfRequest DEF Emptied
<1>4. \A g \in Groups : \A n : Full(c, g)
  BY <1>3 DEF Full
<1>5. /\ EndsRead(c, t) /\ c.fd = number[t] /\ Post(c, {})
      /\ reads' = [reads EXCEPT ![t] = Without(reads[t], i)]
      /\ UNCHANGED <<worker, sq, fd_table, number, sends, fresh>>
  BY <1>1, <1>3 DEF ReadFails, EndsRead
<1> QED
  BY <1>3, <1>4, <1>5, ReadEndsFlow

LEMMA SendEndsFlow ==
    ASSUME LoopInv, LoopInv', FlowInv, NEW t \in Sockets, NEW res \in {"ok", "error"},
           SendEnds(t, res)
    PROVE  FlowInv'
<1>1. PICK op, num, c : /\ op = (IF t = UdpFd THEN "sendmsg" ELSE "send")
                        /\ num = number[t] /\ c = Ended(op, num, t, res)
  OBVIOUS
<1>2. /\ sends[t] > 0 /\ sends' = [sends EXCEPT ![t] = sends[t] - 1] /\ Post(c, {})
      /\ UNCHANGED <<worker, rings, sq, fd_table, number, accepting, reads, fresh>>
  BY <1>1 DEF SendEnds
<1>3. num \in Fds /\ t \notin fresh \cup Listeners
      /\ \A s \in Sockets : s # t => sends'[s] = sends[s]
  BY <1>1, <1>2 DEF LoopInv, TypeOK, FlowInv, OwnersInv
<1>4. /\ c \in Completion /\ c.op \in {"send", "sendmsg"} /\ c.fd = num /\ c.sock = t
      /\ Emptied(c)
  BY <1>1, <1>3, EndOfRequest DEF Emptied
<1>5. ItsOwn(c)' /\ ~NewSocket(c) /\ \A s : ~IsRead(c, s)
  BY <1>1, <1>2, <1>3, <1>4 DEF ItsOwn, NewSocket, IsRead
<1>6. SocketsInv'
  BY <1>2, SocketsFrame DEF FlowInv, worker
<1>7. /\ \A s \in fresh' \cup Listeners : reads'[s] = <<>> /\ sends'[s] = 0
      /\ \A s \in Socks : Untouched(s) => reads'[s] = <<>>
  BY <1>2, <1>3, Constants DEF FlowInv, OwnersInv, Untouched, LoopInv, TypeOK
<1>8. ASSUME NEW s \in Sockets, NEW g \in Groups, NEW n, Kept(s, g, n)
      PROVE  Moves(s, g, c)
  BY <1>2, <1>5, <1>8, StillMoves DEF LoopInv
<1>9. {} \in SUBSET Fds
  OBVIOUS
<1> QED
  BY <1>2, <1>4, <1>5, <1>6, <1>7, <1>8, <1>9, PostFlow

LEMMA AcceptFailsFlow ==
    ASSUME LoopInv, LoopInv', FlowInv, NEW l \in Listeners, AcceptFails(l)
    PROVE  FlowInv'
<1>1. PICK c : c = Ended("accept", l, l, "error")
  OBVIOUS
<1>2. /\ Post(c, {})
      /\ UNCHANGED <<worker, rings, sq, fd_table, number, reads, sends, fresh>>
  BY <1>1 DEF AcceptFails
<1>3. l \in Fds /\ l \in Sockets
  BY Constants
<1>4. /\ c \in Completion /\ c.op = "accept" /\ c.res = "error" /\ Emptied(c)
  BY <1>1, <1>3, EndOfRequest DEF Emptied
<1>5. ItsOwn(c)' /\ ~NewSocket(c) /\ \A s : ~IsRead(c, s)
  BY <1>4 DEF ItsOwn, NewSocket, IsRead
<1>6. SocketsInv'
  BY <1>2, SocketsFrame DEF FlowInv, worker
<1>7. /\ \A s \in fresh' \cup Listeners : reads'[s] = <<>> /\ sends'[s] = 0
      /\ \A s \in Socks : Untouched(s) => reads'[s] = <<>>
  BY <1>2 DEF FlowInv, OwnersInv, Untouched
<1>8. ASSUME NEW s \in Sockets, NEW g \in Groups, NEW n, Kept(s, g, n)
      PROVE  Moves(s, g, c)
  BY <1>2, <1>5, <1>8, StillMoves DEF LoopInv
<1>9. {} \in SUBSET Fds
  OBVIOUS
<1> QED
  BY <1>2, <1>4, <1>5, <1>6, <1>7, <1>8, <1>9, PostFlow

LEMMA ConnectFlow ==
    ASSUME LoopInv, LoopInv', FlowInv, NEW l \in Listeners, NEW t \in Socks, NEW fd \in Fds,
           NEW more \in BOOLEAN, Connect(l, t, fd, more)
    PROVE  FlowInv'
<1>1. PICK c : c = [Ended("accept", l, t, "ok") EXCEPT !.more = more, !.client = fd]
  OBVIOUS
<1>2. /\ t \in fresh /\ fd_table[fd] = NoSock /\ fresh' = fresh \ {t}
      /\ fd_table' = [fd_table EXCEPT ![fd] = t]
      /\ number' = [number EXCEPT ![t] = fd] /\ Post(c, {})
      /\ UNCHANGED <<worker, rings, sq, reads, sends, events>>
  BY <1>1 DEF Connect
<1>3. l \in Fds /\ t \in Sockets /\ t \notin Listeners /\ UNCHANGED connections
  <2>1. Socks \cap Listeners = {}
    BY SocketsAssumption, Constants
  <2> QED BY <1>2, <2>1, Constants DEF worker
<1>4. /\ c \in Completion /\ c.op = "accept" /\ c.res = "ok" /\ c.client = fd /\ c.sock = t
      /\ Emptied(c)
  <2> DEFINE e == Ended("accept", l, t, "ok")
  <2>1. /\ e \in Completion /\ e.op = "accept" /\ e.res = "ok" /\ e.sock = t
        /\ e.holds = {}
    BY <1>3, EndOfRequest
  <2> HIDE DEF e
  <2>2. c = [e EXCEPT !.more = more, !.client = fd]
    BY <1>1 DEF e
  <2>3. /\ c \in Completion /\ c.op = "accept" /\ c.res = "ok" /\ c.client = fd
        /\ c.sock = t /\ c.holds = {}
    BY <2>1, <2>2 DEF Completion
  <2> QED BY <2>3 DEF Emptied
<1>5. /\ fd_table'[fd] = t /\ \A f \in Fds \ {fd} : fd_table'[f] = fd_table[f]
      /\ number'[t] = fd /\ \A s \in Sockets \ {t} : number'[s] = number[s]
  BY <1>2, <1>3 DEF LoopInv, TypeOK
<1>6. connections[fd] = NoConn
  BY <1>2, OneFdEach, Constants DEF LoopInv, FlowInv, SocketsInv
<1>7. SocketsInv'
  <2>1. \A f \in Fds : connections'[f] # NoConn => fd_table'[f] = connections'[f].sock
    BY <1>3, <1>5, <1>6 DEF FlowInv, SocketsInv
  <2>2. ASSUME NEW f \in Fds, fd_table'[f] # NoSock
        PROVE  fd_table'[f] \notin fresh' /\ number'[fd_table'[f]] = f
    <3>1. CASE f = fd
      BY <1>2, <1>5, <3>1
    <3>2. CASE f # fd
      <4>1. PICK s \in Sockets : s = fd_table[f]
        BY <1>5, <2>2, <3>2 DEF LoopInv, TypeOK
      <4>2. s \notin fresh /\ number[s] = f
        BY <1>5, <2>2, <3>2, <4>1 DEF FlowInv, SocketsInv
      <4> QED BY <1>2, <1>5, <3>2, <4>1, <4>2
    <3> QED BY <3>1, <3>2
  <2>3. ASSUME NEW s \in Socks \ fresh' PROVE fd_table'[number'[s]] \in Socks \cup {NoSock}
    <3>1. CASE s = t
      BY <1>5, <3>1
    <3>2. CASE s # t
      <4>1. number'[s] = number[s] /\ number[s] \in Fds
            /\ fd_table[number[s]] \in Socks \cup {NoSock}
        BY <1>2, <1>5, <2>3, <3>2, Constants DEF LoopInv, TypeOK, FlowInv, SocketsInv
      <4> QED BY <1>5, <4>1
    <3> QED BY <3>1, <3>2
  <2> QED BY <2>1, <2>2, <2>3 DEF SocketsInv
<1>8. ItsOwn(c)' /\ \A s : ~IsRead(c, s)
  BY <1>4 DEF ItsOwn, IsRead
<1>9. Pending(c)' /\ c.sock \in fresh
  <2>1. /\ \A i \in DOMAIN sq : ~IsRead(sq[i], t)
        /\ \A i \in DOMAIN cq : ~IsRead(cq[i], t)
        /\ cqe # Idle => ~IsRead(cqe, t)
        /\ reads[t] = <<>>
    BY <1>2 DEF FlowInv, OwnersInv, ItsOwn, IsRead
  <2>2. Spared(t)
    BY <1>4, <2>1, <1>2, PostFacts DEF Spared, IsRead
  <2>3. Untouched(t)'
    BY <1>2, <1>4, <1>8, <2>1, <2>2, PostFacts, PostUntouched DEF Untouched, LoopInv
  <2> QED BY <1>2, <1>3, <1>4, <1>5, <1>6, <2>3 DEF Pending
<1>10. \A s \in Sockets \ fresh : s \notin fresh' /\ number'[s] = number[s]
  BY <1>2, <1>5
<1>11. \A f \in Fds : fd_table[f] # NoSock => fd_table'[f] = fd_table[f]
  BY <1>2, <1>5
<1>12. /\ \A s \in fresh' \cup Listeners : reads'[s] = <<>> /\ sends'[s] = 0
       /\ \A s \in Socks : Untouched(s) => reads'[s] = <<>>
  BY <1>2 DEF FlowInv, OwnersInv, Untouched
<1>13. ASSUME NEW s \in Sockets, NEW g \in Groups, NEW n, Kept(s, g, n)
      PROVE  Moves(s, g, c)
  BY <1>2, <1>8, <1>13, StillMoves DEF LoopInv
<1>14. {} \in SUBSET Fds
  OBVIOUS
<1> QED
  BY <1>2, <1>4, <1>7, <1>8, <1>9, <1>10, <1>11, <1>12, <1>13, <1>14, PostFlow

LEMMA RequestFacts ==
    ASSUME LoopInv, FlowInv, sq # <<>>, NEW r, r = Head(sq)
    PROVE  /\ r \in Request /\ r.fd \in Fds /\ r.sock \in Sockets
           /\ r.op \in {"accept", "read", "send", "sendmsg"}
           /\ \E i \in DOMAIN sq : sq[i] = r
           /\ r.op # "accept" => /\ r.sock \notin fresh \cup Listeners
                                 /\ number[r.sock] = r.fd
                                 /\ fd_table[r.fd] \notin Listeners
<1>1. PICK i \in DOMAIN sq : sq[i] = r
  BY Tailed DEF LoopInv, TypeOK
<1>2. r \in Request
  BY Tailed DEF LoopInv, TypeOK
<1>3. r.fd \in Fds /\ r.sock \in Sockets /\ r.op \in {"accept", "read", "send", "sendmsg"}
  BY <1>2 DEF Request
<1>4. ASSUME r.op # "accept"
      PROVE  /\ r.sock \notin fresh \cup Listeners /\ number[r.sock] = r.fd
             /\ fd_table[r.fd] \notin Listeners
  <2>1. r.sock \notin fresh \cup Listeners /\ number[r.sock] = r.fd
    BY <1>1, <1>4 DEF FlowInv, OwnersInv, ItsOwn
  <2>2. r.sock = UdpFd \/ r.sock \in Socks \ fresh
    BY <1>3, <2>1 DEF Sockets
  <2>3. CASE r.sock = UdpFd
    BY <2>1, <2>3, Constants DEF LoopInv, KernelInv
  <2>4. CASE r.sock \in Socks \ fresh
    <3>1. fd_table[r.fd] \in Socks \cup {NoSock}
      BY <2>1, <2>4 DEF FlowInv, SocketsInv
    <3>2. Socks \cap Listeners = {}
      BY SocketsAssumption, Constants
    <3> QED BY <2>1, <3>1, <3>2, Constants
  <2> QED BY <2>1, <2>2, <2>3, <2>4
<1> QED
  BY <1>1, <1>2, <1>3, <1>4

\* the fd is closed, or no listener
LEMMA RefusedFlow ==
    ASSUME LoopInv, LoopInv', FlowInv, sq # <<>>, sq' = Tail(sq), NEW r, r = Head(sq),
           NEW c, c = Ended(r.op, r.fd, r.sock, "error"), NEW met \in SUBSET Fds,
           Post(c, met), UNCHANGED <<worker, reads, sends, fd_table, number, fresh>>
    PROVE  FlowInv'
<1>1. /\ r \in Request /\ r.fd \in Fds /\ r.sock \in Sockets
      /\ r.op \in {"accept", "read", "send", "sendmsg"}
      /\ r.op # "accept" => r.sock \notin fresh \cup Listeners /\ number[r.sock] = r.fd
      /\ \E i \in DOMAIN sq : sq[i] = r
  BY RequestFacts
<1>2. /\ c \in Completion /\ c.op = r.op /\ c.fd = r.fd /\ c.sock = r.sock /\ c.res = "error"
      /\ ~c.more /\ Emptied(c)
  BY <1>1, EndOfRequest DEF Emptied
<1>3. ItsOwn(c)' /\ ~NewSocket(c)
  BY <1>1, <1>2 DEF ItsOwn, NewSocket
<1>4. SocketsInv'
  BY SocketsFrame DEF FlowInv, worker
<1>5. \A i \in DOMAIN sq' : \E j \in DOMAIN sq : sq'[i] = sq[j]
  BY SqTailed DEF LoopInv
<1>6. /\ \A s \in fresh' \cup Listeners : reads'[s] = <<>> /\ sends'[s] = 0
      /\ \A s \in Socks : Untouched(s) => reads'[s] = <<>> /\ ~IsRead(c, s)
  BY <1>1, <1>2 DEF FlowInv, OwnersInv, Untouched, IsRead
<1>7. ASSUME NEW s \in Sockets, NEW g \in Groups, NEW n, Kept(s, g, n)
      PROVE  Moves(s, g, c)
  <2>1. c \in EndsOf(s) <=> r \in ReadsOf(s)
    BY <1>1, <1>2 DEF EndsOf, EndsRead, ReadsOf, IsRead
  <2>2. IsRead(c, s) => r \in ReadsOf(s)
    BY <1>1, <1>2 DEF ReadsOf, IsRead
  <2> DEFINE m == IF r \in ReadsOf(s) THEN 1 ELSE 0
  <2>3. NumIn(sq, ReadsOf(s)) = NumIn(sq', ReadsOf(s)) + m
    BY SqTailed DEF LoopInv
  <2>4. (IF c \in EndsOf(s) THEN 1 ELSE 0) = m
    BY <2>1
  <2>5. m \in Nat /\ (r \in ReadsOf(s) => m = 1)
    OBVIOUS
  <2> HIDE DEF m
  <2>6. /\ NumIn(sq', ReadsOf(s)) \in Nat /\ Len(reads[s]) \in Nat /\ reads'[s] = reads[s]
    BY AllNumberedNext DEF Numbered, LoopInv
  <2>7. NumIn(sq', ReadsOf(s)) + Len(reads'[s]) + m = NumIn(sq, ReadsOf(s)) + Len(reads[s])
    BY <2>3, <2>5, <2>6
  <2>8. IsRead(c, s) => NumIn(sq, ReadsOf(s)) + Len(reads[s]) > 0
    BY <2>2, <2>3, <2>5, <2>6
  <2>9. IsRead(c, s) => Full(c, g)
    BY <1>2 DEF Full
  <2>10. \A i \in DOMAIN reads'[s] : reads'[s][i].group = g /\ reads'[s][i].multi
    BY <1>7, <2>6 DEF Kept, Regular
  <2> QED BY <2>4, <2>7, <2>8, <2>9, <2>10 DEF Moves
<1> QED
  BY <1>2, <1>3, <1>4, <1>5, <1>6, <1>7, PostFlow

\* the request is started on the socket t that the fd stands for
LEMMA StartedFlow ==
    ASSUME LoopInv, LoopInv', FlowInv, sq # <<>>, sq' = Tail(sq), NEW r, r = Head(sq),
           NEW t \in Sockets, t = fd_table[r.fd], t # r.sock => r.fd \in muddled',
           r.op = "accept" => t = r.fd,
           reads' = IF r.op # "read" THEN reads
                    ELSE [reads EXCEPT ![t] =
                             Append(reads[t], [group |-> r.group, multi |-> r.multi])],
           sends' = IF r.op \notin {"send", "sendmsg"} THEN sends
                    ELSE [sends EXCEPT ![t] = sends[t] + 1],
           UNCHANGED <<worker, cq, cqe, fd_table, number, fresh>>,
           muddled \subseteq muddled'
    PROVE  FlowInv'
<1>1. /\ r \in Request /\ r.fd \in Fds /\ r.sock \in Sockets
      /\ \E i \in DOMAIN sq : sq[i] = r
      /\ r.op # "accept" => r.sock \notin fresh \cup Listeners /\ number[r.sock] = r.fd
                            /\ t \notin Listeners
      /\ r.group \in Groups /\ r.multi \in BOOLEAN
  BY RequestFacts DEF Request
<1>2. UNCHANGED <<connections, rearming, refused>> /\ TypeOK /\ TypeOK'
  BY DEF worker, LoopInv
<1>3. t \notin fresh /\ number[t] = r.fd
  BY <1>1, Constants DEF FlowInv, SocketsInv
<1>4. \A i \in DOMAIN sq' : \E j \in DOMAIN sq : sq'[i] = sq[j]
  BY <1>2, SqTailed
<1>5. \A s \in Sockets : s # t \/ r.op # "read" => reads'[s] = reads[s]
  BY <1>2 DEF TypeOK
<1>6. \A s \in Sockets : s # t \/ r.op \notin {"send", "sendmsg"} => sends'[s] = sends[s]
  BY <1>2 DEF TypeOK
<1>7. SocketsInv'
  BY <1>2, SocketsFrame DEF FlowInv
<1>8. OwnersInv'
  <2>1. \A i \in DOMAIN sq' : ItsOwn(sq[i])'
    BY <1>4 DEF FlowInv, OwnersInv, ItsOwn
  <2>2. \A s \in fresh \cup Listeners : reads'[s] = <<>> /\ sends'[s] = 0
    <3>1. \A s \in fresh \cup Listeners : s \in Sockets /\ reads[s] = <<>> /\ sends[s] = 0
      BY <1>2, Constants DEF FlowInv, OwnersInv, TypeOK
    <3>2. \A s \in fresh \cup Listeners : r.op # "accept" => s # t
      BY <1>1, <1>3
    <3> QED BY <1>5, <1>6, <3>1, <3>2
  <2>3. /\ \A i \in DOMAIN cq' : ItsOwn(cq[i])'
        /\ cqe' # Idle => ItsOwn(cqe)'
    BY DEF FlowInv, OwnersInv, ItsOwn
  <2> QED BY <2>1, <2>2, <2>3 DEF OwnersInv
<1>9. ASSUME NEW x \in Completion, NewSocket(x), Pending(x) PROVE Pending(x)'
  <2>1. /\ x.sock \in Sockets /\ x.sock \in Socks \ fresh' /\ number'[x.sock] = x.client
        /\ fd_table'[x.client] = x.sock /\ connections'[x.client] = NoConn
    BY <1>2, <1>9 DEF Pending, Completion
  <2>2. ASSUME x.client \notin muddled' PROVE Untouched(x.sock)'
    <3>1. Untouched(x.sock) /\ number[x.sock] = x.client
      BY <1>9, <2>2 DEF Pending
    <3>2. ~IsRead(r, x.sock)
      BY <1>1, <3>1 DEF Untouched
    <3>3. r.op = "read" => t # x.sock
      BY <1>3, <2>2, <3>1, <3>2 DEF IsRead
    <3>4. reads'[x.sock] = <<>>
      BY <1>5, <2>1, <3>1, <3>3 DEF Untouched
    <3>5. \A i \in DOMAIN sq' : ~IsRead(sq'[i], x.sock)
      BY <1>4, <3>1 DEF Untouched
    <3> QED BY <3>1, <3>4, <3>5 DEF Untouched
  <2> QED BY <2>1, <2>2 DEF Pending
<1>10. NewInv'
  <2>1. \A i \in DOMAIN cq : cq[i] \in Completion /\ (NewSocket(cq[i]) => Pending(cq[i]))
    BY <1>2, ElementOfSeq, LenProperties DEF TypeOK, FlowInv, NewInv
  <2>2. ASSUME NEW i \in DOMAIN cq', NewSocket(cq'[i]) PROVE Pending(cq[i])'
    <3>1. PICK x \in Completion : x = cq'[i] /\ x = cq[i] /\ Pending(x)
      BY <2>1, <2>2
    <3>2. Pending(x)'
      BY <1>9, <2>2, <3>1
    <3> QED BY <3>1, <3>2
  <2>3. ASSUME cqe' # Idle, NewSocket(cqe') PROVE Pending(cqe)'
    <3>1. PICK x \in Completion : x = cqe' /\ x = cqe /\ Pending(x)
      BY <1>2, <2>3 DEF TypeOK, FlowInv, NewInv
    <3>2. Pending(x)'
      BY <1>9, <2>3, <3>1
    <3> QED BY <3>1, <3>2
  <2> QED BY <2>2, <2>3 DEF FlowInv, NewInv, NewSocket
<1>11. ReadsInv'
  <2> SUFFICES ASSUME NEW fd \in Fds, NEW s \in Sockets, NEW g \in Groups, NEW n \in 0 .. 1,
                      Owed(fd, s, g, n)'
               PROVE  Kept(s, g, n)'
    BY DEF ReadsInv
  <2>1. /\ Owed(fd, s, g, n) /\ fd \notin muddled' /\ connections[fd] # NoConn
        /\ connections[fd].sock = s
    BY <1>2 DEF Owed, Reading, Wanted
  <2>2. Kept(s, g, n) /\ number[s] = fd /\ fd_table[fd] = s
    BY <1>2, <2>1, OneFdEach DEF FlowInv, ReadsInv, SocketsInv
  <2>3. r.op = "read" => (t = s <=> r.sock = s)
    BY <1>1, <1>3, <2>1, <2>2
  <2>4. NumIn(sq', ReadsOf(s)) \in Nat /\ Len(reads[s]) \in Nat
    BY <1>2, AllNumbered, AllNumberedNext DEF Numbered
  <2>5. NumIn(sq, ReadsOf(s)) =
            NumIn(sq', ReadsOf(s)) + (IF r \in ReadsOf(s) THEN 1 ELSE 0)
    BY <1>2, SqTailed
  <2>6. /\ NumIn(sq', ReadsOf(s)) + Len(reads'[s]) = NumIn(sq, ReadsOf(s)) + Len(reads[s])
        /\ \A i \in DOMAIN reads'[s] : reads'[s][i].group = g /\ reads'[s][i].multi
    <3>1. \A i \in DOMAIN reads[s] : reads[s][i].group = g /\ reads[s][i].multi
      BY <2>2 DEF Kept, Regular
    <3>2. CASE r \in ReadsOf(s)
      <4>1. r.op = "read" /\ r.sock = s /\ t = s /\ IsRead(r, s)
        BY <2>3, <3>2 DEF ReadsOf, IsRead
      <4>2. r.group = g /\ r.multi
        BY <1>1, <2>2, <4>1 DEF Kept, Regular
      <4>3. PICK e, q : e = [group |-> r.group, multi |-> r.multi] /\ q = reads[s]
        OBVIOUS
      <4>4. e \in ReadRecord /\ e.group = g /\ e.multi /\ q \in Seq(ReadRecord)
        BY <1>1, <1>2, <4>2, <4>3 DEF TypeOK, ReadRecord
      <4>5. reads'[s] = Append(q, e)
        BY <1>2, <4>1, <4>3 DEF TypeOK
      <4>6. /\ Len(Append(q, e)) = Len(q) + 1
            /\ \A i \in DOMAIN Append(q, e) : \/ i \in DOMAIN q /\ Append(q, e)[i] = q[i]
                                              \/ Append(q, e)[i] = e
        BY <4>4, Appended
      <4>7. Len(reads'[s]) = Len(reads[s]) + 1
        BY <4>3, <4>5, <4>6
      <4>8. NumIn(sq, ReadsOf(s)) = NumIn(sq', ReadsOf(s)) + 1
        BY <2>5, <3>2
      <4>9. \A i \in DOMAIN reads'[s] : reads'[s][i].group = g /\ reads'[s][i].multi
        <5>1. PICK q2 : q2 = reads'[s]
          OBVIOUS
        <5>2. \A i \in DOMAIN q : q[i].group = g /\ q[i].multi
          BY <3>1, <4>3
        <5>3. \A i \in DOMAIN q2 : \/ i \in DOMAIN q /\ q2[i] = q[i]
                                   \/ q2[i] = e
          BY <4>5, <4>6, <5>1
        <5>4. e.group = g /\ e.multi
          BY <4>4
        <5>5. \A i \in DOMAIN q2 : q2[i].group = g /\ q2[i].multi
          BY ONLY <5>2, <5>3, <5>4
        <5> QED BY <5>1, <5>5
      <4>10. PICK n1, n2, l1, l2 :
                 /\ n1 = NumIn(sq, ReadsOf(s)) /\ n2 = NumIn(sq', ReadsOf(s))
                 /\ l1 = Len(reads[s]) /\ l2 = Len(reads'[s])
        OBVIOUS
      <4>11. n2 \in Nat /\ l1 \in Nat /\ n1 = n2 + 1 /\ l2 = l1 + 1
        BY <2>4, <4>7, <4>8, <4>10
      <4>12. n2 + l2 = n1 + l1
        BY ONLY <4>11
      <4> QED BY <4>9, <4>10, <4>12
    <3>3. CASE r \notin ReadsOf(s)
      <4>1. reads'[s] = reads[s]
        BY <1>1, <1>5, <2>3, <3>3 DEF ReadsOf, IsRead
      <4>2. NumIn(sq, ReadsOf(s)) = NumIn(sq', ReadsOf(s))
        BY <2>4, <2>5, <3>3
      <4> QED BY <3>1, <4>1, <4>2
    <3> QED BY <3>2, <3>3
  <2>7. \A i \in DOMAIN sq' : IsRead(sq'[i], s) => sq'[i].group = g /\ sq'[i].multi
    BY <1>4, <2>2 DEF Kept, Regular
  <2> QED BY <1>2, <2>2, <2>6, <2>7, TakeKept
<1>12. RearmingInv' /\ HoldsInv'
  BY <1>2 DEF FlowInv, RearmingInv, HoldsInv, Emptied
<1> QED BY <1>7, <1>8, <1>10, <1>11, <1>12 DEF FlowInv

LEMMA KernelTakeFlow ==
    ASSUME LoopInv, LoopInv', FlowInv, KernelTake
    PROVE  FlowInv'
<1>1. PICK r, t, met : /\ r = Head(sq) /\ t = fd_table[r.fd]
                       /\ met = IF t # NoSock /\ t # r.sock THEN {r.fd} ELSE {}
  OBVIOUS
<1>2. sq # <<>> /\ sq' = Tail(sq) /\ UNCHANGED <<worker, fd_table, number, fresh>>
  BY DEF KernelTake
<1>3. r.fd \in Fds /\ t \in Sockets \cup {NoSock}
  BY <1>1, <1>2, RequestFacts DEF LoopInv, TypeOK
<1>4. met \in SUBSET Fds
  BY <1>1, <1>3
<1>5. CASE t = NoSock \/ (r.op = "accept" /\ t # r.fd)
  <2>1. PICK c : c = Ended(r.op, r.fd, r.sock, "error")
    OBVIOUS
  <2>2. Post(c, met) /\ UNCHANGED <<reads, sends>>
    BY <1>1, <1>5, <2>1 DEF KernelTake
  <2> QED BY <1>1, <1>2, <1>4, <2>1, <2>2, RefusedFlow
<1>6. CASE ~(t = NoSock \/ (r.op = "accept" /\ t # r.fd))
  <2>1. /\ reads' = IF r.op # "read" THEN reads
                    ELSE [reads EXCEPT ![t] =
                             Append(reads[t], [group |-> r.group, multi |-> r.multi])]
        /\ sends' = IF r.op \notin {"send", "sendmsg"} THEN sends
                    ELSE [sends EXCEPT ![t] = sends[t] + 1]
        /\ muddled' = muddled \cup met
        /\ UNCHANGED <<cq, cqe>>
    BY <1>1, <1>6 DEF KernelTake
  <2>2. /\ t \in Sockets /\ (t # r.sock => r.fd \in muddled') /\ muddled \subseteq muddled'
        /\ r.op = "accept" => t = r.fd
    BY <1>1, <1>3, <1>6, <2>1
  <2> QED BY <1>1, <1>2, <2>1, <2>2, StartedFlow
<1> QED BY <1>5, <1>6

-----------------------------------------------------------------------------
(* One read at a time *)

LEMMA InitFlow == ASSUME Init PROVE FlowInv
<1>1. LoopInv
  BY InitInv
<1>2. /\ cq = <<>> /\ cqe = Idle /\ rearming = FALSE /\ fresh = Socks
      /\ refused = {} /\ muddled = {}
      /\ \A s \in Sockets : reads[s] = <<>> /\ sends[s] = 0
  BY DEF Init
<1>3. PICK a, b, c : /\ a = AcceptOn(TcpFd) /\ b = AcceptOn(SyncFd)
                     /\ c = ReadOn(UdpFd, UdpFd, 0, TRUE) /\ sq = <<a, b, c>>
  BY DEF Init
<1>4. /\ a.op = "accept" /\ b.op = "accept" /\ c.op = "read" /\ c.sock = UdpFd
      /\ c.fd = UdpFd /\ c.group = 0 /\ c.multi
  BY <1>3 DEF AcceptOn, ReadOn
<1>5. DOMAIN sq = 1 .. 3 /\ sq[1] = a /\ sq[2] = b /\ sq[3] = c
  BY <1>3
<1>6. \A i \in DOMAIN sq : i = 1 \/ i = 2 \/ i = 3
  BY <1>5
<1>7. /\ connections[UdpFd].sock = UdpFd /\ connections[UdpFd].buf_group = 0
      /\ connections[UdpFd] # NoConn
      /\ \A fd \in Fds : fd # UdpFd /\ connections[fd] # NoConn =>
             fd = TcpFd /\ connections[fd].sock = fd
      /\ \A fd \in Fds : fd_table[fd] = (IF fd \in ClientFds THEN NoSock ELSE fd)
      /\ \A s \in Sockets : number[s] = (IF s \in Socks THEN UdpFd ELSE s)
  <2>1. /\ connections = [fd \in Fds |->
               IF fd = UdpFd THEN [kind |-> "udp", sock |-> fd, buf_group |-> 0]
               ELSE IF fd = TcpFd
                    THEN [kind |-> "tcp", sock |-> fd, buf_group |-> 0]
                    ELSE NoConn]
        /\ fd_table = [fd \in Fds |-> IF fd \in ClientFds THEN NoSock ELSE fd]
        /\ number = [t \in Sockets |-> IF t \in Socks THEN UdpFd ELSE t]
    BY DEF Init
  <2>2. /\ connections[UdpFd].sock = UdpFd /\ connections[UdpFd].buf_group = 0
        /\ connections[UdpFd] # NoConn
    BY <1>1, <2>1, Constants, AbsenceAssumption DEF LoopInv, ConnectionsInv
  <2>3. \A fd \in Fds : fd # UdpFd /\ connections[fd] # NoConn =>
            fd = TcpFd /\ connections[fd].sock = fd
    BY <2>1
  <2> QED BY <2>1, <2>2, <2>3
<1>8. /\ TcpFd \in Listeners /\ UdpFd \notin Listeners /\ UdpFd \notin Socks
      /\ UdpFd \notin ClientFds /\ Socks \cap Fds = {} /\ Listeners \cap ClientFds = {}
      /\ Listeners \subseteq Fds /\ UdpFd \in Fds
      /\ \A fd \in Fds : fd \notin ClientFds => fd \in Sockets
  BY Constants, LoopAssumption, SocketsAssumption DEF Listeners, Fds, Sockets
<1>9. SocketsInv
  BY <1>2, <1>7, <1>8 DEF SocketsInv
<1>10. OwnersInv
  <2>1. number[UdpFd] = UdpFd
    BY <1>7, <1>8, Constants
  <2>2. \A i \in DOMAIN sq : ItsOwn(sq[i])
    BY <1>2, <1>4, <1>5, <1>6, <1>8, <2>1 DEF ItsOwn
  <2> QED BY <1>2, <2>2, Constants DEF OwnersInv
<1>11. NewInv /\ RearmingInv /\ HoldsInv
  BY <1>2 DEF NewInv, RearmingInv, HoldsInv
<1>12. ASSUME NEW fd \in Fds, NEW s \in Sockets, NEW g \in Groups, NEW n \in 0 .. 1,
              Owed(fd, s, g, n)
       PROVE  Kept(s, g, n)
  <2>1. s = UdpFd /\ g = 0 /\ n = 1
    BY <1>2, <1>7, <1>8, <1>12 DEF Owed, Reading, Wanted
  <2>2. c \in ReadsOf(s) /\ a \notin ReadsOf(s) /\ b \notin ReadsOf(s)
    <3>1. c \in Request
      BY <1>3, Constants DEF ReadOn, Request
    <3> QED BY <1>4, <2>1, <3>1 DEF ReadsOf, IsRead
  <2>3. Hits(sq, ReadsOf(s)) = {3}
    BY <1>5, <1>6, <2>2 DEF Hits
  <2>4. NumIn(sq, ReadsOf(s)) = 1
    BY <2>3, FS_Singleton DEF NumIn
  <2>5. Len(reads[s]) = 0 /\ NumIn(cq, EndsOf(s)) = 0 /\ cqe \notin EndsOf(s)
    <3>1. Numbered(s) /\ reads[s] = <<>> /\ cqe = Idle
      BY <1>1, <1>2, AllNumbered DEF LoopInv
    <3>2. \A i \in DOMAIN cq : ~EndsRead(cq[i], s)
      BY <1>2
    <3> QED BY <3>1, <3>2, AbsenceAssumption DEF Numbered, EndsOf
  <2>6. Reads(s) = n
    <3>1. Reads(s) = ReadsTotal(s)
      BY <1>1, ReadsAre DEF LoopInv
    <3> QED BY <2>1, <2>4, <2>5, <3>1 DEF ReadsTotal
  <2>7. Regular(s, g)
    BY <1>2, <1>4, <1>5, <1>6, <2>1 DEF Regular, IsRead
  <2>8. Ordered(s)
    BY <1>2 DEF Ordered
  <2> QED BY <2>6, <2>7, <2>8 DEF Kept
<1> QED
  BY <1>9, <1>10, <1>11, <1>12 DEF FlowInv, ReadsInv

LEMMA FlowFrame == ASSUME FlowInv, UNCHANGED vars PROVE FlowInv'
<1>1. SocketsInv' /\ OwnersInv' /\ RearmingInv' /\ HoldsInv'
  BY DEF FlowInv, SocketsInv, OwnersInv, ItsOwn, RearmingInv, HoldsInv, Emptied, vars
<1>2. NewInv'
  BY DEF FlowInv, NewInv, NewSocket, Pending, Untouched, IsRead, vars
<1>3. ReadsInv'
  <2> SUFFICES ASSUME NEW fd \in Fds, NEW s \in Sockets, NEW g \in Groups, NEW n \in 0 .. 1,
                      Owed(fd, s, g, n)'
               PROVE  Kept(s, g, n)'
    BY DEF ReadsInv
  <2>1. Owed(fd, s, g, n)
    BY DEF Owed, Reading, Wanted, vars
  <2>2. Kept(s, g, n)
    BY <2>1 DEF FlowInv, ReadsInv
  <2>3. Reads(s)' = Reads(s)
    BY DEF Reads, Count, EndsRead, vars
  <2>4. Regular(s, g)' /\ Ordered(s)'
    BY <2>2 DEF Kept, Regular, Ordered, EndsRead, IsRead, vars
  <2> QED BY <2>2, <2>3, <2>4 DEF Kept
<1> QED BY <1>1, <1>2, <1>3 DEF FlowInv

LEMMA FlowStep ==
    ASSUME LoopInv, LoopInv', FlowInv, [Next]_vars
    PROVE  FlowInv'
<1>1. CASE Wait BY <1>1, WaitFlow
<1>2. CASE DeleteContext BY <1>2, DeleteContextFlow
<1>3. CASE UdpError BY <1>3, UdpErrorFlow
<1>4. CASE ClientError BY <1>4, ClientErrorFlow
<1>5. CASE AcceptError BY <1>5, AcceptErrorFlow
<1>6. CASE Accepted BY <1>6, AcceptedFlow
<1>7. CASE Dropped BY <1>7, DroppedFlow
<1>8. CASE ReadShort BY <1>8, ReadShortFlow
<1>9. CASE ReadData BY <1>9, ReadDataFlow
<1>10. CASE Rearm BY <1>10, RearmFlow
<1>11. CASE Written BY <1>11, WrittenFlow
<1>12. CASE KernelTake BY <1>12, KernelTakeFlow
<1>13. CASE \E s \in Sockets : \E i \in DOMAIN reads[s] :
               \/ \E b \in Bufs, res \in {"ok", "short"}, more \in BOOLEAN :
                      Message(s, i, b, res, more)
               \/ EndOfStream(s, i) \/ ReadFails(s, i)
  BY <1>13, MessageFlow, EndOfStreamFlow, ReadFailsFlow
<1>14. CASE \E s \in Sockets, res \in {"ok", "error"} : SendEnds(s, res)
  BY <1>14, SendEndsFlow
<1>15. CASE \E l \in Listeners, s \in Socks, fd \in Fds, more \in BOOLEAN :
               Connect(l, s, fd, more)
  BY <1>15, ConnectFlow
<1>16. CASE \E l \in Listeners : AcceptFails(l)
  BY <1>16, AcceptFailsFlow
<1>17. CASE UNCHANGED vars BY <1>17, FlowFrame
<1> QED
  BY <1>1, <1>2, <1>3, <1>4, <1>5, <1>6, <1>7, <1>8, <1>9, <1>10, <1>11, <1>12,
     <1>13, <1>14, <1>15, <1>16, <1>17 DEF Next, Worker, Kernel

LEMMA FlowHolds == Spec => [](LoopInv /\ FlowInv)
<1>1. Init => LoopInv /\ FlowInv
  BY InitInv, InitFlow
<1>2. LoopInv /\ FlowInv /\ [Next]_vars => (LoopInv /\ FlowInv)'
  BY StepInv, FlowStep
<1> QED BY <1>1, <1>2, PTL DEF Spec

LEMMA FlowReads == ASSUME LoopInv, FlowInv PROVE OneReadAtATime
<1> SUFFICES ASSUME NEW fd \in Fds \ muddled, connections[fd] # NoConn,
                    connections[fd].sock \notin Listeners, connections[fd].kind # "sync"
             PROVE  Reads(connections[fd].sock) = IF fd \in refused THEN 0 ELSE 1
  BY DEF OneReadAtATime
<1>1. Reading(fd) /\ Wanted(fd) \in 0 .. 1
  BY DEF Reading, Wanted
<1>2. connections[fd].sock \in Sockets /\ connections[fd].buf_group \in Groups
  BY DEF LoopInv, TypeOK, Connection
<1>3. Kept(connections[fd].sock, connections[fd].buf_group, Wanted(fd))
  BY <1>1, <1>2 DEF FlowInv, ReadsInv, Owed
<1> QED BY <1>3 DEF Kept, Wanted

(* The UDP socket and each TCP client have one read at a time, queued, held *)
(* by the kernel or about to be queued again, or none when the submission   *)
(* queue refused it, unless their fd met the request or the completion of   *)
(* another socket (Core.cpp:128, 165-170, 230, 652-660).                    *)
THEOREM OneRead == Spec => []OneReadAtATime
  BY FlowHolds, FlowReads, PTL

-----------------------------------------------------------------------------
(* Buffers.  The worker gives back what a completion holds, as long as the  *)
(* group that was picked last is the one its read was queued with.          *)

HolderOf(g, b) == {c \in Completion : <<g, b>> \in c.holds}

Held(g, b) == NumIn(cq, HolderOf(g, b)) + (IF cqe \in HolderOf(g, b) THEN 1 ELSE 0)

LEMMA HoldersAre == TypeOK => \A g, b : Holders(g, b) = Held(g, b)
<1> SUFFICES ASSUME TypeOK, NEW g, NEW b PROVE Holders(g, b) = Held(g, b)
  OBVIOUS
<1>1. /\ \A i \in DOMAIN cq : cq[i] \in Completion
      /\ cqe # Idle <=> cqe \in Completion
  BY ElementOfSeq, LenProperties, AbsenceAssumption DEF TypeOK
<1>2. Hits(cq, HolderOf(g, b)) = {i \in DOMAIN cq : <<g, b>> \in cq[i].holds}
  BY <1>1 DEF Hits, HolderOf
<1>3. cqe \in HolderOf(g, b) <=> cqe # Idle /\ <<g, b>> \in cqe.holds
  BY <1>1 DEF HolderOf
<1> QED
  BY <1>2, <1>3 DEF Holders, Count, Held, NumIn

LEMMA HoldersAreNext == TypeOK' => (\A g, b : Holders(g, b) = Held(g, b))'
  BY HoldersAre, PTL

\* a step that moves buffers and loses none
LEMMA Balanced ==
    ASSUME TypeOK, TypeOK', BuffersExact,
           \A g \in Groups, b \in Bufs : rings'[g][b] + Held(g, b)' = rings[g][b] + Held(g, b)
    PROVE  BuffersExact'
<1>1. \A g \in Groups, b \in Bufs : rings[g][b] + Held(g, b) = 1
  BY HoldersAre DEF BuffersExact
<1>2. ASSUME NEW g \in Groups, NEW b \in Bufs PROVE rings'[g][b] + Holders(g, b)' = 1
  <2>1. Holders(g, b)' = Held(g, b)'
    BY HoldersAreNext
  <2> QED BY <1>1, <2>1
<1> QED BY <1>2 DEF BuffersExact

\* the handlers of completions that hold no buffer
LEMMA NothingHeld ==
    ASSUME LoopInv, LoopInv', FlowInv, BuffersExact, cqe # Idle, cqe.holds = {},
           cqe' = Idle, UNCHANGED <<cq, rings>>
    PROVE  BuffersExact'
<1>1. \A g, b : cqe \notin HolderOf(g, b) /\ cqe' \notin HolderOf(g, b)
  BY AbsenceAssumption DEF HolderOf
<1>2. \A g, b : Held(g, b)' = Held(g, b)
  BY <1>1 DEF Held
<1> QED BY <1>2, Balanced DEF LoopInv

LEMMA WaitBuffers ==
    ASSUME LoopInv, LoopInv', BuffersExact, Wait
    PROVE  BuffersExact'
<1>1. /\ cqe = Idle /\ cq # <<>> /\ cqe' = Head(cq) /\ cq' = Tail(cq) /\ rings' = rings
      /\ cq \in Seq(Completion)
  BY DEF Wait, LoopInv, TypeOK
<1>2. ASSUME NEW g \in Groups, NEW b \in Bufs PROVE Held(g, b)' = Held(g, b)
  <2>1. cqe \notin HolderOf(g, b)
    BY <1>1, AbsenceAssumption DEF HolderOf
  <2>2. NumIn(cq, HolderOf(g, b)) =
            NumIn(cq', HolderOf(g, b)) + (IF cqe' \in HolderOf(g, b) THEN 1 ELSE 0)
    BY <1>1, NumTailed
  <2>3. NumIn(cq, HolderOf(g, b)) \in Nat
    BY <1>1, NumType
  <2> QED BY <2>1, <2>2, <2>3 DEF Held
<1> QED BY <1>1, <1>2, Balanced DEF LoopInv

\* the buffer of a message is given back
LEMMA GivenBack ==
    ASSUME LoopInv, LoopInv', BuffersExact, cqe # Idle, UNCHANGED cq,
           cqe' = Idle \/ (cqe' \in Completion /\ cqe'.holds = {}),
           NEW h \in Groups, NEW d \in Bufs, cqe.holds = {<<h, d>>}, ReleaseBuffer(h, d)
    PROVE  BuffersExact'
<1>1. ASSUME NEW g \in Groups, NEW b \in Bufs
      PROVE  rings'[g][b] + Held(g, b)' = rings[g][b] + Held(g, b)
  <2>1. cqe \in HolderOf(g, b) <=> g = h /\ b = d
    BY DEF HolderOf, LoopInv, TypeOK
  <2>2. cqe' \notin HolderOf(g, b)
    BY AbsenceAssumption DEF HolderOf
  <2>3. rings'[g][b] = rings[g][b] + (IF g = h /\ b = d THEN 1 ELSE 0) /\ rings[g][b] \in Nat
    BY DEF ReleaseBuffer, LoopInv, TypeOK
  <2>4. NumIn(cq', HolderOf(g, b)) = NumIn(cq, HolderOf(g, b))
        /\ NumIn(cq, HolderOf(g, b)) \in Nat
    BY NumType DEF LoopInv, TypeOK
  <2> QED BY <2>1, <2>2, <2>3, <2>4 DEF Held
<1> QED BY <1>1, Balanced DEF LoopInv

Blamed ==
    /\ cqe # Idle /\ cqe.op = "read"
    /\ \/ ~Known(cqe.fd)
       \/ cqe.fd \in muddled'
       \/ /\ connections[cqe.fd].kind = "sync"
          /\ cqe.holds # {<<connections[cqe.fd].buf_group, cqe.buf>>}

\* a message that is not misread names the buffer it holds
LEMMA OwnBuffer ==
    ASSUME LoopInv, FlowInv, ~Blamed, cqe # Idle, cqe.op = "read", ~rearming,
           cqe.res # "error", Muddle(cqe.fd)
    PROVE  /\ connections[cqe.fd].buf_group \in Groups /\ cqe.buf \in Bufs
           /\ cqe.holds = {<<connections[cqe.fd].buf_group, cqe.buf>>}
<1>1. PICK fd \in Fds : fd = cqe.fd
  BY OwnersFd
<1>2. connections[fd] \in Connection /\ connections[fd] # NoConn /\ fd \notin muddled'
  BY <1>1 DEF Blamed, Known, LoopInv, TypeOK
<1>3. /\ connections[fd].buf_group \in Groups /\ cqe.buf \in Bufs
  BY <1>2 DEF Connection, LoopInv, TypeOK, Completion
<1>4. connections[fd].sock = cqe.sock /\ fd \notin muddled
  BY <1>1, <1>2 DEF Muddle, Known
<1>5. CASE connections[fd].kind = "sync"
  BY <1>1, <1>2, <1>3, <1>5 DEF Blamed
<1>6. CASE connections[fd].kind # "sync"
  <2>1. Reading(fd)
    BY <1>1, <1>2, <1>4, <1>6, OwnersFd DEF Reading
  <2>2. PICK g \in Groups, n \in 0 .. 1 : connections[fd].buf_group = g /\ Kept(cqe.sock, g, n)
    BY <1>4, <2>1, OwedOne
  <2>3. Full(cqe, g)
    BY <2>2 DEF Kept, Regular, IsRead
  <2> QED BY <1>1, <1>3, <2>2, <2>3 DEF Full
<1> QED BY <1>5, <1>6

LEMMA ReadShortBuffers ==
    ASSUME LoopInv, LoopInv', FlowInv, BuffersExact, ~Blamed, ReadShort
    PROVE  BuffersExact'
<1>1. PICK h, d : h = connections[cqe.fd].buf_group /\ d = cqe.buf
  OBVIOUS
<1>2. /\ cqe # Idle /\ cqe.op = "read" /\ ~rearming /\ cqe.res # "error" /\ Muddle(cqe.fd)
      /\ ReleaseBuffer(h, d) /\ cqe' = Idle /\ UNCHANGED cq
  BY <1>1 DEF ReadShort, Handling
<1> QED BY <1>1, <1>2, OwnBuffer, GivenBack

LEMMA ReadDataBuffers ==
    ASSUME LoopInv, LoopInv', FlowInv, BuffersExact, ~Blamed, ReadData
    PROVE  BuffersExact'
<1>1. PICK h, d : h = connections[cqe.fd].buf_group /\ d = cqe.buf
  OBVIOUS
<1>2. /\ cqe # Idle /\ cqe.op = "read" /\ ~rearming /\ cqe.res # "error" /\ Muddle(cqe.fd)
      /\ ReleaseBuffer(h, d) /\ UNCHANGED cq
  BY <1>1 DEF ReadData, Handling
<1>3. cqe' = Idle \/ cqe' = [cqe EXCEPT !.holds = {}]
  BY DEF ReadData
<1>4. cqe' = Idle \/ (cqe' \in Completion /\ cqe'.holds = {})
  BY <1>2, <1>3 DEF LoopInv, TypeOK, Completion
<1> QED BY <1>1, <1>2, <1>4, OwnBuffer, GivenBack

\* a completion is posted and the buffer it holds, if any, leaves its ring
LEMMA PostBuffers ==
    ASSUME LoopInv, LoopInv', BuffersExact, NEW c \in Completion, NEW met \in SUBSET Fds,
           Post(c, met),
           \A g \in Groups, b \in Bufs :
               rings[g][b] = rings'[g][b] + (IF <<g, b>> \in c.holds THEN 1 ELSE 0)
    PROVE  BuffersExact'
<1>1. ASSUME NEW g \in Groups, NEW b \in Bufs
      PROVE  rings'[g][b] + Held(g, b)' = rings[g][b] + Held(g, b)
  <2> DEFINE m == IF <<g, b>> \in c.holds THEN 1 ELSE 0
             k == IF cqe \in HolderOf(g, b) THEN 1 ELSE 0
  <2>1. m \in Nat /\ k \in Nat
    OBVIOUS
  <2>2. (IF cqe' \in HolderOf(g, b) THEN 1 ELSE 0) = k
    BY PostFacts, AbsenceAssumption DEF HolderOf, LoopInv, TypeOK
  <2>3. (IF c \in HolderOf(g, b) THEN 1 ELSE 0) = m
    BY DEF HolderOf
  <2> HIDE DEF m, k
  <2>4. NumIn(cq', HolderOf(g, b)) = NumIn(cq, HolderOf(g, b)) + m
    <3>1. cq' = Append(cq, c) /\ cq \in Seq(Completion)
      BY PostFacts DEF LoopInv, TypeOK
    <3>2. NumIn(Append(cq, c), HolderOf(g, b)) =
              NumIn(cq, HolderOf(g, b)) + (IF c \in HolderOf(g, b) THEN 1 ELSE 0)
      BY <3>1, NumAppended
    <3> QED BY <2>3, <3>1, <3>2
  <2>5. NumIn(cq, HolderOf(g, b)) \in Nat /\ rings'[g][b] \in Nat /\ rings[g][b] = rings'[g][b] + m
    BY NumType DEF LoopInv, TypeOK, m
  <2>6. Held(g, b) = NumIn(cq, HolderOf(g, b)) + k
    BY DEF Held, k
  <2>7. Held(g, b)' = NumIn(cq', HolderOf(g, b)) + k
    BY <2>2 DEF Held
  <2> QED BY <2>1, <2>4, <2>5, <2>6, <2>7
<1> QED BY <1>1, Balanced DEF LoopInv

LEMMA EmptyPost ==
    ASSUME LoopInv, LoopInv', BuffersExact, NEW c \in Completion, NEW met \in SUBSET Fds,
           Post(c, met), c.holds = {}, UNCHANGED rings
    PROVE  BuffersExact'
<1>1. \A g \in Groups, b \in Bufs : rings[g][b] \in Nat /\ <<g, b>> \notin c.holds
  BY DEF LoopInv, TypeOK
<1> QED BY <1>1, PostBuffers

LEMMA MessageBuffers ==
    ASSUME LoopInv, LoopInv', BuffersExact, NEW t \in Sockets, NEW i \in DOMAIN reads[t],
           NEW d \in Bufs, NEW res \in {"ok", "short"}, NEW more \in BOOLEAN,
           Message(t, i, d, res, more)
    PROVE  BuffersExact'
<1>1. PICK h, e, hs, c : /\ h = reads[t][i].group /\ e = Ended("read", number[t], t, res)
                         /\ hs = {<<h, d>>}
                         /\ c = [e EXCEPT !.more = more, !.buf = d, !.holds = hs]
  OBVIOUS
<1>2. /\ rings[h][d] > 0 /\ rings' = [rings EXCEPT ![h][d] = rings[h][d] - 1]
      /\ Post(c, {})
  BY <1>1 DEF Message
<1>3. h \in Groups /\ number[t] \in Fds
  BY <1>1, ReadFacts DEF LoopInv, TypeOK
<1>4. e \in Completion
  BY <1>1, <1>3, EndOfRequest
<1>5. hs \in SUBSET (Groups \X Bufs)
  BY <1>1, <1>3
<1>6. c \in Completion /\ c.holds = hs
  BY <1>1, <1>4, <1>5 DEF Completion
<1>7. ASSUME NEW g \in Groups, NEW b \in Bufs
      PROVE  rings[g][b] = rings'[g][b] + (IF <<g, b>> \in c.holds THEN 1 ELSE 0)
  <2>1. <<g, b>> \in c.holds <=> g = h /\ b = d
    BY <1>1, <1>6
  <2>2. rings'[g][b] = (IF g = h /\ b = d THEN rings[g][b] - 1 ELSE rings[g][b])
        /\ rings[g][b] \in Nat
    <3>1. rings \in [Groups -> [Bufs -> Nat]]
      BY DEF LoopInv, TypeOK
    <3> QED BY ONLY <1>2, <1>3, <3>1, g \in Groups, b \in Bufs, d \in Bufs
  <2> QED BY <2>1, <2>2
<1>8. {} \in SUBSET Fds
  OBVIOUS
<1> QED BY <1>2, <1>6, <1>7, <1>8, PostBuffers

LEMMA KernelTakeBuffers ==
    ASSUME LoopInv, LoopInv', FlowInv, BuffersExact, KernelTake
    PROVE  BuffersExact'
<1>1. PICK r, t, met, c : /\ r = Head(sq) /\ t = fd_table[r.fd]
                          /\ met = IF t # NoSock /\ t # r.sock THEN {r.fd} ELSE {}
                          /\ c = Ended(r.op, r.fd, r.sock, "error")
  OBVIOUS
<1>2. sq # <<>> /\ rings' = rings
  BY DEF KernelTake
<1>3. c \in Completion /\ c.holds = {} /\ met \in SUBSET Fds
  BY <1>1, <1>2, RequestFacts, EndOfRequest
<1>4. CASE t = NoSock \/ (r.op = "accept" /\ t # r.fd)
  <2>1. Post(c, met)
    BY <1>1, <1>4 DEF KernelTake
  <2> QED BY <1>2, <1>3, <2>1, EmptyPost
<1>5. CASE ~(t = NoSock \/ (r.op = "accept" /\ t # r.fd))
  <2>1. UNCHANGED <<cq, cqe>>
    BY <1>1, <1>5 DEF KernelTake
  <2>2. \A g, b : Held(g, b)' = Held(g, b)
    BY <2>1 DEF Held
  <2> QED BY <1>2, <2>2, Balanced DEF LoopInv
<1> QED BY <1>4, <1>5

LEMMA EmptyPosts ==
    ASSUME LoopInv, LoopInv', FlowInv, BuffersExact,
           \/ \E t \in Sockets : \E i \in DOMAIN reads[t] : EndOfStream(t, i) \/ ReadFails(t, i)
           \/ \E t \in Sockets, res \in {"ok", "error"} : SendEnds(t, res)
           \/ \E l \in Listeners : AcceptFails(l)
    PROVE  BuffersExact'
<1>1. PICK op \in {"accept", "read", "send", "sendmsg"}, fd \in Fds, s \in Sockets,
           res \in {"ok", "short", "error"} : Post(Ended(op, fd, s, res), {}) /\ rings' = rings
  <2>1. \A t \in Sockets : number[t] \in Fds
    BY DEF LoopInv, TypeOK
  <2>2. CASE \E t \in Sockets : \E i \in DOMAIN reads[t] : EndOfStream(t, i) \/ ReadFails(t, i)
    BY <2>1, <2>2 DEF EndOfStream, ReadFails
  <2>3. CASE \E t \in Sockets, res \in {"ok", "error"} : SendEnds(t, res)
    BY <2>1, <2>3 DEF SendEnds
  <2>4. CASE \E l \in Listeners : AcceptFails(l)
    BY <2>4, Constants DEF AcceptFails
  <2> QED BY <2>2, <2>3, <2>4
<1>2. PICK c : c = Ended(op, fd, s, res)
  OBVIOUS
<1>3. c \in Completion /\ c.holds = {} /\ {} \in SUBSET Fds
  BY <1>2, EndOfRequest
<1> QED BY <1>1, <1>2, <1>3, EmptyPost

LEMMA ConnectBuffers ==
    ASSUME LoopInv, LoopInv', BuffersExact, NEW l \in Listeners, NEW t \in Socks,
           NEW fd \in Fds, NEW more \in BOOLEAN, Connect(l, t, fd, more)
    PROVE  BuffersExact'
<1>1. PICK e, c : /\ e = Ended("accept", l, t, "ok")
                  /\ c = [e EXCEPT !.more = more, !.client = fd]
  OBVIOUS
<1>2. e \in Completion /\ e.holds = {}
  BY <1>1, Constants, EndOfRequest
<1>3. c \in Completion /\ c.holds = {} /\ {} \in SUBSET Fds
  BY <1>1, <1>2 DEF Completion
<1>4. Post(c, {}) /\ rings' = rings
  BY <1>1 DEF Connect
<1> QED BY <1>3, <1>4, EmptyPost

LEMMA HandlersHolding ==
    ASSUME LoopInv, LoopInv', FlowInv, BuffersExact, ~Blamed,
           \/ DeleteContext \/ UdpError \/ ClientError \/ AcceptError \/ Accepted
           \/ Dropped \/ Rearm \/ Written
    PROVE  BuffersExact'
<1>1. cqe # Idle /\ cqe' = Idle /\ UNCHANGED <<cq, rings>>
  BY DEF DeleteContext, UdpError, ClientError, AcceptError, Accepted, Dropped, Rearm,
         Written, Handling, LoopInv, TypeOK
<1>2. cqe.holds = {}
  <2>1. CASE Rearm
    BY <2>1 DEF Rearm, FlowInv, RearmingInv
  <2>2. CASE ~Rearm
    <3>1. cqe.op # "read" \/ cqe.res = "error"
      BY <1>1, <2>2 DEF DeleteContext, UdpError, ClientError, AcceptError, Accepted,
                        Dropped, Written, Handling, Blamed
    <3> QED BY <1>1, <3>1 DEF FlowInv, HoldsInv, Emptied
  <2> QED BY <2>1, <2>2
<1> QED BY <1>1, <1>2, NothingHeld

LEMMA BuffersStep ==
    ASSUME LoopInv, LoopInv', FlowInv, BuffersExact, [Next]_vars, ~Blamed
    PROVE  BuffersExact'
<1>1. CASE Wait BY <1>1, WaitBuffers
<1>2. CASE \/ DeleteContext \/ UdpError \/ ClientError \/ AcceptError \/ Accepted
           \/ Dropped \/ Rearm \/ Written
  BY <1>2, HandlersHolding
<1>3. CASE ReadShort BY <1>3, ReadShortBuffers
<1>4. CASE ReadData BY <1>4, ReadDataBuffers
<1>5. CASE KernelTake BY <1>5, KernelTakeBuffers
<1>6. CASE \E s \in Sockets : \E i \in DOMAIN reads[s] :
               \/ \E b \in Bufs, res \in {"ok", "short"}, more \in BOOLEAN :
                      Message(s, i, b, res, more)
               \/ EndOfStream(s, i) \/ ReadFails(s, i)
  BY <1>6, MessageBuffers, EmptyPosts
<1>7. CASE \E s \in Sockets, res \in {"ok", "error"} : SendEnds(s, res)
  BY <1>7, EmptyPosts
<1>8. CASE \E l \in Listeners, s \in Socks, fd \in Fds, more \in BOOLEAN :
               Connect(l, s, fd, more)
  BY <1>8, ConnectBuffers
<1>9. CASE \E l \in Listeners : AcceptFails(l)
  BY <1>9, EmptyPosts
<1>10. CASE UNCHANGED vars
  BY <1>10 DEF vars, BuffersExact, Holders, Count
<1> QED
  BY <1>1, <1>2, <1>3, <1>4, <1>5, <1>6, <1>7, <1>8, <1>9, <1>10 DEF Next, Worker, Kernel

(* A buffer is lost or offered twice only when the worker drops a message   *)
(* of a connection it has closed, when the read of a Sync connection is not *)
(* the one whose group was picked last or has hung up, or when the fd met   *)
(* another socket or its completion was overwritten (Core.cpp:247-263,      *)
(* 277-281).                                                               *)
THEOREM BuffersDamaged == Spec => BuffersDamagedOnlyBy
<1> DEFINE Inv == LoopInv /\ FlowInv
           Step == BuffersExact /\ ~BuffersExact' => Blamed
<1>1. Inv /\ Inv' /\ [Next]_vars => Step
  BY BuffersStep
<1>2. Spec => []Inv
  BY FlowHolds
<1>3. [Step]_vars => [BuffersExact /\ ~BuffersExact' =>
         /\ cqe # Idle /\ cqe.op = "read"
         /\ \/ ~Known(cqe.fd)
            \/ cqe.fd \in muddled'
            \/ /\ connections[cqe.fd].kind = "sync"
               /\ cqe.holds # {<<connections[cqe.fd].buf_group, cqe.buf>>}]_vars
  BY DEF Blamed
<1> HIDE DEF Inv, Step
<1> QED
  BY <1>1, <1>2, <1>3, PTL DEF Spec, BuffersDamagedOnlyBy
=============================================================================
