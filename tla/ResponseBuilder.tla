-------------------------- MODULE ResponseBuilder --------------------------
(***************************************************************************)
(* Core::handle's second half: the reply to one query, built in a buffer   *)
(* of sizeof(out) bytes.  Records, geo entries and proxy entries are all   *)
(* appended by the same code: a resource record is left out, and every     *)
(* later one with it, when the client's UDP limit or the buffer would be   *)
(* passed.  Only lengths, counts and header bits matter here.              *)
(***************************************************************************)
EXTENDS Integers

CONSTANTS
    OutSize,       \* sizeof(out)
    QuestionEnds,  \* 12 + bytes of the question: rlen before the answers
    Limits,        \* udp_limit: the class field of the OPT record, or 512
    RdataSizes     \* record.rdata.size()

RRHeader == 12     \* pointer, type, class, ttl, rdlen
Preference == 2    \* MX: written, but not counted in rr_size
\* mutant: nothing is kept back for the OPT record
NoReserve == 0

Reserve == 32
OptLen == 11
LengthPrefix == 2  \* TCP

\* mutant: one bit too far to the left, outside the RCODE field
NOTIMPShifted == 16

NOTIMP == 4
FORMERR == 1

ASSUME BuilderAssumption ==
    /\ OutSize \in Nat
    /\ QuestionEnds \subseteq 12 .. OutSize - Reserve
    /\ Limits \subseteq Nat
    /\ RdataSizes \subseteq Nat

VARIABLES
    is_tcp, udp_limit,
    is_mx,         \* qtype = 15
    class_in,      \* qclass = 1
    one_question,  \* qdcount = 1
    rlen,          \* bytes in out
    anc,           \* answers written
    truncated,
    rcode,         \* low bits of response_flags
    sent           \* handle has returned rlen

query == <<is_tcp, udp_limit, is_mx, class_in, one_question>>
builder_vars == <<is_tcp, udp_limit, is_mx, class_in, one_question, rlen, anc,
                  truncated, rcode, sent>>

\* response_flags is or-ed, and the two codes share no bit
BuilderInit ==
    /\ is_tcp \in BOOLEAN /\ udp_limit \in Limits /\ is_mx \in BOOLEAN
    /\ class_in \in BOOLEAN /\ one_question \in BOOLEAN
    /\ rlen \in QuestionEnds
    /\ anc = 0 /\ truncated = FALSE /\ sent = FALSE
    /\ rcode = (IF class_in THEN 0 ELSE NOTIMP) + (IF one_question THEN 0 ELSE FORMERR)

RRSize(size) == RRHeader + size

Written(size) == RRSize(size) + IF is_mx THEN Preference ELSE 0

\* mutant: the buffer is not checked
TooLongForClient(size) == ~is_tcp /\ rlen + RRSize(size) > udp_limit

\* mutant: the client's limit is not checked
TooLongForBuffer(size) == rlen + RRSize(size) + Reserve > OutSize

TooLong(size) ==
    \/ ~is_tcp /\ rlen + RRSize(size) > udp_limit
    \/ rlen + RRSize(size) + Reserve > OutSize

Answering == ~sent /\ class_in /\ one_question

AppendAnswer(size) ==
    /\ Answering /\ ~truncated /\ ~TooLong(size)
    /\ rlen' = rlen + Written(size)
    /\ anc' = anc + 1
    /\ UNCHANGED <<query, truncated, rcode, sent>>

OmitAnswer(size) ==
    /\ Answering /\ (truncated \/ TooLong(size))
    /\ truncated' = TRUE
    /\ UNCHANGED <<query, rlen, anc, rcode, sent>>

\* the OPT record, then the TCP length in front
Finish ==
    /\ ~sent
    /\ rlen' = (IF rlen + OptLen > OutSize THEN OutSize - OptLen ELSE rlen)
               + OptLen + (IF is_tcp THEN LengthPrefix ELSE 0)
    /\ sent' = TRUE
    /\ UNCHANGED <<query, anc, truncated, rcode>>

BuilderNext ==
    \/ \E size \in RdataSizes : AppendAnswer(size) \/ OmitAnswer(size)
    \/ Finish

BuilderSpec == BuilderInit /\ [][BuilderNext]_builder_vars

-----------------------------------------------------------------------------
(* The types of the header fields and lengths. *)
BuilderTypeOK ==
    /\ is_tcp \in BOOLEAN /\ udp_limit \in Limits /\ is_mx \in BOOLEAN
    /\ class_in \in BOOLEAN /\ one_question \in BOOLEAN
    /\ rlen \in Nat /\ anc \in Nat
    /\ truncated \in BOOLEAN /\ sent \in BOOLEAN
    /\ rcode \in 0 .. 15

(* No write passes the end of out, although an MX answer is two bytes      *)
(* longer than the size that was checked, and the OPT record and the TCP   *)
(* length are added without a check of the sum.                            *)
NeverPastBuffer == rlen <= OutSize

(* The OPT record never overwrites the tail of an answer: the clamp in     *)
(* front of it, which would cut one, is never taken.                       *)
OptKeepsAnswers ==
    [][sent' # sent =>
        rlen' = rlen + OptLen + (IF is_tcp THEN LengthPrefix ELSE 0)]_builder_vars

(* A UDP reply that holds answers is longer than the client's limit by no  *)
(* more than the OPT record and one MX preference: the check counts        *)
(* neither.  (It does pass the limit by that much.)                        *)
UdpOvershoot ==
    ~is_tcp /\ anc > 0 => rlen <= udp_limit + OptLen + Preference
=============================================================================
