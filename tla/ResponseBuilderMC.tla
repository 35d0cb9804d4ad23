------------------------- MODULE ResponseBuilderMC -------------------------
(***************************************************************************)
(* The real buffer of 4096 bytes, a short and the longest question, the    *)
(* default and two EDNS limits, the rdata of an A record and a long one.   *)
(***************************************************************************)
EXTENDS ResponseBuilder

MCQuestionEnds == {17, 271}
MCLimits == {512, 1232, 4096}
MCRdataSizes == {4, 246}
=============================================================================
