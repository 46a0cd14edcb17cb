-------------------------------- MODULE Lists --------------------------------
(* rt_list_t (rtservice.h) seen as the sequence of the nodes from           *)
(* head->next on; head itself is not a member.                              *)
EXTENDS Naturals, Sequences

IsIn(s, t) == \E i \in DOMAIN s : s[i] = t

LinkOut(s, i)   == SubSeq(s, 1, i - 1) \o SubSeq(s, i + 1, Len(s))
LinkIn(s, i, t) == SubSeq(s, 1, i - 1) \o <<t>> \o SubSeq(s, i, Len(s))

(* rt_list_remove on a node of s; a node that is in no list links itself.   *)
Drop(s, t) == IF IsIn(s, t) THEN LinkOut(s, CHOOSE i \in DOMAIN s : s[i] = t) ELSE s

(* Where a search from the head on stops                                    *)
LeastOf(S) == CHOOSE x \in S : \A y \in S : x <= y
=============================================================================
