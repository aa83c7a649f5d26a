---------------------------- MODULE MCRelatedWalk ----------------------------
(* Small tables for RelatedWalk: one message bridged to two platforms, a   *)
(* copy of it made twice (a replayed event), two rows forming a cycle, and *)
(* a row of another bridge that shares an endpoint.                        *)
EXTENDS RelatedWalk

R(i, g, s, d) == [id |-> i, group |-> g, src |-> s, dst |-> d]

MCGroups == {"d_1:q_1", "q_1:t_1"}

MCRowUniverse ==
    {R(1, "d_1:q_1", <<"QQ", 1>>, <<"Discord", 1>>),
     R(2, "d_1:q_1", <<"QQ", 1>>, <<"Telegram", 1>>),
     R(3, "d_1:q_1", <<"QQ", 1>>, <<"Discord", 2>>),
     R(4, "d_1:q_1", <<"Discord", 2>>, <<"Telegram", 1>>),
     R(5, "d_1:q_1", <<"Discord", 3>>, <<"QQ", 2>>),
     R(6, "q_1:t_1", <<"QQ", 1>>, <<"QQ", 2>>)}
=============================================================================
