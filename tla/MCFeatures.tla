------------------------------ MODULE MCFeatures ------------------------------
(***************************************************************************)
(* Every training partition of NRows rows of two users and two items over  *)
(* three timestamps, two of them on one date; users and items are named    *)
(* so that the first row is u1's of i1.  The later rows are a date away.   *)
(***************************************************************************)
EXTENDS FeatureProperties

CONSTANT NRows

MCUsers == {"u1", "u2"}
MCItems == {"i1", "i2"}
MCRow == [user : MCUsers, item : MCItems, time : {0, 1, 2}, label : {0, 1}]
MCLogs == {l \in [1..NRows -> MCRow] : l[1].user = "u1" /\ l[1].item = "i1"}
MCLater == [user : MCUsers, item : MCItems, time : {4}]
===============================================================================
