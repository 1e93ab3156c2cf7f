------------------------------- MODULE MCRungs -------------------------------
(* A rung of one partition with a control, and one of two with components. *)
EXTENDS RungProperties

MCRungs == {<<"control", 1>>, <<"component", 2>>}
MCOneFold == {<<"control", 1>>}
===============================================================================
