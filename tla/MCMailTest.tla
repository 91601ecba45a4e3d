------------------------------ MODULE MCMailTest ------------------------------
(***************************************************************************)
(* An instance of MailTest for TLC: two machines with two client threads   *)
(* each.                                                                   *)
(***************************************************************************)
EXTENDS MailTest

CONSTANTS a, b, main, other, data, ack

MCFar == [m \in Machines |-> IF m = a THEN b ELSE a]
MCLetters ==
    [m \in Machines |->
        {[from |-> m, to |-> b, box |-> 0, reply |-> 0, body |-> text] :
            text \in IF m = a THEN {data, ack} ELSE {data}}]
=============================================================================
