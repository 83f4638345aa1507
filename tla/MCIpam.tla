-------------------------------- MODULE MCIpam --------------------------------
(***************************************************************************)
(* A four-bit address space with a /32, a /31, a /30 and a /29 of it: no   *)
(* host, no host, two hosts and six hosts; a /32 and a /30 at the very end *)
(* of the space.                                                           *)
(***************************************************************************)
EXTENDS Ipam

MCSubnets ==
    {[base |-> 4, size |-> 1], [base |-> 15, size |-> 1], [base |-> 2, size |-> 2],
     [base |-> 12, size |-> 4], [base |-> 0, size |-> 8]}
===============================================================================
