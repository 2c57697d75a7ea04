----------------------------- MODULE MCRequests -----------------------------
(***************************************************************************)
(* Instances of Requests: configurations that are valid and ones that are  *)
(* not.                                                                    *)
(***************************************************************************)
EXTENDS Requests

MCConfigs ==
    {[arena |-> 30000000, alignment |-> 64, refill |-> 8192, local |-> 16384],
     [arena |-> 30000000, alignment |-> 4096, refill |-> 0, local |-> 0],
     [arena |-> 30000000, alignment |-> 32, refill |-> 8192, local |-> 16384],
     [arena |-> 30000000, alignment |-> 96, refill |-> 8192, local |-> 16384],
     [arena |-> 64, alignment |-> 128, refill |-> 8192, local |-> 16384]}
=============================================================================
