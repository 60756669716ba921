----------------------------- MODULE RemoteCalls -----------------------------
(***************************************************************************)
(* What the tunnel promises a page that calls the daemon's HTTP server     *)
(* through it: a call is served at most once and only after it was made,   *)
(* it is settled at most once, and "ok" means that the server has served   *)
(* it.  A call that failed or was given up may have been served, or may be *)
(* served later: only "ok" tells.                                          *)
(***************************************************************************)
EXTENDS Naturals

CONSTANT Req

VARIABLES
    result,   \* what the page knows of each call
    served    \* how often the server has handled it

Init == /\ result = [r \in Req |-> "new"]
        /\ served = [r \in Req |-> 0]

Call(r) == /\ result[r] = "new"
           /\ result' = [result EXCEPT ![r] = "pending"]
           /\ UNCHANGED served

Serve(r) == /\ result[r] # "new" /\ served[r] = 0
            /\ served' = [served EXCEPT ![r] = 1]
            /\ UNCHANGED result

Settle(r, how) == /\ result[r] = "pending"
                  /\ how = "ok" => served[r] = 1
                  /\ result' = [result EXCEPT ![r] = how]
                  /\ UNCHANGED served

\* The page is left: nobody waits any more.
Leave == /\ result' = [r \in Req |-> IF result[r] = "pending"
                                     THEN "dropped" ELSE result[r]]
         /\ UNCHANGED served

Next == \/ \E r \in Req : \/ Call(r) \/ Serve(r)
                          \/ \E how \in {"ok", "failed", "timedout"} :
                                 Settle(r, how)
        \/ Leave

Spec == Init /\ [][Next]_<<result, served>>
=============================================================================
