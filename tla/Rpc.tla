-------------------------------- MODULE Rpc --------------------------------
(***************************************************************************)
(* What a client connection of frpc promises to the code that calls        *)
(* Client.CallDirect or Client.Go on it.  A call is invoked once, the      *)
(* server executes it at most once, possibly after the caller has given    *)
(* up, and the call returns at most once.  It returns without an error     *)
(* only if the server has executed it.                                     *)
(*                                                                         *)
(* ClientConn implements this specification.                               *)
(***************************************************************************)
CONSTANT Calls

VARIABLES
    status,     \* what the caller of each call sees
    executed    \* the calls the server has executed

vars == <<status, executed>>

Status == {"idle", "active", "ok", "failed"}

Init ==
    /\ status = [c \in Calls |-> "idle"]
    /\ executed = {}

Invoke(c) ==
    /\ status[c] = "idle"
    /\ status' = [status EXCEPT ![c] = "active"]
    /\ UNCHANGED executed

Execute(c) ==
    /\ status[c] \in {"active", "failed"}
    /\ c \notin executed
    /\ executed' = executed \cup {c}
    /\ UNCHANGED status

Reply(c) ==
    /\ status[c] = "active"
    /\ c \in executed
    /\ status' = [status EXCEPT ![c] = "ok"]
    /\ UNCHANGED executed

Fail(c) ==
    /\ status[c] = "active"
    /\ status' = [status EXCEPT ![c] = "failed"]
    /\ UNCHANGED executed

Next == \E c \in Calls : Invoke(c) \/ Execute(c) \/ Reply(c) \/ Fail(c)

Spec == Init /\ [][Next]_vars
=============================================================================
