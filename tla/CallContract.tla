---------------------------- MODULE CallContract ----------------------------
(***************************************************************************)
(* What Session.Call promises, whatever the connection does: a call        *)
(* returns once; it returns a result only when its own handler finished,   *)
(* and then that handler's result; a call that is refused, or that the     *)
(* local session turns away, never reaches a handler, before or after it   *)
(* returns; a handler runs at most once for a call.  A call that fails in  *)
(* any other way says nothing about its handler, which may even start      *)
(* later: the caller has given up on an invocation the peer still serves.  *)
(* "refused" says who refused, not which status the caller sees.           *)
(***************************************************************************)
CONSTANT Calls

VARIABLES
    caller,  \* where the calling goroutine is
    exec,    \* where the handler of the call is
    answer   \* what the call returned

contractVars == <<caller, exec, answer>>

NoAnswer == [kind |-> "none", payload |-> {}]
Answers == [kind: {"result", "refused", "failed"}, payload: SUBSET Calls]

ContractInit ==
    /\ caller = [k \in Calls |-> "idle"]
    /\ exec = [k \in Calls |-> "none"]
    /\ answer = [k \in Calls |-> NoAnswer]

Issue(k) ==
    /\ caller[k] = "idle"
    /\ caller' = [caller EXCEPT ![k] = "pending"]
    /\ UNCHANGED <<exec, answer>>

\* The session has ended or the payload is too large.
TurnAway(k) ==
    /\ caller[k] = "idle"
    /\ caller' = [caller EXCEPT ![k] = "turnedAway"]
    /\ answer' = [answer EXCEPT ![k] = [kind |-> "failed", payload |-> {}]]
    /\ UNCHANGED exec

Execute(k) ==
    /\ caller[k] \in {"pending", "returned"}
    /\ exec[k] = "none"
    /\ answer[k].kind # "refused"
    /\ exec' = [exec EXCEPT ![k] = "running"]
    /\ UNCHANGED <<caller, answer>>

Finish(k) ==
    /\ exec[k] = "running"
    /\ exec' = [exec EXCEPT ![k] = "finished"]
    /\ UNCHANGED <<caller, answer>>

Return(k) ==
    /\ caller[k] = "pending"
    /\ caller' = [caller EXCEPT ![k] = "returned"]
    /\ \E a \in Answers :
          /\ a.kind = "result" => exec[k] = "finished" /\ a.payload = {k}
          /\ a.kind = "refused" => exec[k] = "none"
          /\ answer' = [answer EXCEPT ![k] = a]
    /\ UNCHANGED exec

ContractNext == \E k \in Calls : Issue(k) \/ TurnAway(k) \/ Execute(k) \/ Finish(k) \/ Return(k)

ContractSpec == ContractInit /\ [][ContractNext]_contractVars
=============================================================================
