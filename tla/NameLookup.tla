----------------------------- MODULE NameLookup -----------------------------
(***************************************************************************)
(* What resolving a name promises its callers (DNS capture and the proxy), *)
(* whatever the number of nodes, sets, timeouts and late answers behind    *)
(* it: a call that succeeds returns a version of the owner's record that   *)
(* some node served between the moment the call began and the moment it    *)
(* returned, and not one that says the domain is gone unless a node that   *)
(* cannot say so served it.                                                *)
(***************************************************************************)
EXTENDS Integers, Sequences

CONSTANTS Nodes, Legacy, Keys, Calls, MaxVersion

VARIABLES record, has, status, since, answer

vars == <<record, has, status, since, answer>>

Init ==
    /\ record = <<>>
    /\ has = [n \in Nodes |-> 0]
    /\ status = [c \in Calls |-> "idle"]
    /\ since = [c \in Calls |-> [n \in Nodes |-> 0]]
    /\ answer = [c \in Calls |-> 0]

Publish(k, f) ==
    /\ record' = Append(record, [key |-> k, found |-> f])
    /\ UNCHANGED <<has, status, since, answer>>

Sync(n) ==
    /\ \E v \in (has[n] + 1)..Len(record) : has' = [has EXCEPT ![n] = v]
    /\ UNCHANGED <<record, status, since, answer>>

Call(c) ==
    /\ status[c] = "idle"
    /\ status' = [status EXCEPT ![c] = "busy"]
    /\ since' = [since EXCEPT ![c] = has]
    /\ UNCHANGED <<record, has, answer>>

(* Version v was served by node n at some moment of call c. *)
Served(c, n, v) ==
    /\ v >= 1 /\ since[c][n] <= v /\ v <= has[n]
    /\ n \in Legacy \/ record[v].found

Succeed(c) ==
    /\ status[c] = "busy"
    /\ \E n \in Nodes, v \in 1..Len(record) :
           Served(c, n, v) /\ answer' = [answer EXCEPT ![c] = v]
    /\ status' = [status EXCEPT ![c] = "done"]
    /\ UNCHANGED <<record, has, since>>

Fail(c) ==
    /\ status[c] = "busy"
    /\ status' = [status EXCEPT ![c] = "done"]
    /\ UNCHANGED <<record, has, since, answer>>

(* With no node to ask, the call fails as soon as it is made. *)
FailAtOnce(c) ==
    /\ status[c] = "idle"
    /\ status' = [status EXCEPT ![c] = "done"]
    /\ since' = [since EXCEPT ![c] = has]
    /\ UNCHANGED <<record, has, answer>>

Return(c) ==
    /\ status[c] = "done"
    /\ status' = [status EXCEPT ![c] = "idle"]
    /\ since' = [since EXCEPT ![c] = [n \in Nodes |-> 0]]
    /\ answer' = [answer EXCEPT ![c] = 0]
    /\ UNCHANGED <<record, has>>

Next == \/ \E k \in Keys, f \in BOOLEAN : Publish(k, f)
        \/ \E n \in Nodes : Sync(n)
        \/ \E c \in Calls : Call(c) \/ Succeed(c) \/ Fail(c) \/ FailAtOnce(c) \/ Return(c)

Spec == Init /\ [][Next]_vars
=============================================================================
