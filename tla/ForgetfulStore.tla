--------------------------- MODULE ForgetfulStore ---------------------------
(***************************************************************************)
(* What the ORM relies on in a cache client (CacheClient, interfaces.go):  *)
(* a store that may forget any entry at any time. A call of a client takes *)
(* effect between its start and its return. A write or a removal happens   *)
(* at one instant; a read looks at the entry at one instant and replies    *)
(* with what it saw, or not at all; an increment writes the successor of   *)
(* what it saw.                                                            *)
(***************************************************************************)
EXTENDS Naturals

CONSTANTS
    Clients, Keys,
    Marker,     \* the string NoneResult
    Payloads,   \* encoded rows and identifier lists
    Absent, Error

VARIABLES
    content,    \* each key's entry
    phase,      \* each client's call: "idle", "called", "seen" or "done"
    call,       \* its operation and arguments
    seen,       \* what its read saw
    reply       \* what it will return

vars == <<content, phase, call, seen, reply>>

Strings == Nat \cup {Marker}
Values == Strings \cup Payloads

Reads == [op : {"get", "decode", "expire"}, key : Keys, val : {Absent}, ttl : BOOLEAN]
Writes == [op : {"set"}, key : Keys, val : Values, ttl : BOOLEAN]
Removals == [op : {"delete"}, key : Keys, val : {Absent}, ttl : {FALSE}]
Increments == [op : {"incr"}, key : Keys, val : {Absent}, ttl : {FALSE}]
Calls == Reads \cup Writes \cup Removals \cup Increments
NoCall == [op |-> "none", key |-> Absent, val |-> Absent, ttl |-> FALSE]

\* A string that is no number counts as zero.
Successor(v) == IF v \in Nat THEN v + 1 ELSE 1

Init ==
    /\ content = [k \in Keys |-> Absent]
    /\ phase = [c \in Clients |-> "idle"]
    /\ call = [c \in Clients |-> NoCall]
    /\ seen = [c \in Clients |-> Absent]
    /\ reply = [c \in Clients |-> Absent]

Goto(c, p) == phase' = [phase EXCEPT ![c] = p]

Invoke(c) ==
    /\ phase[c] = "idle"
    /\ call'[c] \in Calls
    /\ call' = [call EXCEPT ![c] = call'[c]]
    /\ Goto(c, "called")
    /\ UNCHANGED <<content, seen, reply>>

See(c) ==
    /\ phase[c] = "called" /\ call[c].op \in {"get", "decode", "expire", "incr"}
    /\ seen' = [seen EXCEPT ![c] = content[call[c].key]]
    /\ Goto(c, "seen")
    /\ UNCHANGED <<content, call, reply>>

Write(c) ==
    /\ phase[c] = "called" /\ call[c].op = "set"
    /\ content' = [content EXCEPT ![call[c].key] = call[c].val]
    /\ Goto(c, "done")
    /\ UNCHANGED <<call, seen, reply>>

Remove(c) ==
    /\ phase[c] = "called" /\ call[c].op = "delete"
    /\ content' = [content EXCEPT ![call[c].key] = Absent]
    /\ Goto(c, "done")
    /\ UNCHANGED <<call, seen, reply>>

Increment(c) ==
    /\ phase[c] = "seen" /\ call[c].op = "incr"
    /\ content' = [content EXCEPT ![call[c].key] = Successor(seen[c])]
    /\ reply' = [reply EXCEPT ![c] = Successor(seen[c])]
    /\ seen' = [seen EXCEPT ![c] = Absent]
    /\ Goto(c, "done")
    /\ UNCHANGED call

Reply(c) ==
    /\ phase[c] = "seen" /\ call[c].op # "incr"
    /\ reply' \in {[reply EXCEPT ![c] = r] : r \in {seen[c], Absent, Error}}
    /\ seen' = [seen EXCEPT ![c] = Absent]
    /\ Goto(c, "done")
    /\ UNCHANGED <<content, call>>

\* A call that was cancelled before it did anything.
Fail(c) ==
    /\ phase[c] = "called"
    /\ reply' = [reply EXCEPT ![c] = Error]
    /\ Goto(c, "done")
    /\ UNCHANGED <<content, call, seen>>

Return(c) ==
    /\ phase[c] = "done"
    /\ Goto(c, "idle")
    /\ reply' = [reply EXCEPT ![c] = Absent]
    /\ call' = [call EXCEPT ![c] = NoCall]
    /\ UNCHANGED <<content, seen>>

Forget(k) ==
    /\ content' = [content EXCEPT ![k] = Absent]
    /\ UNCHANGED <<phase, call, seen, reply>>

Next ==
    \/ \E c \in Clients :
        \/ Invoke(c) \/ See(c) \/ Write(c) \/ Remove(c) \/ Increment(c)
        \/ Reply(c) \/ Fail(c) \/ Return(c)
    \/ \E k \in Keys : Forget(k)

Spec == Init /\ [][Next]_vars

=============================================================================
