------------------------------ MODULE Registry ------------------------------
(***************************************************************************)
(* What the skill store promises to those who write to it: a map from      *)
(* <<skill, version>> to content in which a published version is put in    *)
(* one step, is replaced only on request, and every call takes effect at   *)
(* one instant between its arrival and its answer.  Delete is the one      *)
(* operation that may be seen half done: the version is Damaged before it  *)
(* is gone.  A call that is answered "error" may or may not have happened. *)
(* One failure of the disk never loses a version.  A crash, or a second    *)
(* failure, may lose one, and only one that was being replaced then.       *)
(***************************************************************************)
CONSTANTS Keys, Contents, Clients, None, Damaged

VARIABLES
    reg, call,
    broken      \* the store has crashed, or its disk has failed twice
vars == <<reg, call, broken>>

Request == [op : {"create", "delete"}, key : Keys, content : Contents, force : BOOLEAN]

Init ==
    /\ reg = [k \in Keys |-> None]
    /\ call = [c \in Clients |-> None]
    /\ broken = FALSE

\* The call of client c goes from one stage to another.
Moves(c, from, to) ==
    /\ call[c] # None /\ call[c].out = from
    /\ call' = [call EXCEPT ![c].out = to]

Invoke(c) ==
    /\ call[c] = None
    /\ \E r \in Request : call' = [call EXCEPT ![c] = [req |-> r, out |-> "pending"]]
    /\ UNCHANGED reg

Refuse(c) ==
    /\ \/ /\ Moves(c, "pending", "exists")
          /\ call[c].req.op = "create" /\ ~call[c].req.force
          /\ reg[call[c].req.key] # None
       \/ /\ Moves(c, "pending", "notfound")
          /\ call[c].req.op = "delete" /\ reg[call[c].req.key] = None
    /\ UNCHANGED reg

Put(c) ==
    /\ Moves(c, "pending", "done") /\ call[c].req.op = "create"
    /\ call[c].req.force \/ reg[call[c].req.key] = None
    /\ reg' = [reg EXCEPT ![call[c].req.key] = call[c].req.content]

Damage(c) ==
    /\ Moves(c, "pending", "damaged") /\ call[c].req.op = "delete"
    /\ reg[call[c].req.key] # None
    /\ reg' = [reg EXCEPT ![call[c].req.key] = Damaged]

Remove(c) ==
    /\ Moves(c, "damaged", "done")
    /\ reg' = [reg EXCEPT ![call[c].req.key] = None]

Succeed(c) == Moves(c, "done", "ok") /\ UNCHANGED reg
GiveUp(c) == /\ \E from \in {"pending", "damaged", "done"} : Moves(c, from, "error")
             /\ UNCHANGED reg

Receive(c) ==
    /\ call[c] # None /\ call[c].out \in {"ok", "exists", "notfound", "error"}
    /\ call' = [call EXCEPT ![c] = None]
    /\ UNCHANGED reg

\* A call in progress is to replace what key k holds.
Replaced(k) == \E c \in Clients : /\ call[c] # None /\ call[c].out = "pending"
                                  /\ call[c].req.op = "create" /\ call[c].req.force
                                  /\ call[c].req.key = k

Lose(c) ==
    /\ Moves(c, "pending", "error") /\ Replaced(call[c].req.key)
    /\ reg' = [reg EXCEPT ![call[c].req.key] = None]

Crash ==
    /\ call' = [c \in Clients |-> None]
    /\ \E gone \in SUBSET {k \in Keys : Replaced(k)} :
          reg' = [k \in Keys |-> IF k \in gone THEN None ELSE reg[k]]

Serve(c) == \/ Invoke(c) \/ Refuse(c) \/ Put(c) \/ Damage(c) \/ Remove(c)
            \/ Succeed(c) \/ GiveUp(c) \/ Receive(c)

Next ==
    \/ /\ (\E c \in Clients : Serve(c)) \/ UNCHANGED <<reg, call>>
       /\ broken' \in {broken, TRUE}
    \/ /\ (\E c \in Clients : Lose(c)) \/ Crash
       /\ broken'

Spec == Init /\ [][Next]_vars
=============================================================================
