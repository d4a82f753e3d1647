--------------------------- MODULE FSStoreRefines ---------------------------
(***************************************************************************)
(* The directories of FSStore implement Registry.  The two renames of a    *)
(* forced Create are one Put: between them the registry still holds what   *)
(* the .bak directory holds.                                               *)
(***************************************************************************)
EXTENDS FSStore

\* A worker between the two renames, or about to undo the first.
Swapping(w, s, v) ==
    /\ pc[w] \in {"install", "restore"} /\ home[w] # None
    /\ req[w].skill = s /\ req[w].version = v

RegOf(s, v) ==
    IF Homes(s, v) # {} THEN live[<<CHOOSE a \in Homes(s, v) : TRUE, s, v>>]
    ELSE IF \E w \in Workers : Swapping(w, s, v)
           THEN saved[CHOOSE w \in Workers : Swapping(w, s, v)]
           ELSE None

Progress(l) ==
    CASE l = "removing" -> "damaged"
      [] l \in {"discard", "readIndex", "openTmp", "writeTmp", "renameIndex", "cleanup"} -> "done"
      [] OTHER -> "pending"

CallOf(w) ==
    IF pc[w] = "idle" \/ req[w].op \notin {"create", "delete"} THEN None
    ELSE [req |-> [op |-> req[w].op, key |-> <<req[w].skill, req[w].version>>,
                   content |-> req[w].content, force |-> req[w].force],
          out |-> IF pc[w] = "reply" THEN answer[w] ELSE Progress(pc[w])]

\* None is no call.
ASSUME NoCallAssumption ==
    None \notin [req : [op : {"create", "delete"}, key : Skills \X Versions,
                        content : Contents, force : BOOLEAN],
                 out : {"pending", "damaged", "done", "ok", "exists", "notfound", "error"}]

(* Every write call takes effect on the published map at one instant, in   *)
(* an order all callers agree on, and is answered according to it: the     *)
(* Create and Delete of the store implement the registry, for writers of   *)
(* different skills and of the same one, through one failure of the disk   *)
(* as if it had not been, and through crashes at the price of the versions *)
(* being replaced just then (Create, Delete, lockSkill).                   *)
R == INSTANCE Registry WITH
        Keys <- Skills \X Versions, Clients <- Workers, Damaged <- Partial,
        reg <- [x \in Skills \X Versions |-> RegOf(x[1], x[2])],
        call <- [w \in Workers |-> CallOf(w)],
        broken <- crashes > 0 \/ faults > 1
ImplementsRegistry == R!Spec
=============================================================================
