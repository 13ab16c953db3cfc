----------------------------- MODULE ObjectLife -----------------------------
(***************************************************************************)
(* The life of one XObject: what references to it, from the table of       *)
(* handles and from calls, may rely on.  Every object of ObjectTable is    *)
(* shown by proof to be one.                                               *)
(***************************************************************************)
VARIABLES status,       \* "new", "live" or "deleted"
          references    \* whatever leads to it

lifeVars == <<status, references>>

Init == status = "new" /\ references = {}

\* It is made with the first references to it.
Make == /\ status = "new"
        /\ status' = "live" /\ references' # {}

\* References come and go while there is one.
Refer == /\ status = "live" /\ references # {}
         /\ references' # {}
         /\ UNCHANGED status

\* It is deleted as the last one goes, and no reference leads to it again.
Delete == /\ status = "live"
          /\ status' = "deleted" /\ references' = {}

Next == Make \/ Refer \/ Delete

Spec == Init /\ [][Next]_lifeVars
=============================================================================
