------------------------------ MODULE BpHandle ------------------------------
(***************************************************************************)
(* What a breakpoint handle promises its client: once armed it stops the   *)
(* target, and the target stays stopped until the client asks for it to be *)
(* resumed; a request is answered by exactly one resumption and is never   *)
(* carried over to a later stop.                                           *)
(***************************************************************************)

CONSTANT Handles

VARIABLES
    st,     \* "none", "armed", "stopped" or "closed"
    asked   \* a resumption was asked for and not performed yet

hvars == <<st, asked>>

Init == /\ st = [h \in Handles |-> "none"]
        /\ asked = [h \in Handles |-> FALSE]

Become(h, from, to) == /\ st[h] = from
                       /\ st' = [st EXCEPT ![h] = to]

Open(h) == Become(h, "none", "armed") /\ UNCHANGED asked

Stop(h) == Become(h, "armed", "stopped") /\ ~ asked[h] /\ UNCHANGED asked

Ask(h) == /\ st[h] = "stopped"
          /\ asked' = [asked EXCEPT ![h] = TRUE]
          /\ UNCHANGED st

Resume(h) == /\ asked[h]
             /\ Become(h, "stopped", "armed")
             /\ asked' = [asked EXCEPT ![h] = FALSE]

Close(h) == /\ st[h] \in {"armed", "stopped"}
            /\ st' = [st EXCEPT ![h] = "closed"]
            /\ asked' = [asked EXCEPT ![h] = FALSE]

Next == \E h \in Handles : Open(h) \/ Stop(h) \/ Ask(h) \/ Resume(h) \/ Close(h)

Spec == Init /\ [][Next]_hvars

=============================================================================
