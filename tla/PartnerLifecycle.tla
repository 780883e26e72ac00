-------------------------- MODULE PartnerLifecycle --------------------------
(***************************************************************************)
(* What the sandbox promises its partners, without handlers, files that    *)
(* are read and rewritten, or logs: a partner joins, is admitted to the    *)
(* sandbox, and graduates when it holds a production key and is no longer  *)
(* admitted.  Only a crash undoes a graduation, by losing a whole file, or *)
(* gets a partner a second key, by cutting off the graduation that issued  *)
(* the first.                                                              *)
(* PartnerGraduation is shown to implement this module when the event loop *)
(* is its only writer.                                                     *)
(***************************************************************************)
EXTENDS Naturals

CONSTANT Partners

VARIABLES known,        \* ids that have been given out
          stage,        \* [Partners -> "none", "candidate" or "graduated"]
          admitted,     \* who is let into the sandbox
          keys,         \* [Partners -> how many production keys work]
          crashes       \* how often the process has died

life == <<known, stage, admitted, keys, crashes>>

NoStage == [p \in Partners |-> "none"]
NoKeys == [p \in Partners |-> 0]

Init == known = {} /\ stage = NoStage /\ admitted = {} /\ keys = NoKeys /\ crashes = 0

GiveId(p) == /\ p \notin known
             /\ known' = known \cup {p}
             /\ UNCHANGED <<stage, admitted, keys, crashes>>

\* Only a partner of whom nothing is known joins.
Join(p) == /\ p \in known /\ stage[p] = "none" /\ p \notin admitted /\ keys[p] = 0
           /\ stage' = [stage EXCEPT ![p] = "candidate"]
           /\ UNCHANGED <<known, admitted, keys, crashes>>

Admit(p) == /\ stage[p] = "candidate"
            /\ admitted' = admitted \cup {p}
            /\ UNCHANGED <<known, stage, keys, crashes>>

Issue(p) == /\ stage[p] = "candidate" /\ keys[p] <= crashes
            /\ keys' = [keys EXCEPT ![p] = @ + 1]
            /\ UNCHANGED <<known, stage, admitted, crashes>>

Expel(p) == /\ stage[p] = "candidate" /\ keys[p] > 0
            /\ admitted' = admitted \ {p}
            /\ UNCHANGED <<known, stage, keys, crashes>>

Graduate(p) == /\ stage[p] = "candidate" /\ keys[p] > 0 /\ p \notin admitted
               /\ stage' = [stage EXCEPT ![p] = "graduated"]
               /\ UNCHANGED <<known, admitted, keys, crashes>>

\* A crash loses one of the files, or nothing.
Crash == /\ crashes' = crashes + 1
         /\ \/ UNCHANGED <<stage, admitted, keys>>
            \/ stage' = NoStage /\ UNCHANGED <<admitted, keys>>
            \/ admitted' = {} /\ UNCHANGED <<stage, keys>>
            \/ keys' = NoKeys /\ UNCHANGED <<stage, admitted>>
         /\ UNCHANGED known

Next == \/ \E p \in Partners :
             GiveId(p) \/ Join(p) \/ Admit(p) \/ Issue(p) \/ Expel(p) \/ Graduate(p)
        \/ Crash

Spec == Init /\ [][Next]_life
=============================================================================
