-------------------------- MODULE HandoffProtocol --------------------------
(***************************************************************************)
(* The hand-off protocol without models, tools, files or threads: a chain  *)
(* hands a deal along its plan, one recorded hand-off per agent; an        *)
(* emergency stop is the last; the guardrail stops every deal whose margin *)
(* is too thin.  HandoffChain is shown to implement this module.           *)
(***************************************************************************)
EXTENDS Naturals, Sequences

CONSTANTS Chains,       \* requests for a chain of hand-offs
          Agents,       \* the agents of the registry
          Guardrail     \* the agent that vetoes thin margins

VARIABLES plan,         \* [Chains -> the agents in their order]
          thin,         \* [Chains -> the margin of the deal is too thin]
          trail,        \* [Chains -> the hand-offs recorded so far]
          outcome       \* [Chains -> waiting, running, or how the chain ended]

protocol == <<plan, thin, trail, outcome>>

Statuses == {"COMPLETE", "IN_PROGRESS", "EMERGENCY_STOP"}

Init == /\ plan = [c \in Chains |-> <<>>]
        /\ thin = [c \in Chains |-> FALSE]
        /\ trail = [c \in Chains |-> <<>>]
        /\ outcome = [c \in Chains |-> "waiting"]

\* A request comes in and its agents are planned.
Begin(c) == /\ outcome[c] = "waiting"
            /\ plan'[c] \in Seq(Agents) /\ plan' = [plan EXCEPT ![c] = plan'[c]]
            /\ thin'[c] \in BOOLEAN /\ thin' = [thin EXCEPT ![c] = thin'[c]]
            /\ outcome' = [outcome EXCEPT ![c] = "running"]
            /\ UNCHANGED trail

\* The next agent of the plan hands the deal on, ends the chain or stops it.
Handoff(c, status) ==
  LET n == Len(trail[c]) + 1
  IN  /\ outcome[c] = "running" /\ n <= Len(plan[c])
      /\ plan[c][n] = Guardrail /\ thin[c] => status = "EMERGENCY_STOP"
      /\ trail' = [trail EXCEPT ![c] = Append(@, [agent |-> plan[c][n], status |-> status])]
      /\ outcome' = [outcome EXCEPT ![c] =
                       IF status = "EMERGENCY_STOP" THEN "stopped"
                       ELSE IF n = Len(plan[c]) THEN "complete" ELSE "running"]
      /\ UNCHANGED <<plan, thin>>

\* Chains are given up: an answer that breaks the protocol, an error, or a crash,
\* which ends all of them at once.
Break(gone) ==
  /\ gone # {} /\ \A c \in gone : outcome[c] = "running"
  /\ outcome' = [c \in Chains |-> IF c \in gone THEN "failed" ELSE outcome[c]]
  /\ UNCHANGED <<plan, thin, trail>>

Next == \/ \E c \in Chains : Begin(c) \/ \E status \in Statuses : Handoff(c, status)
        \/ \E gone \in SUBSET Chains : Break(gone)

Spec == Init /\ [][Next]_protocol
=============================================================================
