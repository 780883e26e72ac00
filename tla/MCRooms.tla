------------------------------ MODULE MCRooms ------------------------------
(* A small instance of Rooms for TLC. *)
EXTENDS Rooms, TLC

CONSTANTS a1, a2, r1, r2, l1, p1, d1, t1, wide, narrow, sales

TwoAgents == {a1, a2}
TwoRooms == {r1, r2}
OneListing == {l1}
OnePayment == {p1}
OneDeal == {d1}
TwoTopics == {wide, narrow}
\* A search for the narrow topic finds hubs about the wide one too.
Search == {<<t, t>> : t \in TwoTopics} \cup {<<narrow, wide>>}
OneTitle == {t1}
FreeOrPaid == {0, 4000, NaN}
Guests == {<<>>, <<a1, a2>>}
\* None, sound unless the agent is watched, poor, and such as are no numbers.
SomeFigures == {<<None, None>>, <<4000, 3100>>, <<4000, 3800>>, <<NaN, 3100>>, <<Infinite, None>>}
LowConfidence == {83}
OneTier == {sales}
TierMargin == [t \in OneTier |-> 20]
\* Through, without a look at the margin, and stopped by the arbiter.
Through == [stop |-> FALSE, margin |-> TRUE, qc |-> TRUE]
Unchecked == [stop |-> FALSE, margin |-> FALSE, qc |-> TRUE]
Vetoed == [stop |-> TRUE, margin |-> TRUE, qc |-> FALSE]
SomeOutcomes == {Through, Unchecked, Vetoed}
Run(deal, outcome) == [deal |-> deal, day |-> 1, stop |-> outcome.stop,
                       margin |-> outcome.margin, qc |-> outcome.qc]

Known == [active |-> TRUE, verified |-> TRUE, listed |-> TRUE, current |-> TRUE]
Unproven == [active |-> TRUE, verified |-> FALSE, listed |-> FALSE, current |-> FALSE]
Talk == [participants |-> <<a1, a2>>, deal |-> None, messages |-> 1, status |-> "open",
         type |-> None, confirmed |-> FALSE, check |-> None]
Agreed == [Talk EXCEPT !.status = "closed", !.type = Commitment, !.confirmed = TRUE,
                       !.check = ByFigures(4000, 500, sales)]
Left == [Talk EXCEPT !.status = "closed", !.type = Commitment]

NoHistory ==
  [accounts |-> [a \in TwoAgents |-> Known], audit |-> <<Run(l1, Unchecked)>>,
   rooms |-> [r \in TwoRooms |-> None], listings |-> [l \in OneListing |-> None],
   payments |-> [p \in OnePayment |-> None], events |-> EmptyBag,
   stored |-> [x \in TwoRooms \cup OneListing |-> 0]]
\* Two unproven agents: one room left without a commitment, another one is open; one of
\* them has referred others already.
Watched == [NoHistory EXCEPT !.audit = <<Run(d1, Vetoed)>>,
                             !.accounts = [a \in TwoAgents |-> Unproven],
                             !.rooms = [r \in TwoRooms |-> IF r = r1 THEN Left ELSE Talk],
                             !.events = SetToBag({ReferralReward(a1)})]
\* The commitment of a room was closed twice: its agents are trusted.
Trusted == [NoHistory EXCEPT !.audit = <<Run(d1, Through)>>, !.rooms[r1] = Agreed, !.stored[r1] = 2,
              !.events = [e \in {[agent |-> a, about |-> r1, delta |-> 5] : a \in TwoAgents} |-> 2],
              !.payments[p1] = [deal |-> None, amount |-> 4000, confirmed |-> FALSE]]
SomeHistories == {NoHistory, Watched, Trusted}
=============================================================================
