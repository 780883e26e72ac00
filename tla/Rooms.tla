------------------------------- MODULE Rooms -------------------------------
(***************************************************************************)
(* The Agent Hangout (arclya2a/agents: hangouts, deal_rooms, marketplace,  *)
(* hangout_guardrails, reputation).  Agents talk and close in deal rooms,  *)
(* complete each other's listings and gather in hubs.  A close that counts *)
(* as a commitment must be verified: by a handoff chain that was audited,  *)
(* or by its own figures.  Verified closes earn reputation, so do referred *)
(* agents, and reputation sets how strict the next verification is.        *)
(*                                                                         *)
(* Handlers run on the event loop, one at a time, but wait for the body of *)
(* their request after they have looked up the caller.  Every row of a     *)
(* jsonl file is stored by itself; the process may die between two.        *)
(***************************************************************************)
EXTENDS Integers, Sequences, FiniteSetsExt, Bags

CONSTANTS
  None,
  NaN, Infinite,    \* what float() makes of a figure that is no number, or too large for one
  Agents, RoomIds, ListingIds, PaymentIds,
  Deals,            \* deal ids of handoff chains; a listing's id is one too
  Topics, Finds,    \* <<t, u>> \in Finds: a search for t finds a hub about u
  Titles, Prices,   \* of listings, in cents; a listing without a price has price 0
  Invites,          \* lists of agents a room may be opened with
  Figures,          \* <<revenue, cost>> a caller may hand in, in cents
  Confidences,
  Tiers, MinMargin, \* pricing_menu.json: [Tiers -> percent]
  Outcomes,         \* how chains may end: [stop, margin, qc]
  Histories,        \* what may be stored when the server starts
  MaxParticipants, MaxMessages, MaxActive, MaxListings, MaxHubs, MaxMembers,
  MaxRequests, MaxRuns, MaxDays, MaxReferrals, MaxCrashes   \* bounds of the model

Commitment == "lead_routing_commitment"
CloseTypes == {Commitment, "exploratory"}   \* a service_agreement closes like the latter
VetoThreshold == 10   \* veto_threshold_percent

Opt(S) == S \cup {None}
Floats(S) == S \cup {NaN, Infinite}

ASSUME RoomsAssumption ==
  /\ MinMargin \in [Tiers -> 0 .. 100] /\ Finds \subseteq Topics \X Topics
  /\ Prices \subseteq Floats(Nat) /\ MaxParticipants \in Nat \ {0} /\ MaxMessages \in Nat \ {0}
  /\ \A t \in Topics : <<t, t>> \in Finds
  /\ Invites \subseteq Seq(Agents)
  /\ \A f \in Figures : f[1] \in Opt(Floats(Int)) /\ f[2] \in Opt(Floats(Int))
  /\ Outcomes \subseteq [stop : BOOLEAN, margin : BOOLEAN, qc : BOOLEAN]

VARIABLES
  accounts,   \* [Agents -> [active, verified, listed, current]]
  audit,      \* rows handoff_chain_complete, each in the file of its day
  today,
  rooms,      \* deal_rooms.jsonl: the latest row of each room, or None
  listings,   \* marketplace_listings.jsonl: the latest row of each listing, or None
  hubs,       \* collaboration_hubs.jsonl: the latest rows, the newest first
  events,     \* reputation_events.jsonl, a bag
  payments,   \* [PaymentIds -> a payment, or None]
  waiting,    \* callers whose handlers wait for the body
  due,        \* reputation events the handler under way has still to write
  stored,     \* history: rows of closes that earn reputation, by room or listing
  requests, crashes

vars == <<accounts, audit, today, rooms, listings, hubs, events, payments, waiting, due,
          stored, requests, crashes>>

Init ==
  /\ \E h \in Histories :
       /\ accounts = h.accounts /\ audit = h.audit
       /\ rooms = h.rooms /\ listings = h.listings /\ payments = h.payments
       /\ events = h.events /\ stored = h.stored
  /\ today = 1 /\ hubs = <<>>
  /\ waiting = {} /\ due = <<>> /\ requests = 0 /\ crashes = 0

-----------------------------------------------------------------------------
(* Reputation *)

\* A commitment is worth 5 points, a completed sale 4, a completed gift 2; a referred agent
\* that completes its onboarding is worth 6 to the one who referred it.
Worths == {2, 4, 5}
ReferralWorth == 6
Reward(a, x, worth) == [agent |-> a, about |-> x, delta |-> worth]
ReferralReward(a) == Reward(a, None, ReferralWorth)
Copies(e, bag) == IF BagIn(e, bag) THEN bag[e] ELSE 0

AtMost(x, bound) == IF x > bound THEN bound ELSE x
AtLeast(x, bound) == IF x < bound THEN bound ELSE x
Points(holds, n) == IF holds THEN n ELSE 0

\* _deal_room_close_rows, _constitutional_deal_room_closes
Closes(a) ==
  {r \in RoomIds : /\ rooms[r] # None /\ rooms[r].status = "closed"
                   /\ rooms[r].type = Commitment
                   /\ \E i \in DOMAIN rooms[r].participants : rooms[r].participants[i] = a}
CheckedCloses(a) == {r \in Closes(a) : rooms[r].check # None}

\* _marketplace_completion_rows, _constitutional_marketplace_completions
Completions(a) ==
  {l \in ListingIds : /\ listings[l] # None /\ listings[l].poster = a
                      /\ listings[l].status = "completed"}
CheckedCompletions(a) ==
  {l \in Completions(a) : listings[l].check # None \/ listings[l].price = 0}

EventBonus(a) ==
  MapThenSumSet(LAMBDA e : e.delta * events[e],
                {e \in BagToSet(events) : e.agent = a})

\* _compute_trust_score_raw
TrustScore(a) ==
  LET standing == accounts[a]
      closes == Cardinality(Closes(a))
      checked == Cardinality(CheckedCloses(a))
  IN  AtMost(40 + Points(standing.verified, 10) + Points(standing.listed, 8)
                + Points(standing.current, 5) + Points(standing.active, 5)
                + AtMost(5 * checked, 20) + AtLeast(2 * (checked - closes), -8)
                + AtMost(4 * Cardinality(CheckedCompletions(a)), 12)
                + AtMost(EventBonus(a), 10), 100)

\* guardrail_strictness, _strictness_from_score
Strictness(a) ==
  CASE TrustScore(a) < 40  -> [close |-> 92, message |-> 75, multiplier |-> 115]
    [] TrustScore(a) >= 80 -> [close |-> 82, message |-> 65, multiplier |-> 100]
    [] OTHER               -> [close |-> 85, message |-> 70, multiplier |-> 100]

\* A confidence left out is the least that is enough.
Enough(confidence, least) == confidence # None => confidence >= least

-----------------------------------------------------------------------------
(* Verification of a close *)

\* find_handoff_chain_outcome: the newest day that has a row, and its oldest row.
RunsAbout(deal, run) ==
  {i \in DOMAIN audit : (run # None /\ i = run) \/ (deal # None /\ audit[i].deal = deal)}
RunFound(deal, run) ==
  CHOOSE i \in RunsAbout(deal, run) :
    \A j \in RunsAbout(deal, run) :
      audit[i].day > audit[j].day \/ (audit[i].day = audit[j].day /\ i <= j)

\* Mutant: the arbiter's word is enough.
ArbiterPassed(row) == ~row.stop /\ row.qc

\* _outcome_from_orchestrator_record
RunPassed(row) == ~row.stop /\ row.margin /\ row.qc

Positive(x) == x = Infinite \/ (x # NaN /\ x > 0)

\* The margin of these figures is no number.
Unmeasured(revenue, cost) == revenue \in {NaN, Infinite} \/ cost = NaN

\* check_margin_guardrail, where what is no number is below nothing.
MarginApproved(revenue, cost, multiplier, tier) ==
  LET margin == 100 * revenue - multiplier * cost   \* in percent of the revenue
  IN  /\ revenue = NaN \/ Positive(revenue)
      /\ \/ Unmeasured(revenue, cost)
         \/ /\ cost # Infinite
            /\ margin >= VetoThreshold * revenue
            /\ margin >= MinMargin[tier] * revenue

ByRun(i) == [method |-> "orchestrator_run", run |-> i, revenue |-> 0, cost |-> 0,
             tier |-> None]
ByFigures(revenue, cost, tier) ==
  [method |-> "lightweight_check", run |-> 0, revenue |-> revenue, cost |-> cost,
   tier |-> tier]

\* validate_hangout_guardrails: the record of a verification that passed, or None.  The
\* confidence has been checked before.
Verification(a, deal, run, revenue, cost, tier, messages) ==
  IF RunsAbout(deal, run) # {}
  THEN LET i == RunFound(deal, run)
       IN  IF RunPassed(audit[i]) THEN ByRun(i) ELSE None
  ELSE IF /\ revenue # None /\ cost # None
          /\ MarginApproved(revenue, cost, Strictness(a).multiplier, tier)
          /\ messages >= 1
       THEN ByFigures(revenue, cost, tier)
       ELSE None

-----------------------------------------------------------------------------
(* Requests *)

Free == due = <<>>   \* no handler is between two writes

\* _require_agent, before the body is there.
Authenticate(a) ==
  /\ Free /\ requests < MaxRequests
  /\ a \notin waiting /\ accounts[a].active
  /\ waiting' = waiting \cup {a}
  /\ requests' = requests + 1
  /\ UNCHANGED <<accounts, audit, today, rooms, listings, hubs, events, payments, due, stored,
                 crashes>>

\* The handler goes on: nothing is looked up again.
Handles(a) == Free /\ a \in waiting /\ waiting' = waiting \ {a}

\* A body that cannot be read, or one the handler refuses.
Refuse(a) ==
  /\ Handles(a)
  /\ UNCHANGED <<accounts, audit, today, rooms, listings, hubs, events, payments, due, stored,
                 requests, crashes>>

-----------------------------------------------------------------------------
(* Deal rooms *)

\* Mutant: who is named twice takes part twice.
ParticipantsAsNamed(agents) == SubSeq(agents, 1, AtMost(Len(agents), MaxParticipants))

\* _normalize_participants
Participants(agents) ==
  LET first == {i \in DOMAIN agents : \A j \in 1 .. i - 1 : agents[j] # agents[i]}
      nth(n) == CHOOSE i \in first : Cardinality({j \in first : j <= i}) = n
      distinct == [n \in 1 .. Cardinality(first) |-> agents[nth(n)]]
  IN  SubSeq(distinct, 1, AtMost(Len(distinct), MaxParticipants))

TakesPart(a, r) == \E i \in DOMAIN rooms[r].participants : rooms[r].participants[i] = a

CreateDealRoom(a, invites, deal) ==
  /\ Handles(a)
  /\ \E x \in RoomIds : rooms[x] = None
  /\ LET r == CHOOSE x \in RoomIds : rooms[x] = None
     IN  rooms' = [rooms EXCEPT ![r] =
           [participants |-> Participants(<<a>> \o invites), deal |-> deal, messages |-> 0,
            status |-> "open", type |-> None, confirmed |-> FALSE, check |-> None]]
  /\ UNCHANGED <<accounts, audit, today, listings, hubs, events, payments, due, stored,
                 requests, crashes>>

PostDealRoomMessage(a, r, confidence) ==
  /\ Handles(a)
  /\ rooms[r] # None /\ rooms[r].status = "open" /\ TakesPart(a, r)
  /\ Enough(confidence, Strictness(a).message)
  /\ rooms' = [rooms EXCEPT ![r].messages = AtMost(@ + 1, MaxMessages)]
  /\ UNCHANGED <<accounts, audit, today, listings, hubs, events, payments, due, stored,
                 requests, crashes>>

\* A room may be closed again.  The row is stored first, then an event for everyone who
\* took part.
CloseDealRoom(a, r, type, confirmed, confidence, deal, run, revenue, cost, tier) ==
  /\ Handles(a)
  /\ rooms[r] # None /\ TakesPart(a, r)
  /\ Enough(confidence, Strictness(a).close)
  /\ LET commits == confirmed /\ type = Commitment
         about == IF deal # None THEN deal ELSE rooms[r].deal
         check == IF commits
                  THEN Verification(a, about, run, revenue, cost, tier, rooms[r].messages)
                  ELSE None
         reward(i) == Reward(rooms[r].participants[i], r, 5)
     IN  /\ commits => check # None
         /\ rooms' = [rooms EXCEPT ![r].status = "closed", ![r].type = type,
                                   ![r].confirmed = confirmed, ![r].check = check]
         /\ due' = IF commits THEN [i \in DOMAIN rooms[r].participants |-> reward(i)] ELSE <<>>
         /\ stored' = [stored EXCEPT ![r] = @ + Points(commits, 1)]
  /\ UNCHANGED <<accounts, audit, today, listings, hubs, events, payments, requests, crashes>>

\* create_deal_room_micropayment, in open rooms and closed ones.
Micropay(a, r, p) ==
  /\ Handles(a)
  /\ rooms[r] # None /\ TakesPart(a, r)
  /\ payments[p] = None
  /\ payments' = [payments EXCEPT ![p] = [deal |-> r, amount |-> 50, confirmed |-> FALSE]]
  /\ UNCHANGED <<accounts, audit, today, rooms, listings, hubs, events, due, stored, requests,
                 crashes>>

-----------------------------------------------------------------------------
(* Marketplace *)

Posted(a) == {l \in ListingIds : listings[l] # None /\ listings[l].poster = a}
Active(a) == {l \in Posted(a) : listings[l].status = "active"}

CreateListing(a, title, price) ==
  /\ Handles(a)
  /\ Cardinality(Active(a)) < MaxActive
  /\ \A l \in Active(a) : listings[l].title # title
  /\ Cardinality(Posted(a)) < MaxListings
  /\ \E x \in ListingIds : listings[x] = None
  /\ LET l == CHOOSE x \in ListingIds : listings[x] = None
     IN  listings' = [listings EXCEPT ![l] =
           [poster |-> a, title |-> title, price |-> price, status |-> "active", check |-> None]]
  /\ UNCHANGED <<accounts, audit, today, rooms, hubs, events, payments, due, stored, requests,
                 crashes>>

\* 15 percent
Share(income) == IF income = Infinite THEN Infinite ELSE (income * 15) \div 100

\* By anyone, in any status.  Figures left out are the price, or the payment, and a share
\* of it; the message count and the confidence handed on are always enough.
CompleteListing(a, l, pay, deal, run, revenue, cost, tier) ==
  /\ Handles(a)
  /\ listings[l] # None
  /\ pay # None => /\ payments[pay] # None /\ payments[pay].confirmed
                   /\ payments[pay].deal \in {None, l}
  /\ LET row == listings[l]
         paid == Positive(row.price) \/ pay # None
         income == CASE revenue # None               -> revenue
                     [] revenue = None /\ pay # None -> payments[pay].amount
                     [] OTHER                        -> row.price
         outlay == IF cost = None /\ Positive(income) THEN Share(income) ELSE cost
         about == IF deal # None THEN deal ELSE l
         check == IF paid THEN Verification(a, about, run, income, outlay, tier, 1) ELSE None
     IN  /\ paid => check # None
         /\ listings' = [listings EXCEPT ![l].status = "completed", ![l].check = check]
         /\ due' = <<Reward(row.poster, l, IF paid THEN 4 ELSE 2)>>
         /\ stored' = [stored EXCEPT ![l] = @ + 1]
  /\ UNCHANGED <<accounts, audit, today, rooms, hubs, events, payments, requests, crashes>>

-----------------------------------------------------------------------------
(* Hubs *)

Member(a, hub) == \E i \in DOMAIN hub.members : hub.members[i] = a

\* The hubs a search finds that have the agent, or room for it: the first one decides.
Suitable(a, topic) ==
  {i \in DOMAIN hubs : /\ <<topic, hubs[i].topic>> \in Finds
                       /\ Member(a, hubs[i]) \/ Len(hubs[i].members) < MaxMembers}
Without(i) == [n \in 1 .. Len(hubs) - 1 |-> IF n < i THEN hubs[n] ELSE hubs[n + 1]]

JoinHub(a, topic) ==
  /\ Handles(a)
  /\ Suitable(a, topic) # {}
  /\ LET i == Min(Suitable(a, topic))
         hub == hubs[i]
     IN  hubs' = IF Member(a, hub) THEN hubs
                 ELSE <<[hub EXCEPT !.members = Append(@, a)]>> \o Without(i)
  /\ UNCHANGED <<accounts, audit, today, rooms, listings, events, payments, due, stored,
                 requests, crashes>>

CreateHub(a, topic) ==
  /\ Handles(a)
  /\ Suitable(a, topic) = {}
  /\ Cardinality({i \in DOMAIN hubs : Member(a, hubs[i])}) < MaxHubs
  /\ hubs' = <<[topic |-> topic, members |-> <<a>>]>> \o hubs
  /\ UNCHANGED <<accounts, audit, today, rooms, listings, events, payments, due, stored,
                 requests, crashes>>

-----------------------------------------------------------------------------
(* What goes on beside the requests *)

\* record_reputation_event, for one agent after the other.
RecordReputationEvent ==
  /\ due # <<>>
  /\ events' = events (+) SetToBag({Head(due)})
  /\ due' = Tail(due)
  /\ UNCHANGED <<accounts, audit, today, rooms, listings, hubs, payments, waiting, stored,
                 requests, crashes>>

\* try_complete_referral, in the handlers of the agent that was referred: the module
\* AgentAccounts tells when, and that it may happen again.
CompleteReferral(a) ==
  /\ Free /\ Copies(ReferralReward(a), events) < MaxReferrals
  /\ events' = events (+) SetToBag({ReferralReward(a)})
  /\ UNCHANGED <<accounts, audit, today, rooms, listings, hubs, payments, waiting, due, stored,
                 requests, crashes>>

\* log_handoff_chain_complete: any caller, in the sandbox or not, names the deal.
EndChain(deal, outcome) ==
  /\ Free /\ Len(audit) < MaxRuns
  /\ audit' = Append(audit, [deal |-> deal, day |-> today, stop |-> outcome.stop,
                             margin |-> outcome.margin, qc |-> outcome.qc])
  /\ UNCHANGED <<accounts, today, rooms, listings, hubs, events, payments, waiting, due, stored,
                 requests, crashes>>

NextDay ==
  /\ today < MaxDays
  /\ today' = today + 1
  /\ UNCHANGED <<accounts, audit, rooms, listings, hubs, events, payments, waiting, due, stored,
                 requests, crashes>>

\* The module CryptoPayments tells how.
ConfirmPayment(p) ==
  /\ Free
  /\ payments[p] # None /\ ~payments[p].confirmed
  /\ payments' = [payments EXCEPT ![p].confirmed = TRUE]
  /\ UNCHANGED <<accounts, audit, today, rooms, listings, hubs, events, waiting, due, stored,
                 requests, crashes>>

\* An operator suspends the account: its requests that wait go on all the same.
Suspend(a) ==
  /\ Free /\ accounts[a].active
  /\ accounts' = [accounts EXCEPT ![a].active = FALSE, ![a].listed = FALSE]
  /\ UNCHANGED <<audit, today, rooms, listings, hubs, events, payments, waiting, due, stored,
                 requests, crashes>>

\* The events still to be written are lost, and nobody writes them later.
Crash ==
  /\ crashes < MaxCrashes
  /\ due # <<>> \/ waiting # {}
  /\ due' = <<>> /\ waiting' = {}
  /\ crashes' = crashes + 1
  /\ UNCHANGED <<accounts, audit, today, rooms, listings, hubs, events, payments, stored,
                 requests>>

InRoom(a) ==
  \/ \E invites \in Invites, deal \in Opt(Deals) : CreateDealRoom(a, invites, deal)
  \/ \E r \in RoomIds, c \in Opt(Confidences) : PostDealRoomMessage(a, r, c)
  \/ \E r \in RoomIds, p \in PaymentIds : Micropay(a, r, p)
  \/ \E r \in RoomIds, c \in Opt(Confidences), deal \in Opt(Deals), run \in Opt(DOMAIN audit),
        figures \in Figures, tier \in Tiers :
       CloseDealRoom(a, r, Commitment, TRUE, c, deal, run, figures[1], figures[2], tier)
  \* What is not a commitment asks for no figures.
  \/ \E r \in RoomIds, c \in Opt(Confidences), close \in CloseTypes \X BOOLEAN, tier \in Tiers :
       /\ close # <<Commitment, TRUE>>
       /\ CloseDealRoom(a, r, close[1], close[2], c, None, None, None, None, tier)

AtMarket(a) ==
  \/ \E title \in Titles, price \in Prices : CreateListing(a, title, price)
  \/ \E l \in ListingIds, pay \in Opt(PaymentIds), deal \in Opt(Deals),
        run \in Opt(DOMAIN audit), figures \in Figures, tier \in Tiers :
       CompleteListing(a, l, pay, deal, run, figures[1], figures[2], tier)

InHub(a) == \E topic \in Topics : JoinHub(a, topic) \/ CreateHub(a, topic)

Next ==
  \/ \E a \in Agents : \/ Authenticate(a) \/ Refuse(a) \/ Suspend(a) \/ CompleteReferral(a)
                       \/ InRoom(a) \/ AtMarket(a) \/ InHub(a)
  \/ RecordReputationEvent
  \/ \E deal \in Deals \cup ListingIds, outcome \in Outcomes : EndChain(deal, outcome)
  \/ NextDay
  \/ \E p \in PaymentIds : ConfirmPayment(p)
  \/ Crash

Spec == Init /\ [][Next]_vars

-----------------------------------------------------------------------------
(* Properties *)

\* What a check must rest on: a chain that ended with the margin approved and the quality
\* check passed and was not stopped, or figures that leave the margin of the tier.  Figures
\* of which no margin can be told are let through as well (check_margin_guardrail).
Rests(check, runs) ==
  \/ /\ check.method = "orchestrator_run"
     /\ check.run \in DOMAIN runs
     /\ ~runs[check.run].stop /\ runs[check.run].margin /\ runs[check.run].qc
  \/ /\ check.method = "lightweight_check"
     /\ \/ Unmeasured(check.revenue, check.cost)
        \/ 100 * (check.revenue - check.cost) >= MinMargin[check.tier] * check.revenue

CloseChecked(room, runs) ==
  (room # None /\ room.type = Commitment /\ room.confirmed) =>
    /\ room.check # None /\ Rests(room.check, runs)
    /\ room.check.method = "lightweight_check" => room.messages > 0
SaleChecked(listing, runs) ==
  (listing # None /\ listing.status = "completed" /\ Positive(listing.price)) =>
    listing.check # None /\ Rests(listing.check, runs)

\* A room that shows a confirmed lead routing commitment, and a completed listing that has
\* a price, carry a check that rests on a chain or on figures, however often they were
\* closed, by whom, and however trusted that agent was (close_deal_room,
\* complete_marketplace_listing).  Figures that are no numbers are not kept out by this.
CommitmentIsChecked ==
  /\ \A r \in RoomIds : CloseChecked(rooms[r], audit)
  /\ \A l \in ListingIds : SaleChecked(listings[l], audit)

Rewards(a, x, bag) == Copies(Reward(a, x, 5), bag) + Copies(Reward(a, x, 4), bag)
                        + Copies(Reward(a, x, 2), bag)

\* What a close earns is paid out at most once to each agent for each row of it that is on
\* record, wherever the process dies in between (record_reputation_event); who closes again
\* stores another row.  Beside these there are only the points for referrals, which have no
\* close behind them and which nothing here limits.
BonusIsEarned ==
  /\ \A e \in BagToSet(events) : \/ e = ReferralReward(e.agent)
                                 \/ /\ e.about \in RoomIds \cup ListingIds
                                    /\ e.delta \in Worths
  /\ \A a \in Agents, x \in RoomIds \cup ListingIds : Rewards(a, x, events) <= stored[x]

-----------------------------------------------------------------------------
(* What may be stored when the server starts: rows the program wrote. *)

Runs == [deal : Deals \cup ListingIds, day : Nat, stop : BOOLEAN, margin : BOOLEAN, qc : BOOLEAN]
Checks == [method : {"orchestrator_run", "lightweight_check"}, run : Nat, revenue : Floats(Int),
           cost : Floats(Int), tier : Opt(Tiers)]
RoomRows == [participants : Seq(Agents), deal : Opt(Deals), messages : Nat,
             status : {"open", "closed"}, type : Opt(CloseTypes), confirmed : BOOLEAN,
             check : Opt(Checks)]
ListingRows == [poster : Agents, title : Titles, price : Floats(Nat),
                status : {"active", "completed"}, check : Opt(Checks)]
Payments == [deal : Opt(RoomIds \cup ListingIds), amount : Floats(Nat), confirmed : BOOLEAN]
CloseEvents == [agent : Agents, about : RoomIds \cup ListingIds, delta : Worths]
Events == CloseEvents \cup {ReferralReward(a) : a \in Agents}

\* Nobody takes part twice.
Distinct(agents) == \A i, j \in DOMAIN agents : agents[i] = agents[j] => i = j

ASSUME HistoriesAssumption ==
  \A h \in Histories :
    /\ h.audit \in Seq(Runs) /\ \A i \in DOMAIN h.audit : h.audit[i].day <= 1
    /\ h.rooms \in [RoomIds -> Opt(RoomRows)]
    /\ h.listings \in [ListingIds -> Opt(ListingRows)]
    /\ h.payments \in [PaymentIds -> Opt(Payments)]
    /\ \A r \in RoomIds : CloseChecked(h.rooms[r], h.audit)
    /\ \A l \in ListingIds : SaleChecked(h.listings[l], h.audit)
    /\ \A r \in RoomIds : h.rooms[r] # None => Distinct(h.rooms[r].participants)
    /\ IsABag(h.events) /\ BagToSet(h.events) \subseteq Events
    /\ h.stored \in [RoomIds \cup ListingIds -> Nat]
    /\ \A a \in Agents, x \in RoomIds \cup ListingIds :
         Rewards(a, x, h.events) <= h.stored[x]
=============================================================================
