---------------------------- MODULE Rooms_proofs ----------------------------
(***************************************************************************)
(* Proofs about Rooms, for any number of agents, rooms, listings, chains   *)
(* and requests: a commitment on show was verified by a chain that passed  *)
(* or by figures that leave the margin or of which none can be told, and   *)
(* what a close earns is paid out once to each agent for each row of it.   *)
(***************************************************************************)
EXTENDS Rooms, WellFoundedInduction, FiniteSetTheorems, TLAPS

-----------------------------------------------------------------------------
(* The inductive invariant *)

\* No chain is of a day to come.
AuditOK ==
  /\ audit \in Seq(Runs) /\ today \in Nat
  /\ \A i \in DOMAIN audit : audit[i].day <= today

RoomFields == {"participants", "deal", "messages", "status", "type", "confirmed", "check"}
RoomsOK ==
  /\ rooms = [r \in RoomIds |-> rooms[r]]
  /\ \A r \in RoomIds :
       rooms[r] # None => /\ rooms[r] = [f \in RoomFields |-> rooms[r][f]]
                          /\ rooms[r].messages \in Nat

ListingFields == {"poster", "title", "price", "status", "check"}
ListingsOK ==
  /\ listings = [l \in ListingIds |-> listings[l]]
  /\ \A l \in ListingIds :
       listings[l] # None => /\ listings[l] = [f \in ListingFields |-> listings[l][f]]
                             /\ listings[l].price \in Floats(Nat)

PaymentFields == {"deal", "amount", "confirmed"}
PaymentsOK ==
  /\ payments = [p \in PaymentIds |-> payments[p]]
  /\ \A p \in PaymentIds :
       payments[p] # None => /\ payments[p] = [f \in PaymentFields |-> payments[p][f]]
                             /\ payments[p].amount \in Floats(Nat)

IInv == AuditOK /\ RoomsOK /\ ListingsOK /\ PaymentsOK /\ CommitmentIsChecked

-----------------------------------------------------------------------------
(* Looking up a chain *)

LEMMA LeastNumber ==
  ASSUME NEW T, T \subseteq Nat, T # {}
  PROVE  \E x \in T : \A y \in T : x <= y
<1> DEFINE R == OpToRel(<, Nat)
<1>1. IsWellFoundedOn(R, Nat)
  BY NatLessThanWellFounded
<1>2. \A x, y \in Nat : <<y, x>> \in R <=> y < x
  BY DEF OpToRel
<1> HIDE DEF R
<1>3. PICK x \in T : \A y \in T : ~ (<<y, x>> \in R)
  BY <1>1, WFMin
<1>4. ASSUME NEW y \in T PROVE x <= y
  <2>1. x \in Nat /\ y \in Nat
    OBVIOUS
  <2>2. ~(y < x)
    BY <1>2, <1>3, <2>1, Zenon
  <2> QED BY <2>1, <2>2
<1> QED BY <1>4

\* Of the chains about a deal there is always an oldest one of the newest day, and it is
\* the one that is found (find_handoff_chain_outcome).
LEMMA RunFoundIsOne ==
  ASSUME AuditOK, NEW deal, NEW run, RunsAbout(deal, run) # {}
  PROVE  RunFound(deal, run) \in RunsAbout(deal, run)
<1> DEFINE S == RunsAbout(deal, run)
           age(i) == today - audit[i].day
<1>1. S \subseteq DOMAIN audit /\ DOMAIN audit \subseteq Nat
  BY DEF RunsAbout, AuditOK
<1>2. \A i \in S : audit[i].day \in Nat /\ age(i) \in Nat
  <2>1. \A i \in S : audit[i] \in Runs /\ audit[i].day <= today
    BY <1>1 DEF AuditOK
  <2>2. \A i \in S : audit[i].day \in Nat
    BY <2>1 DEF Runs
  <2> QED BY <2>1, <2>2 DEF AuditOK
<1>3. PICK d \in {age(i) : i \in S} : \A e \in {age(i) : i \in S} : d <= e
  <2>1. {age(i) : i \in S} \subseteq Nat /\ {age(i) : i \in S} # {}
    BY <1>2
  <2> QED BY <2>1, LeastNumber
<1>4. PICK i \in {j \in S : age(j) = d} : \A j \in {k \in S : age(k) = d} : i <= j
  <2>1. {j \in S : age(j) = d} \subseteq Nat /\ {j \in S : age(j) = d} # {}
    BY <1>1, <1>3
  <2> QED BY <2>1, LeastNumber
<1>5. \A j \in S : audit[i].day > audit[j].day \/ (audit[i].day = audit[j].day /\ i <= j)
  <2>1. SUFFICES ASSUME NEW j \in S
                 PROVE  audit[i].day > audit[j].day \/ (audit[i].day = audit[j].day /\ i <= j)
    OBVIOUS
  <2>2. age(i) <= age(j) /\ (age(j) = age(i) => i <= j)
    BY <1>3, <1>4
  <2>3. /\ audit[i].day \in Nat /\ audit[j].day \in Nat /\ today \in Nat
        /\ age(i) = today - audit[i].day /\ age(j) = today - audit[j].day
    BY <1>2, <1>4 DEF AuditOK
  <2> HIDE DEF age, S
  <2> QED BY <2>2, <2>3
<1>6. i \in S
  BY <1>4
<1> QED BY <1>5, <1>6 DEF RunFound

-----------------------------------------------------------------------------
(* What a verification shows *)

\* Once a check rests on a chain it does so for good: the audit log only grows.
LEMMA RestsKept ==
  ASSUME audit \in Seq(Runs), NEW row \in Runs, NEW check, Rests(check, audit)
  PROVE  Rests(check, Append(audit, row))
<1>1. \A i \in DOMAIN audit : i \in DOMAIN Append(audit, row) /\ Append(audit, row)[i] = audit[i]
  OBVIOUS
<1> QED BY <1>1 DEF Rests

LEMMA MultiplierRaisesCost ==
  ASSUME NEW a \in Agents
  PROVE  Strictness(a).multiplier \in {100, 115}
<1> DEFINE t == TrustScore(a)
<1> HIDE DEF t
<1>1. Strictness(a) \in {[close |-> 92, message |-> 75, multiplier |-> 115],
                         [close |-> 82, message |-> 65, multiplier |-> 100],
                         [close |-> 85, message |-> 70, multiplier |-> 100]}
  BY Zenon DEF Strictness
<1> QED BY <1>1

\* Costs weigh more for a watched agent, and a margin that is left then is left without,
\* even if the cost is negative: no tier asks for more than 100 percent.
LEMMA MarginLeft ==
  ASSUME NEW m \in 0 .. 100, NEW k \in {100, 115}, NEW revenue \in Int, NEW cost \in Int,
         revenue > 0, 100 * revenue - k * cost >= m * revenue
  PROVE  100 * (revenue - cost) >= m * revenue
<1> DEFINE x == m * revenue
<1>1. x \in Int /\ x <= 100 * revenue
  OBVIOUS
<1>2. 100 * revenue - k * cost >= x
  OBVIOUS
<1> HIDE DEF x
<1>3. CASE k = 100
  BY <1>1, <1>2, <1>3
<1>4. CASE k = 115
  BY <1>1, <1>2, <1>4
<1> QED BY <1>3, <1>4

LEMMA VerificationRests ==
  ASSUME AuditOK, NEW a \in Agents, NEW deal, NEW run, NEW tier \in Tiers,
         NEW revenue \in Opt(Floats(Int)), NEW cost \in Opt(Floats(Int)),
         NEW messages, NEW check,
         check = Verification(a, deal, run, revenue, cost, tier, messages), check # None
  PROVE  /\ Rests(check, audit)
         /\ check.method = "lightweight_check" => messages >= 1
<1>1. CASE RunsAbout(deal, run) # {}
  <2> DEFINE i == RunFound(deal, run)
  <2>1. i \in DOMAIN audit
    BY <1>1, RunFoundIsOne DEF RunsAbout
  <2> HIDE DEF i
  <2>2. RunPassed(audit[i]) /\ check = ByRun(i)
    BY <1>1 DEF Verification, i
  <2>3. check.method = "orchestrator_run" /\ check.run = i
    BY <2>2 DEF ByRun
  <2> QED BY <2>1, <2>2, <2>3 DEF RunPassed, Rests
<1>2. CASE RunsAbout(deal, run) = {}
  <2> DEFINE k == Strictness(a).multiplier
  <2>1. /\ revenue # None /\ cost # None /\ messages >= 1
        /\ MarginApproved(revenue, cost, k, tier)
        /\ check = ByFigures(revenue, cost, tier)
    BY <1>2 DEF Verification
  <2>2. k \in {100, 115} /\ MinMargin[tier] \in 0 .. 100
    BY MultiplierRaisesCost, RoomsAssumption
  <2> HIDE DEF k
  <2>3. /\ check.method = "lightweight_check" /\ check.revenue = revenue
        /\ check.cost = cost /\ check.tier = tier
    BY <2>1 DEF ByFigures
  <2>4. CASE Unmeasured(revenue, cost)
    BY <2>1, <2>3, <2>4 DEF Rests
  <2>5. CASE ~Unmeasured(revenue, cost)
    <3>1. revenue # NaN /\ revenue # Infinite /\ cost # NaN
      BY <2>5 DEF Unmeasured
    <3>2. /\ revenue > 0 /\ cost # Infinite
          /\ 100 * revenue - k * cost >= MinMargin[tier] * revenue
      BY <2>1, <2>5, <3>1 DEF MarginApproved, Positive
    <3>3. revenue \in Int /\ cost \in Int
      BY <2>1, <3>1, <3>2 DEF Opt, Floats
    <3>4. 100 * (revenue - cost) >= MinMargin[tier] * revenue
      BY <2>2, <3>2, <3>3, MarginLeft
    <3> QED BY <2>1, <2>3, <3>4 DEF Rests
  <2> QED BY <2>4, <2>5
<1> QED BY <1>1, <1>2

-----------------------------------------------------------------------------
(* Every step keeps the invariant *)

LEMMA InitOK == Init => IInv
<1> SUFFICES ASSUME Init PROVE IInv
  OBVIOUS
<1>1. PICK h \in Histories : /\ audit = h.audit /\ rooms = h.rooms
                             /\ listings = h.listings /\ payments = h.payments
  BY DEF Init
<1>2. /\ audit \in Seq(Runs) /\ \A i \in DOMAIN audit : audit[i].day <= 1
      /\ rooms \in [RoomIds -> Opt(RoomRows)]
      /\ listings \in [ListingIds -> Opt(ListingRows)]
      /\ payments \in [PaymentIds -> Opt(Payments)]
      /\ CommitmentIsChecked
  BY <1>1, HistoriesAssumption DEF CommitmentIsChecked
<1>3. today = 1
  BY DEF Init
<1>4. AuditOK
  BY <1>2, <1>3 DEF AuditOK
<1>5. RoomsOK
  <2>1. \A row \in RoomRows : row = [f \in RoomFields |-> row[f]] /\ row.messages \in Nat
    BY DEF RoomRows, RoomFields
  <2> QED BY <1>2, <2>1 DEF RoomsOK, Opt
<1>6. ListingsOK
  <2>1. \A row \in ListingRows : row = [f \in ListingFields |-> row[f]] /\ row.price \in Floats(Nat)
    BY DEF ListingRows, ListingFields
  <2> QED BY <1>2, <2>1 DEF ListingsOK, Opt
<1>7. PaymentsOK
  <2>1. \A row \in Payments : row = [f \in PaymentFields |-> row[f]] /\ row.amount \in Floats(Nat)
    BY DEF Payments, PaymentFields
  <2> QED BY <1>2, <2>1 DEF PaymentsOK, Opt
<1> QED BY <1>2, <1>4, <1>5, <1>6, <1>7 DEF IInv

LEMMA FilesKept ==
  ASSUME IInv, UNCHANGED <<audit, rooms, listings, payments>>, today' \in Nat, today <= today'
  PROVE  IInv'
<1>1. AuditOK'
  <2>1. \A i \in DOMAIN audit : audit[i].day <= today'
    <3>1. SUFFICES ASSUME NEW i \in DOMAIN audit PROVE audit[i].day <= today'
      OBVIOUS
    <3>2. audit[i] \in Runs /\ audit[i].day <= today /\ today \in Nat
      BY DEF IInv, AuditOK
    <3>3. audit[i].day \in Nat
      BY <3>2 DEF Runs
    <3> QED BY <3>2, <3>3
  <2> QED BY <2>1 DEF IInv, AuditOK
<1>2. RoomsOK' /\ ListingsOK' /\ PaymentsOK'
  BY DEF IInv, RoomsOK, ListingsOK, PaymentsOK
<1>3. CommitmentIsChecked'
  BY DEF IInv, CommitmentIsChecked
<1> QED BY <1>1, <1>2, <1>3 DEF IInv

\* All changes of a room, of a listing and of a payment are one row each.
LEMMA RoomStored ==
  ASSUME IInv, NEW r \in RoomIds, NEW row, row = [f \in RoomFields |-> row[f]],
         row.messages \in Nat, CloseChecked(row, audit),
         rooms' = [rooms EXCEPT ![r] = row], UNCHANGED <<audit, today, listings, payments>>
  PROVE  IInv'
<1>1. \A x \in RoomIds : rooms'[x] = IF x = r THEN row ELSE rooms[x]
  BY DEF IInv, RoomsOK
<1>2. RoomsOK'
  <2>1. rooms' = [x \in RoomIds |-> rooms'[x]]
    BY DEF IInv, RoomsOK
  <2> QED BY <1>1, <2>1 DEF IInv, RoomsOK
<1>3. AuditOK' /\ ListingsOK' /\ PaymentsOK'
  BY DEF IInv, AuditOK, ListingsOK, PaymentsOK
<1>4. CommitmentIsChecked'
  BY <1>1 DEF IInv, CommitmentIsChecked
<1> QED BY <1>2, <1>3, <1>4 DEF IInv

LEMMA ListingStored ==
  ASSUME IInv, NEW l \in ListingIds, NEW row, row = [f \in ListingFields |-> row[f]],
         row.price \in Floats(Nat), SaleChecked(row, audit),
         listings' = [listings EXCEPT ![l] = row], UNCHANGED <<audit, today, rooms, payments>>
  PROVE  IInv'
<1>1. \A x \in ListingIds : listings'[x] = IF x = l THEN row ELSE listings[x]
  BY DEF IInv, ListingsOK
<1>2. ListingsOK'
  <2>1. listings' = [x \in ListingIds |-> listings'[x]]
    BY DEF IInv, ListingsOK
  <2> QED BY <1>1, <2>1 DEF IInv, ListingsOK
<1>3. AuditOK' /\ RoomsOK' /\ PaymentsOK'
  BY DEF IInv, AuditOK, RoomsOK, PaymentsOK
<1>4. CommitmentIsChecked'
  BY <1>1 DEF IInv, CommitmentIsChecked
<1> QED BY <1>2, <1>3, <1>4 DEF IInv

LEMMA PaymentStored ==
  ASSUME IInv, NEW p \in PaymentIds, NEW row, row = [f \in PaymentFields |-> row[f]],
         row.amount \in Floats(Nat),
         payments' = [payments EXCEPT ![p] = row], UNCHANGED <<audit, today, rooms, listings>>
  PROVE  IInv'
<1>1. PaymentsOK'
  <2>1. /\ payments' = [x \in PaymentIds |-> payments'[x]]
        /\ \A x \in PaymentIds : payments'[x] = IF x = p THEN row ELSE payments[x]
    BY DEF IInv, PaymentsOK
  <2> QED BY <2>1 DEF IInv, PaymentsOK
<1>2. AuditOK' /\ RoomsOK' /\ ListingsOK' /\ CommitmentIsChecked'
  BY DEF IInv, AuditOK, RoomsOK, ListingsOK, CommitmentIsChecked
<1> QED BY <1>1, <1>2 DEF IInv

LEMMA CreateDealRoomOK ==
  ASSUME IInv, NEW a, NEW invites, NEW deal, CreateDealRoom(a, invites, deal)
  PROVE  IInv'
<1>1. PICK r \in RoomIds : rooms' = [rooms EXCEPT ![r] =
        [participants |-> Participants(<<a>> \o invites), deal |-> deal, messages |-> 0,
         status |-> "open", type |-> None, confirmed |-> FALSE, check |-> None]]
  BY DEF CreateDealRoom
<1>2. PICK names : names = Participants(<<a>> \o invites)
  OBVIOUS
<1> DEFINE row == [participants |-> names, deal |-> deal, messages |-> 0,
                   status |-> "open", type |-> None, confirmed |-> FALSE, check |-> None]
<1>3. row = [f \in RoomFields |-> row[f]] /\ row.messages \in Nat /\ row.confirmed = FALSE
  BY DEF RoomFields
<1>4. rooms' = [rooms EXCEPT ![r] = row]
  BY <1>1, <1>2
<1> HIDE DEF row
<1>5. CloseChecked(row, audit)
  BY <1>3 DEF CloseChecked
<1>6. UNCHANGED <<audit, today, listings, payments>>
  BY DEF CreateDealRoom
<1> QED BY <1>3, <1>4, <1>5, <1>6, RoomStored

\* A message is added, and a checked talk has one already.
LEMMA PostDealRoomMessageOK ==
  ASSUME IInv, NEW a, NEW r \in RoomIds, NEW c, PostDealRoomMessage(a, r, c)
  PROVE  IInv'
<1> DEFINE n == AtMost(rooms[r].messages + 1, MaxMessages)
           row == [rooms[r] EXCEPT !.messages = n]
<1>1. /\ rooms[r] # None /\ rooms[r] = [f \in RoomFields |-> rooms[r][f]]
      /\ rooms[r].messages \in Nat
  BY DEF PostDealRoomMessage, IInv, RoomsOK
<1>2. n \in Nat /\ n > 0
  BY <1>1, RoomsAssumption DEF AtMost
<1>3. /\ row = [f \in RoomFields |-> row[f]] /\ row.messages = n
      /\ \A f \in RoomFields \ {"messages"} : row[f] = rooms[r][f]
  BY <1>1 DEF RoomFields
<1>4. rooms' = [rooms EXCEPT ![r] = row]
  BY DEF PostDealRoomMessage
<1> HIDE DEF n, row
<1>5. CloseChecked(row, audit)
  <2>1. CloseChecked(rooms[r], audit)
    BY DEF IInv, CommitmentIsChecked
  <2>2. row.type = rooms[r].type /\ row.confirmed = rooms[r].confirmed
        /\ row.check = rooms[r].check
    BY <1>3 DEF RoomFields
  <2> QED BY <1>1, <1>2, <1>3, <2>1, <2>2 DEF CloseChecked
<1>6. UNCHANGED <<audit, today, listings, payments>>
  BY DEF PostDealRoomMessage
<1> QED BY <1>2, <1>3, <1>4, <1>5, <1>6, RoomStored

\* A close replaces type, confirmation and check together, whatever was there before.
LEMMA CloseDealRoomOK ==
  ASSUME IInv, NEW a \in Agents, NEW r \in RoomIds, NEW type, NEW confirmed \in BOOLEAN,
         NEW c, NEW deal, NEW run, NEW tier \in Tiers,
         NEW revenue \in Opt(Floats(Int)), NEW cost \in Opt(Floats(Int)),
         CloseDealRoom(a, r, type, confirmed, c, deal, run, revenue, cost, tier)
  PROVE  IInv'
<1>1. PICK about, check :
        /\ (confirmed /\ type = Commitment) =>
              /\ check = Verification(a, about, run, revenue, cost, tier, rooms[r].messages)
              /\ check # None
        /\ rooms' = [rooms EXCEPT ![r].status = "closed", ![r].type = type,
                                  ![r].confirmed = confirmed, ![r].check = check]
  BY DEF CloseDealRoom
<1>2. /\ rooms[r] # None /\ rooms[r] = [f \in RoomFields |-> rooms[r][f]]
      /\ rooms[r].messages \in Nat
  BY DEF CloseDealRoom, IInv, RoomsOK
<1> DEFINE row == [rooms[r] EXCEPT !.status = "closed", !.type = type,
                                   !.confirmed = confirmed, !.check = check]
<1>3. /\ row = [f \in RoomFields |-> row[f]] /\ row.messages = rooms[r].messages
      /\ row.type = type /\ row.confirmed = confirmed /\ row.check = check
  BY <1>2 DEF RoomFields
<1>4. rooms' = [rooms EXCEPT ![r] = row]
  BY <1>1 DEF IInv, RoomsOK
<1> HIDE DEF row
<1>5. CloseChecked(row, audit)
  <2>1. SUFFICES ASSUME type = Commitment, confirmed
                 PROVE  /\ check # None /\ Rests(check, audit)
                        /\ check.method = "lightweight_check" => row.messages > 0
    BY <1>3 DEF CloseChecked
  <2>2. /\ Rests(check, audit)
        /\ check.method = "lightweight_check" => rooms[r].messages >= 1
    BY <1>1, <2>1, VerificationRests DEF IInv
  <2>3. check.method = "lightweight_check" => row.messages > 0
    BY <1>2, <1>3, <2>2
  <2> QED BY <1>1, <2>1, <2>2, <2>3
<1>6. UNCHANGED <<audit, today, listings, payments>>
  BY DEF CloseDealRoom
<1> QED BY <1>2, <1>3, <1>4, <1>5, <1>6, RoomStored

LEMMA MicropayOK ==
  ASSUME IInv, NEW a, NEW r, NEW p \in PaymentIds, Micropay(a, r, p)
  PROVE  IInv'
<1> DEFINE row == [deal |-> r, amount |-> 50, confirmed |-> FALSE]
<1>1. row = [f \in PaymentFields |-> row[f]] /\ row.amount \in Floats(Nat)
  BY DEF PaymentFields, Floats
<1>2. /\ payments' = [payments EXCEPT ![p] = row]
      /\ UNCHANGED <<audit, today, rooms, listings>>
  BY DEF Micropay
<1> HIDE DEF row
<1> QED BY <1>1, <1>2, PaymentStored

LEMMA CreateListingOK ==
  ASSUME IInv, NEW a, NEW title, NEW price \in Prices, CreateListing(a, title, price)
  PROVE  IInv'
<1> DEFINE row == [poster |-> a, title |-> title, price |-> price, status |-> "active",
                   check |-> None]
<1>1. PICK l \in ListingIds : listings' = [listings EXCEPT ![l] = row]
  BY DEF CreateListing
<1>2. /\ row = [f \in ListingFields |-> row[f]] /\ row.price \in Floats(Nat)
      /\ row.status # "completed"
  BY RoomsAssumption DEF ListingFields
<1>3. UNCHANGED <<audit, today, rooms, payments>>
  BY DEF CreateListing
<1> HIDE DEF row
<1>4. SaleChecked(row, audit)
  BY <1>2 DEF SaleChecked
<1> QED BY <1>1, <1>2, <1>3, <1>4, ListingStored

LEMMA CompleteListingOK ==
  ASSUME IInv, NEW a \in Agents, NEW l \in ListingIds, NEW pay \in Opt(PaymentIds),
         NEW deal, NEW run, NEW tier \in Tiers,
         NEW revenue \in Opt(Floats(Int)), NEW cost \in Opt(Floats(Int)),
         CompleteListing(a, l, pay, deal, run, revenue, cost, tier)
  PROVE  IInv'
<1> DEFINE income == CASE revenue # None               -> revenue
                       [] revenue = None /\ pay # None -> payments[pay].amount
                       [] OTHER                        -> listings[l].price
           outlay == IF cost = None /\ Positive(income) THEN Share(income) ELSE cost
<1>1. PICK about, check :
        /\ (Positive(listings[l].price) \/ pay # None) =>
              check = Verification(a, about, run, income, outlay, tier, 1) /\ check # None
        /\ listings' = [listings EXCEPT ![l].status = "completed", ![l].check = check]
  BY DEF CompleteListing
<1>2. /\ listings[l] # None /\ listings[l] = [f \in ListingFields |-> listings[l][f]]
      /\ listings[l].price \in Floats(Nat)
      /\ pay # None => payments[pay].amount \in Floats(Nat)
  BY DEF CompleteListing, IInv, ListingsOK, PaymentsOK, Opt
<1>3. income \in Floats(Int)
  <2>0. Floats(Nat) \subseteq Floats(Int)
    BY DEF Floats
  <2>1. CASE revenue # None
    <3>1. income = revenue
      BY <2>1, Zenon
    <3> QED BY <2>1, <3>1 DEF Opt
  <2>2. CASE revenue = None /\ pay # None
    <3>1. income = payments[pay].amount
      BY <2>2, Zenon
    <3> QED BY <1>2, <2>0, <2>2, <3>1
  <2>3. CASE revenue = None /\ pay = None
    <3>1. income = listings[l].price
      BY <2>3, Zenon
    <3> QED BY <1>2, <2>0, <3>1
  <2> QED BY <2>1, <2>2, <2>3
<1> HIDE DEF income
<1>4. income \in Opt(Floats(Int)) /\ outlay \in Opt(Floats(Int))
  <2>1. Positive(income) => Share(income) \in Floats(Int)
    BY <1>3 DEF Positive, Share, Floats
  <2> QED BY <1>3, <2>1 DEF Opt
<1> HIDE DEF outlay
<1> DEFINE row == [listings[l] EXCEPT !.status = "completed", !.check = check]
<1>5. /\ row = [f \in ListingFields |-> row[f]] /\ row.price = listings[l].price
      /\ row.check = check
  BY <1>2 DEF ListingFields
<1>6. listings' = [listings EXCEPT ![l] = row]
  BY <1>1 DEF IInv, ListingsOK
<1> HIDE DEF row
<1>7. SaleChecked(row, audit)
  <2>1. SUFFICES ASSUME Positive(listings[l].price) PROVE check # None /\ Rests(check, audit)
    BY <1>5 DEF SaleChecked
  <2> QED BY <1>1, <1>4, <2>1, VerificationRests DEF IInv
<1>8. UNCHANGED <<audit, today, rooms, payments>>
  BY DEF CompleteListing
<1> QED BY <1>2, <1>5, <1>6, <1>7, <1>8, ListingStored

\* Checks that rest on earlier chains are not disturbed by another one.
LEMMA EndChainOK ==
  ASSUME IInv, NEW deal \in Deals \cup ListingIds, NEW outcome \in Outcomes,
         EndChain(deal, outcome)
  PROVE  IInv'
<1> DEFINE row == [deal |-> deal, day |-> today, stop |-> outcome.stop,
                   margin |-> outcome.margin, qc |-> outcome.qc]
<1>1. audit' = Append(audit, row) /\ UNCHANGED <<today, rooms, listings, payments>>
  BY DEF EndChain
<1>2. audit \in Seq(Runs) /\ today \in Nat /\ \A i \in DOMAIN audit : audit[i].day <= today
  BY DEF IInv, AuditOK
<1>3. row \in Runs /\ row.day = today
  BY <1>2, RoomsAssumption DEF Runs
<1> HIDE DEF row
<1>4. AuditOK'
  <2>1. \A i \in DOMAIN audit' : audit'[i].day <= today
    BY <1>1, <1>2, <1>3
  <2> QED BY <1>1, <1>2, <1>3, <2>1 DEF AuditOK
<1>5. RoomsOK' /\ ListingsOK' /\ PaymentsOK'
  BY <1>1 DEF IInv, RoomsOK, ListingsOK, PaymentsOK
<1>6. \A check : Rests(check, audit) => Rests(check, audit')
  BY <1>1, <1>2, <1>3, RestsKept
<1>7. CommitmentIsChecked'
  <2>1. \A r \in RoomIds : CloseChecked(rooms[r], audit')
    BY <1>6 DEF IInv, CommitmentIsChecked, CloseChecked
  <2>2. \A l \in ListingIds : SaleChecked(listings[l], audit')
    BY <1>6 DEF IInv, CommitmentIsChecked, SaleChecked
  <2> QED BY <1>1, <2>1, <2>2 DEF CommitmentIsChecked
<1> QED BY <1>4, <1>5, <1>7 DEF IInv

LEMMA ConfirmPaymentOK ==
  ASSUME IInv, NEW p \in PaymentIds, ConfirmPayment(p)
  PROVE  IInv'
<1> DEFINE row == [payments[p] EXCEPT !.confirmed = TRUE]
<1>1. /\ payments[p] = [f \in PaymentFields |-> payments[p][f]]
      /\ payments[p].amount \in Floats(Nat)
  BY DEF ConfirmPayment, IInv, PaymentsOK
<1>2. row = [f \in PaymentFields |-> row[f]] /\ row.amount \in Floats(Nat)
  BY <1>1 DEF PaymentFields, Floats
<1>3. /\ payments' = [payments EXCEPT ![p] = row]
      /\ UNCHANGED <<audit, today, rooms, listings>>
  BY DEF ConfirmPayment
<1> HIDE DEF row
<1> QED BY <1>2, <1>3, PaymentStored

LEMMA InRoomOK ==
  ASSUME IInv, NEW a \in Agents, InRoom(a)
  PROVE  IInv'
<1>1. CASE \E invites \in Invites, deal \in Opt(Deals) : CreateDealRoom(a, invites, deal)
  BY <1>1, CreateDealRoomOK
<1>2. CASE \E r \in RoomIds, c \in Opt(Confidences) : PostDealRoomMessage(a, r, c)
  BY <1>2, PostDealRoomMessageOK
<1>3. CASE \E r \in RoomIds, p \in PaymentIds : Micropay(a, r, p)
  BY <1>3, MicropayOK
<1>4. CASE \E r \in RoomIds, c \in Opt(Confidences), deal \in Opt(Deals),
              run \in Opt(DOMAIN audit), figures \in Figures, tier \in Tiers :
             CloseDealRoom(a, r, Commitment, TRUE, c, deal, run, figures[1], figures[2], tier)
  <2>1. PICK r \in RoomIds, c \in Opt(Confidences), deal \in Opt(Deals),
             run \in Opt(DOMAIN audit), figures \in Figures, tier \in Tiers :
          CloseDealRoom(a, r, Commitment, TRUE, c, deal, run, figures[1], figures[2], tier)
    BY <1>4
  <2>2. figures[1] \in Opt(Floats(Int)) /\ figures[2] \in Opt(Floats(Int))
    BY RoomsAssumption
  <2>3. PICK revenue, cost : revenue = figures[1] /\ cost = figures[2]
    OBVIOUS
  <2>4. CloseDealRoom(a, r, Commitment, TRUE, c, deal, run, revenue, cost, tier)
    BY <2>1, <2>3
  <2> QED BY <2>2, <2>3, <2>4, CloseDealRoomOK
<1>5. CASE \E r \in RoomIds, c \in Opt(Confidences), close \in CloseTypes \X BOOLEAN,
              tier \in Tiers :
             /\ close # <<Commitment, TRUE>>
             /\ CloseDealRoom(a, r, close[1], close[2], c, None, None, None, None, tier)
  <2>1. PICK r \in RoomIds, c \in Opt(Confidences), close \in CloseTypes \X BOOLEAN,
             tier \in Tiers :
          CloseDealRoom(a, r, close[1], close[2], c, None, None, None, None, tier)
    BY <1>5
  <2>2. PICK type \in CloseTypes, confirmed \in BOOLEAN : close = <<type, confirmed>>
    OBVIOUS
  <2>3. CloseDealRoom(a, r, type, confirmed, c, None, None, None, None, tier)
    BY <2>1, <2>2
  <2> QED BY <2>3, CloseDealRoomOK DEF Opt
<1> QED BY <1>1, <1>2, <1>3, <1>4, <1>5 DEF InRoom

LEMMA AtMarketOK ==
  ASSUME IInv, NEW a \in Agents, AtMarket(a)
  PROVE  IInv'
<1>1. CASE \E title \in Titles, price \in Prices : CreateListing(a, title, price)
  BY <1>1, CreateListingOK
<1>2. CASE \E l \in ListingIds, pay \in Opt(PaymentIds), deal \in Opt(Deals),
              run \in Opt(DOMAIN audit), figures \in Figures, tier \in Tiers :
             CompleteListing(a, l, pay, deal, run, figures[1], figures[2], tier)
  <2>1. PICK l \in ListingIds, pay \in Opt(PaymentIds), deal \in Opt(Deals),
             run \in Opt(DOMAIN audit), figures \in Figures, tier \in Tiers :
          CompleteListing(a, l, pay, deal, run, figures[1], figures[2], tier)
    BY <1>2
  <2>2. figures[1] \in Opt(Floats(Int)) /\ figures[2] \in Opt(Floats(Int))
    BY RoomsAssumption
  <2>3. PICK revenue, cost : revenue = figures[1] /\ cost = figures[2]
    OBVIOUS
  <2>4. CompleteListing(a, l, pay, deal, run, revenue, cost, tier)
    BY <2>1, <2>3
  <2> QED BY <2>2, <2>3, <2>4, CompleteListingOK
<1> QED BY <1>1, <1>2 DEF AtMarket

LEMMA NextOK == IInv /\ [Next]_vars => IInv'
<1> SUFFICES ASSUME IInv, [Next]_vars PROVE IInv'
  OBVIOUS
<1>1. today \in Nat
  BY DEF IInv, AuditOK
<1>2. ASSUME UNCHANGED <<audit, today, rooms, listings, payments>> PROVE IInv'
  BY <1>1, <1>2, FilesKept
<1>3. ASSUME NEW a \in Agents, Authenticate(a) \/ Refuse(a) \/ Suspend(a) PROVE IInv'
  BY <1>2, <1>3 DEF Authenticate, Refuse, Suspend
<1>4. ASSUME NEW a \in Agents, InHub(a) PROVE IInv'
  BY <1>2, <1>4 DEF InHub, JoinHub, CreateHub
<1>5. CASE RecordReputationEvent \/ Crash \/ UNCHANGED vars
  BY <1>2, <1>5 DEF RecordReputationEvent, Crash, vars
<1>9. ASSUME NEW a \in Agents, CompleteReferral(a) PROVE IInv'
  BY <1>2, <1>9 DEF CompleteReferral
<1>6. CASE NextDay
  BY <1>1, <1>6, FilesKept DEF NextDay
<1>7. CASE \E deal \in Deals \cup ListingIds, outcome \in Outcomes : EndChain(deal, outcome)
  BY <1>7, EndChainOK
<1>8. CASE \E p \in PaymentIds : ConfirmPayment(p)
  BY <1>8, ConfirmPaymentOK
<1> QED BY <1>3, <1>4, <1>5, <1>6, <1>7, <1>8, <1>9, InRoomOK, AtMarketOK DEF Next

-----------------------------------------------------------------------------
(* The theorem *)

\* Whoever closes a commitment or completes a sale, with whatever figures and however often,
\* and whatever chains are audited meanwhile: what is on show was verified by a chain that
\* passed, or by figures that leave the margin or of which no margin can be told.
THEOREM CommitmentChecked == Spec => []CommitmentIsChecked
<1>1. Spec => []IInv
  BY InitOK, NextOK, PTL DEF Spec
<1>2. IInv => CommitmentIsChecked
  BY DEF IInv
<1> QED BY <1>1, <1>2, PTL

-----------------------------------------------------------------------------
(* Everyone takes part once *)

\* The lowest positions of the names, counted from the left, are 1, 2 and so on.
LEMMA PositionsCounted ==
  ASSUME NEW n \in Nat, NEW S \in SUBSET (1 .. n), NEW k \in 1 .. Cardinality(S)
  PROVE  /\ Cardinality(S) \in Nat
         /\ \E i \in S : Cardinality({j \in S : j <= i}) = k
<1> DEFINE C(i) == {j \in S : j <= i}
<1>1. /\ IsFiniteSet(S) /\ Cardinality(S) \in Nat
      /\ \A i : IsFiniteSet(C(i)) /\ Cardinality(C(i)) \in Nat
  <2>1. IsFiniteSet(1 .. n)
    BY FS_Interval
  <2>2. IsFiniteSet(S)
    BY <2>1, FS_Subset
  <2>3. \A i : C(i) \in SUBSET S
    OBVIOUS
  <2> QED BY <2>2, <2>3, FS_Subset, FS_CardinalityType
<1>0. \A j \in S : j \in Nat /\ j <= n /\ ~(j <= 0)
  OBVIOUS
<1>2. C(n) = S /\ C(0) = {} /\ Cardinality(C(0)) = 0
  <2>1. C(n) = S
    BY <1>0
  <2>2. C(0) = {}
    BY <1>0
  <2> QED BY <2>1, <2>2, FS_EmptySet
<1>3. PICK i \in {m \in Nat : Cardinality(C(m)) >= k} :
        \A m \in {x \in Nat : Cardinality(C(x)) >= k} : i <= m
  <2>1. n \in {m \in Nat : Cardinality(C(m)) >= k}
    BY <1>1, <1>2
  <2>2. {m \in Nat : Cardinality(C(m)) >= k} \subseteq Nat
    OBVIOUS
  <2> QED BY <2>1, <2>2, LeastNumber
<1>4. i \in Nat /\ Cardinality(C(i)) >= k /\ i # 0
  BY <1>1, <1>2, <1>3
<1>5. Cardinality(C(i - 1)) < k
  <2>1. i - 1 \in Nat /\ ~(i <= i - 1)
    BY <1>4
  <2> HIDE DEF C
  <2>2. ~(Cardinality(C(i - 1)) >= k)
    BY <1>3, <2>1
  <2> QED BY <1>1, <2>2
<1>6. i \in S
  <2>1. \A j \in S : j # i => (j <= i <=> j <= i - 1)
    BY <1>0, <1>4
  <2>2. i \notin S => C(i) = C(i - 1)
    BY <2>1
  <2> HIDE DEF C
  <2> QED BY <1>1, <1>4, <1>5, <2>2
<1>7. Cardinality(C(i)) = Cardinality(C(i - 1)) + 1
  <2>1. \A j \in S : j <= i <=> (j <= i - 1 \/ j = i)
    BY <1>0, <1>4
  <2>2. ~(i <= i - 1)
    BY <1>4
  <2>3. C(i) = C(i - 1) \cup {i} /\ i \notin C(i - 1)
    BY <1>6, <2>1, <2>2
  <2> HIDE DEF C
  <2> QED BY <1>1, <2>3, FS_AddElement
<1>8. Cardinality(C(i)) = k
  <2> HIDE DEF C
  <2> QED BY <1>1, <1>4, <1>5, <1>7
<1> QED BY <1>1, <1>6, <1>8

\* A list of participants is made of names, and no name is there twice
\* (_normalize_participants).
LEMMA ParticipantsOnce ==
  ASSUME NEW agents \in Seq(Agents)
  PROVE  Participants(agents) \in Seq(Agents) /\ Distinct(Participants(agents))
<1> DEFINE first == {i \in DOMAIN agents : \A j \in 1 .. i - 1 : agents[j] # agents[i]}
           nth(n) == CHOOSE i \in first : Cardinality({j \in first : j <= i}) = n
           size == Cardinality(first)
           distinct == [n \in 1 .. size |-> agents[nth(n)]]
<1>1. /\ Len(agents) \in Nat /\ DOMAIN agents = 1 .. Len(agents)
      /\ first \in SUBSET (1 .. Len(agents)) /\ first \in SUBSET DOMAIN agents
  OBVIOUS
<1>2. \A i, j \in first : agents[i] = agents[j] => i = j
  <2>1. ASSUME NEW i \in first, NEW j \in first, i < j PROVE agents[i] # agents[j]
    <3>1. i \in 1 .. j - 1
      BY <1>1, <2>1
    <3> QED BY <3>1
  <2>2. \A i \in first : i \in Nat
    BY <1>1
  <2> HIDE DEF first
  <2> QED BY <2>1, <2>2
<1>3. \A n \in 1 .. size : \E i \in first : Cardinality({j \in first : j <= i}) = n
  <2> HIDE DEF first
  <2> QED BY <1>1, PositionsCounted
<1>4. size \in Nat
  <2>1. IsFiniteSet(1 .. Len(agents))
    BY <1>1, FS_Interval
  <2> HIDE DEF first
  <2>2. IsFiniteSet(first)
    BY <1>1, <2>1, FS_Subset
  <2> QED BY <2>2, FS_CardinalityType
<1> HIDE DEF first
<1>5. \A n \in 1 .. size : nth(n) \in first /\ Cardinality({j \in first : j <= nth(n)}) = n
  BY <1>3
<1>6. \A m, n \in 1 .. size : nth(m) = nth(n) => m = n
  BY <1>5
<1> HIDE DEF nth
<1>7. /\ distinct \in Seq(Agents) /\ Len(distinct) = size
      /\ \A m, n \in 1 .. size : distinct[m] = distinct[n] => m = n
  <2>1. \A n \in 1 .. size : agents[nth(n)] \in Agents
    <3>1. \A i \in first : agents[i] \in Agents
      BY <1>1
    <3> QED BY <1>5, <3>1
  <2>2. \A m, n \in 1 .. size : agents[nth(m)] = agents[nth(n)] => m = n
    BY <1>2, <1>5, <1>6
  <2> HIDE DEF size
  <2> QED BY <1>4, <2>1, <2>2
<1> DEFINE cut == AtMost(Len(distinct), MaxParticipants)
<1>8. Participants(agents) = SubSeq(distinct, 1, cut)
  BY DEF Participants, first, nth
<1> HIDE DEF size
<1>9. cut \in Nat /\ cut <= size
  BY <1>4, <1>7, RoomsAssumption DEF AtMost
<1> HIDE DEF distinct, cut
<1>10. SubSeq(distinct, 1, cut) \in Seq(Agents) /\ Distinct(SubSeq(distinct, 1, cut))
  BY <1>4, <1>7, <1>9 DEF Distinct
<1> QED BY <1>8, <1>10

-----------------------------------------------------------------------------
(* Rewards *)

Closed == RoomIds \cup ListingIds

\* The event of agent a about close x is still to be written.
Owed(a, x) == IF \E i \in DOMAIN due : due[i].agent = a /\ due[i].about = x THEN 1 ELSE 0

\* What is written and what is still to be written is no more than what is on record; the
\* handler under way has one event at most for each agent.
RewardsOK ==
  /\ stored \in [Closed -> Nat]
  /\ IsABag(events) /\ BagToSet(events) \subseteq Events
  /\ due \in Seq(CloseEvents)
  /\ \A i, j \in DOMAIN due : due[i].agent = due[j].agent => i = j
  /\ \A a \in Agents, x \in Closed : Rewards(a, x, events) + Owed(a, x) <= stored[x]

\* Rooms and listings have participants and posters, nobody takes part twice.
PartiesOK ==
  /\ \A r \in RoomIds :
       rooms[r] # None => rooms[r].participants \in Seq(Agents) /\ Distinct(rooms[r].participants)
  /\ \A l \in ListingIds : listings[l] # None => listings[l].poster \in Agents

LEMMA CopiesType ==
  ASSUME NEW bag, IsABag(bag), NEW e
  PROVE  Copies(e, bag) \in Nat
BY DEF Copies, BagIn, BagToSet, IsABag

LEMMA RewardsType ==
  ASSUME NEW bag, IsABag(bag), NEW a, NEW x
  PROVE  Rewards(a, x, bag) \in Nat
<1>1. \A e : Copies(e, bag) \in Nat
  BY CopiesType
<1> QED BY ONLY <1>1 DEF Rewards

LEMMA InitRewards == Init => RewardsOK /\ PartiesOK
<1> SUFFICES ASSUME Init PROVE RewardsOK /\ PartiesOK
  OBVIOUS
<1>1. PICK h \in Histories : /\ rooms = h.rooms /\ listings = h.listings
                             /\ events = h.events /\ stored = h.stored
  BY DEF Init
<1>2. due = <<>>
  BY DEF Init
<1>3. /\ IsABag(events) /\ BagToSet(events) \subseteq Events
      /\ stored \in [Closed -> Nat]
      /\ \A a \in Agents, x \in Closed : Rewards(a, x, events) <= stored[x]
  BY <1>1, HistoriesAssumption DEF Closed
<1>4. \A a \in Agents, x \in Closed : Rewards(a, x, events) + Owed(a, x) <= stored[x]
  <2>1. SUFFICES ASSUME NEW a \in Agents, NEW x \in Closed
                 PROVE  Rewards(a, x, events) + Owed(a, x) <= stored[x]
    OBVIOUS
  <2>2. Owed(a, x) = 0
    BY <1>2 DEF Owed
  <2>3. Rewards(a, x, events) \in Nat
    BY <1>3, RewardsType
  <2> QED BY <1>3, <2>2, <2>3
<1>5. RewardsOK
  BY <1>2, <1>3, <1>4 DEF RewardsOK
<1>6. /\ \A r \in RoomIds : rooms[r] # None => rooms[r] \in RoomRows /\ Distinct(rooms[r].participants)
      /\ \A l \in ListingIds : listings[l] # None => listings[l] \in ListingRows
  BY <1>1, HistoriesAssumption DEF Opt
<1>7. PartiesOK
  BY <1>6 DEF PartiesOK, RoomRows, ListingRows
<1> QED BY <1>5, <1>7

\* Handlers that reward nobody.
LEMMA RewardsKept ==
  ASSUME RewardsOK, UNCHANGED <<events, due, stored>>
  PROVE  RewardsOK'
<1>1. \A a, x : Owed(a, x)' = Owed(a, x)
  BY DEF Owed
<1>2. \A a, x : Rewards(a, x, events)' = Rewards(a, x, events)
  OBVIOUS
<1> QED BY <1>1, <1>2 DEF RewardsOK

\* A close is stored, with an event to write for agents that are all different.
LEMMA CloseStored ==
  ASSUME RewardsOK, Free, NEW x \in Closed, NEW n \in Nat,
         stored' = [stored EXCEPT ![x] = @ + n], UNCHANGED events,
         due' \in Seq(CloseEvents), \A i \in DOMAIN due' : due'[i].about = x,
         \A i, j \in DOMAIN due' : due'[i].agent = due'[j].agent => i = j,
         due' # <<>> => n = 1
  PROVE  RewardsOK'
<1>1. stored' \in [Closed -> Nat] /\ \A y \in Closed : stored'[y] = IF y = x THEN stored[x] + n ELSE stored[y]
  BY DEF RewardsOK
<1>2. \A a \in Agents, y \in Closed : Rewards(a, y, events)' + Owed(a, y)' <= stored'[y]
  <2>1. SUFFICES ASSUME NEW a \in Agents, NEW y \in Closed
                 PROVE  Rewards(a, y, events)' + Owed(a, y)' <= stored'[y]
    OBVIOUS
  <2>2. Owed(a, y) = 0
    BY DEF Free, Owed
  <2>3. Rewards(a, y, events)' = Rewards(a, y, events) /\ Rewards(a, y, events) \in Nat
    <3>1. Rewards(a, y, events)' = Rewards(a, y, events)
      BY DEF Rewards, Copies
    <3>2. IsABag(events)
      BY DEF RewardsOK
    <3> QED BY <3>1, <3>2, RewardsType
  <2>4. Rewards(a, y, events) <= stored[y] /\ stored[y] \in Nat
    BY <2>2, <2>3 DEF RewardsOK
  <2>5. Owed(a, y)' \in {0, 1} /\ (y # x \/ due' = <<>> => Owed(a, y)' = 0)
    BY DEF Owed
  <2> QED BY <1>1, <2>3, <2>4, <2>5
<1> QED BY <1>1, <1>2 DEF RewardsOK

LEMMA CloseDealRoomRewards ==
  ASSUME RewardsOK, PartiesOK, NEW a, NEW r \in RoomIds, NEW type, NEW confirmed, NEW c,
         NEW deal, NEW run, NEW revenue, NEW cost, NEW tier,
         CloseDealRoom(a, r, type, confirmed, c, deal, run, revenue, cost, tier)
  PROVE  RewardsOK'
<1> DEFINE commits == confirmed /\ type = Commitment
           who == rooms[r].participants
<1>1. rooms[r] # None /\ Free
  BY DEF CloseDealRoom, Handles
<1>2. who \in Seq(Agents) /\ Distinct(who)
  BY <1>1 DEF PartiesOK
<1>3. /\ due' = IF commits THEN [i \in DOMAIN who |-> Reward(who[i], r, 5)] ELSE <<>>
      /\ stored' = [stored EXCEPT ![r] = @ + Points(commits, 1)] /\ UNCHANGED events
  BY DEF CloseDealRoom, Reward
<1>4. r \in Closed /\ Points(commits, 1) \in Nat /\ (commits => Points(commits, 1) = 1)
  BY DEF Closed, Points
<1> HIDE DEF commits, who
<1>5. \A i \in DOMAIN who : /\ Reward(who[i], r, 5) \in CloseEvents
                            /\ Reward(who[i], r, 5).agent = who[i] /\ Reward(who[i], r, 5).about = r
  BY <1>2, <1>4 DEF Reward, CloseEvents, Worths, Closed
<1>6. CASE commits
  <2>1. DOMAIN who = 1 .. Len(who) /\ Len(who) \in Nat
    BY <1>2
  <2>2. /\ due' \in Seq(CloseEvents) /\ DOMAIN due' = DOMAIN who
        /\ \A i \in DOMAIN who : due'[i] = Reward(who[i], r, 5)
    BY <1>3, <1>5, <1>6, <2>1
  <2>3. /\ \A i \in DOMAIN due' : due'[i].about = r
        /\ \A i, j \in DOMAIN due' : due'[i].agent = due'[j].agent => i = j
    BY <1>2, <1>5, <2>2 DEF Distinct
  <2> QED BY <1>1, <1>3, <1>4, <1>6, <2>2, <2>3, CloseStored
<1>7. CASE ~commits
  <2>1. due' = <<>> /\ DOMAIN due' = {} /\ due' \in Seq(CloseEvents)
    BY <1>3, <1>7
  <2> QED BY <1>1, <1>3, <1>4, <2>1, CloseStored
<1> QED BY <1>6, <1>7

LEMMA CompleteListingRewards ==
  ASSUME RewardsOK, PartiesOK, NEW a, NEW l \in ListingIds, NEW pay, NEW deal, NEW run,
         NEW revenue, NEW cost, NEW tier,
         CompleteListing(a, l, pay, deal, run, revenue, cost, tier)
  PROVE  RewardsOK'
<1>1. /\ Free /\ stored' = [stored EXCEPT ![l] = @ + 1] /\ UNCHANGED events
      /\ \E worth \in Worths : due' = <<Reward(listings[l].poster, l, worth)>>
  BY DEF CompleteListing, Handles, Reward, Worths
<1>2. listings[l].poster \in Agents /\ l \in Closed
  BY DEF CompleteListing, PartiesOK, Closed
<1>3. PICK worth \in Worths : due' = <<Reward(listings[l].poster, l, worth)>>
  BY <1>1
<1> DEFINE e == Reward(listings[l].poster, l, worth)
<1>4. e \in CloseEvents /\ e.about = l
  BY <1>2 DEF Reward, CloseEvents, Closed
<1> HIDE DEF e
<1>5. due' = <<e>>
  BY <1>3 DEF e
<1>6. /\ due' \in Seq(CloseEvents) /\ \A i \in DOMAIN due' : i = 1 /\ due'[i] = e
  BY <1>4, <1>5
<1> QED BY <1>1, <1>2, <1>4, <1>6, CloseStored

LEMMA EventWritten ==
  ASSUME IsABag(events), BagToSet(events) \subseteq Events, NEW e \in Events,
         events' = events (+) SetToBag({e})
  PROVE  /\ IsABag(events') /\ BagToSet(events') \subseteq Events
         /\ \A f : Copies(f, events') = Copies(f, events) + IF f = e THEN 1 ELSE 0
<1>1. /\ DOMAIN events' = DOMAIN events \cup {e}
      /\ \A f \in DOMAIN events' :
           events'[f] = (IF f \in DOMAIN events THEN events[f] ELSE 0) + IF f = e THEN 1 ELSE 0
  BY DEF (+), SetToBag
<1>2. events' = [f \in DOMAIN events' |-> events'[f]]
  BY DEF (+)
<1>3. \A f \in DOMAIN events : events[f] \in Nat /\ events[f] > 0
  BY DEF IsABag
<1>4. IsABag(events')
  <2>1. \A f \in DOMAIN events' : events'[f] \in {n \in Nat : n > 0}
    BY <1>1, <1>3
  <2> QED BY <1>2, <2>1 DEF IsABag
<1>5. BagToSet(events') \subseteq Events
  BY <1>1 DEF BagToSet
<1>6. \A f : Copies(f, events') = Copies(f, events) + IF f = e THEN 1 ELSE 0
  BY <1>1, <1>3 DEF Copies, BagIn, BagToSet
<1> QED BY <1>4, <1>5, <1>6

\* The points for a referral are those of no close.
LEMMA ReferralRewards ==
  ASSUME RewardsOK, NEW b \in Agents, CompleteReferral(b)
  PROVE  RewardsOK'
<1> PICK e : e = ReferralReward(b)
  OBVIOUS
<1>1. e \in Events /\ e.delta = 6 /\ events' = events (+) SetToBag({e})
      /\ UNCHANGED <<due, stored>>
  BY DEF CompleteReferral, Events, ReferralReward, Reward, ReferralWorth
<1>2. /\ IsABag(events') /\ BagToSet(events') \subseteq Events
      /\ \A f : Copies(f, events') = Copies(f, events) + IF f = e THEN 1 ELSE 0
  BY <1>1, EventWritten DEF RewardsOK
<1>3. ASSUME NEW a \in Agents, NEW x \in Closed
      PROVE  Rewards(a, x, events)' = Rewards(a, x, events) /\ Owed(a, x)' = Owed(a, x)
  <2>1. \A w \in {2, 4, 5} : Reward(a, x, w) # e
    BY <1>1 DEF Reward
  <2>2. \A w \in {2, 4, 5} : Copies(Reward(a, x, w), events') = Copies(Reward(a, x, w), events)
    <3>1. \A w : Copies(Reward(a, x, w), events) \in Nat
      BY CopiesType DEF RewardsOK
    <3> QED BY <1>2, <2>1, <3>1
  <2> QED BY <1>1, <2>2 DEF Rewards, Owed
<1> QED BY <1>1, <1>2, <1>3 DEF RewardsOK

\* An event that is written is no longer owed.
LEMMA RecordRewards ==
  ASSUME RewardsOK, RecordReputationEvent
  PROVE  RewardsOK'
<1> PICK e : e = Head(due)
  OBVIOUS
<1>1. /\ due # <<>> /\ due' = Tail(due) /\ UNCHANGED stored
      /\ events' = events (+) SetToBag({e})
  BY DEF RecordReputationEvent
<1>2. /\ e \in CloseEvents /\ due' \in Seq(CloseEvents)
      /\ e = due[1] /\ 1 \in DOMAIN due
      /\ \A i \in DOMAIN due' : i + 1 \in DOMAIN due /\ i \in Nat \ {0} /\ due'[i] = due[i + 1]
      /\ \A i \in DOMAIN due : i = 1 \/ (i - 1 \in DOMAIN due' /\ due'[i - 1] = due[i])
  BY <1>1 DEF RewardsOK
<1>3. \A i, j \in DOMAIN due' : due'[i].agent = due'[j].agent => i = j
  BY <1>2 DEF RewardsOK
<1>4. \A i \in DOMAIN due' : due'[i].agent # e.agent
  BY <1>2 DEF RewardsOK
<1>5. /\ IsABag(events') /\ BagToSet(events') \subseteq Events
      /\ \A f : Copies(f, events') = Copies(f, events) + IF f = e THEN 1 ELSE 0
  BY <1>1, <1>2, EventWritten DEF RewardsOK, Events
<1>6. ASSUME NEW a \in Agents, NEW x \in Closed
      PROVE  Rewards(a, x, events)' + Owed(a, x)' <= stored[x]
  <2>1. \A w : Reward(a, x, w).agent = a /\ Reward(a, x, w).about = x /\ Reward(a, x, w).delta = w
    BY DEF Reward
  <2>2. Rewards(a, x, events) \in Nat
    BY RewardsType DEF RewardsOK
  <2>3. Rewards(a, x, events) + Owed(a, x) <= stored[x] /\ stored[x] \in Nat
    BY DEF RewardsOK
  <2>4. CASE e.agent = a /\ e.about = x
    <3>1. Owed(a, x) = 1
      BY <1>2, <2>4 DEF Owed
    <3>2. Owed(a, x)' = 0
      BY <1>4, <2>4 DEF Owed
    <3>3. Rewards(a, x, events)' <= Rewards(a, x, events) + 1
      <4>1. \A w : /\ Copies(Reward(a, x, w), events) \in Nat
                   /\ Copies(Reward(a, x, w), events') =
                        Copies(Reward(a, x, w), events) + IF e = Reward(a, x, w) THEN 1 ELSE 0
        BY <1>5, CopiesType DEF RewardsOK
      <4>2. \A w \in {2, 4, 5} : e = Reward(a, x, w) => e.delta = w
        BY <2>1
      <4> HIDE DEF Reward
      <4> QED BY <4>1, <4>2 DEF Rewards
    <3>4. Rewards(a, x, events)' \in Nat
      BY <1>5, CopiesType DEF Rewards
    <3> QED BY <2>2, <2>3, <3>1, <3>2, <3>3, <3>4
  <2>5. CASE ~(e.agent = a /\ e.about = x)
    <3>1. \A w : Reward(a, x, w) # e
      BY <2>1, <2>5
    <3>2. \A w : Copies(Reward(a, x, w), events') = Copies(Reward(a, x, w), events)
      <4>1. \A w : Copies(Reward(a, x, w), events) \in Nat
        BY CopiesType DEF RewardsOK
      <4> QED BY <1>5, <3>1, <4>1
    <3>3. Rewards(a, x, events)' = Rewards(a, x, events)
      BY <3>2 DEF Rewards
    <3>4. Owed(a, x)' <= Owed(a, x) /\ Owed(a, x) \in Nat /\ Owed(a, x)' \in Nat
      BY <1>2 DEF Owed
    <3> QED BY <2>2, <2>3, <3>3, <3>4
  <2> QED BY <2>4, <2>5
<1> QED BY <1>1, <1>2, <1>3, <1>5, <1>6 DEF RewardsOK

LEMMA CrashRewards ==
  ASSUME RewardsOK, Crash
  PROVE  RewardsOK'
<1>1. due' = <<>> /\ UNCHANGED <<events, stored>>
  BY DEF Crash
<1>2. ASSUME NEW a \in Agents, NEW x \in Closed
      PROVE  Rewards(a, x, events)' + Owed(a, x)' <= stored[x]
  <2>1. Owed(a, x)' = 0 /\ Owed(a, x) \in Nat
    BY <1>1 DEF Owed
  <2>2. Rewards(a, x, events)' = Rewards(a, x, events) /\ Rewards(a, x, events) \in Nat
    BY <1>1, RewardsType DEF RewardsOK
  <2>3. Rewards(a, x, events) + Owed(a, x) <= stored[x] /\ stored[x] \in Nat
    BY DEF RewardsOK
  <2> QED BY <2>1, <2>2, <2>3
<1> QED BY <1>1, <1>2 DEF RewardsOK

-----------------------------------------------------------------------------
(* Who takes part *)

LEMMA RoomParties ==
  ASSUME IInv, PartiesOK, NEW r \in RoomIds, NEW row,
         row.participants \in Seq(Agents), Distinct(row.participants),
         rooms' = [rooms EXCEPT ![r] = row], UNCHANGED listings
  PROVE  PartiesOK'
<1>1. \A x \in RoomIds : rooms'[x] = IF x = r THEN row ELSE rooms[x]
  BY DEF IInv, RoomsOK
<1> QED BY <1>1 DEF PartiesOK

LEMMA ListingParties ==
  ASSUME IInv, PartiesOK, NEW l \in ListingIds, NEW row, row.poster \in Agents,
         listings' = [listings EXCEPT ![l] = row], UNCHANGED rooms
  PROVE  PartiesOK'
<1>1. \A x \in ListingIds : listings'[x] = IF x = l THEN row ELSE listings[x]
  BY DEF IInv, ListingsOK
<1> QED BY <1>1 DEF PartiesOK

LEMMA PartiesKept ==
  ASSUME PartiesOK, UNCHANGED <<rooms, listings>>
  PROVE  PartiesOK'
BY DEF PartiesOK

\* A room that is talked in or closed keeps its participants.
LEMMA SameParties ==
  ASSUME IInv, PartiesOK, NEW r \in RoomIds, rooms[r] # None, NEW row,
         row.participants = rooms[r].participants,
         rooms' = [rooms EXCEPT ![r] = row], UNCHANGED listings
  PROVE  PartiesOK'
<1>1. rooms[r].participants \in Seq(Agents) /\ Distinct(rooms[r].participants)
  BY DEF PartiesOK
<1> QED BY <1>1, RoomParties

LEMMA InRoomRewards ==
  ASSUME IInv, RewardsOK, PartiesOK, NEW a \in Agents, InRoom(a)
  PROVE  RewardsOK' /\ PartiesOK'
<1>1. ASSUME NEW invites \in Invites, NEW deal, CreateDealRoom(a, invites, deal)
      PROVE  RewardsOK' /\ PartiesOK'
  <2> DEFINE names == Participants(<<a>> \o invites)
  <2>1. names \in Seq(Agents) /\ Distinct(names)
    <3>1. <<a>> \o invites \in Seq(Agents)
      BY RoomsAssumption
    <3> QED BY <3>1, ParticipantsOnce
  <2> DEFINE row == [participants |-> names, deal |-> deal, messages |-> 0,
                     status |-> "open", type |-> None, confirmed |-> FALSE, check |-> None]
  <2>2. PICK r \in RoomIds : rooms' = [rooms EXCEPT ![r] = row]
    BY <1>1 DEF CreateDealRoom
  <2>4. row.participants = names
    OBVIOUS
  <2> HIDE DEF row
  <2> HIDE DEF names
  <2>3. UNCHANGED <<listings, events, due, stored>>
    BY <1>1 DEF CreateDealRoom
  <2> QED BY <2>1, <2>2, <2>3, <2>4, RoomParties, RewardsKept
<1>2. ASSUME NEW r \in RoomIds, NEW c, PostDealRoomMessage(a, r, c)
      PROVE  RewardsOK' /\ PartiesOK'
  <2>1. rooms[r] # None /\ rooms[r] = [f \in RoomFields |-> rooms[r][f]]
    BY <1>2 DEF PostDealRoomMessage, IInv, RoomsOK
  <2> DEFINE row == [rooms[r] EXCEPT !.messages = AtMost(rooms[r].messages + 1, MaxMessages)]
  <2>2. rooms' = [rooms EXCEPT ![r] = row]
    BY <1>2 DEF PostDealRoomMessage
  <2>4. row.participants = rooms[r].participants
    BY <2>1 DEF RoomFields
  <2> HIDE DEF row
  <2>3. UNCHANGED <<listings, events, due, stored>>
    BY <1>2 DEF PostDealRoomMessage
  <2> QED BY <2>1, <2>2, <2>3, <2>4, SameParties, RewardsKept
<1>3. ASSUME NEW r \in RoomIds, NEW type, NEW confirmed, NEW c, NEW deal, NEW run,
             NEW revenue, NEW cost, NEW tier,
             CloseDealRoom(a, r, type, confirmed, c, deal, run, revenue, cost, tier)
      PROVE  RewardsOK' /\ PartiesOK'
  <2>1. rooms[r] # None /\ rooms[r] = [f \in RoomFields |-> rooms[r][f]]
    BY <1>3 DEF CloseDealRoom, IInv, RoomsOK
  <2>2. PICK check :
          rooms' = [rooms EXCEPT ![r].status = "closed", ![r].type = type,
                                 ![r].confirmed = confirmed, ![r].check = check]
    BY <1>3 DEF CloseDealRoom
  <2> DEFINE row == [rooms[r] EXCEPT !.status = "closed", !.type = type,
                                     !.confirmed = confirmed, !.check = check]
  <2>4. rooms' = [rooms EXCEPT ![r] = row]
    BY <2>2
  <2>5. row.participants = rooms[r].participants
    BY <2>1 DEF RoomFields
  <2> HIDE DEF row
  <2>3. UNCHANGED listings
    BY <1>3 DEF CloseDealRoom
  <2> QED BY <1>3, <2>1, <2>3, <2>4, <2>5, SameParties, CloseDealRoomRewards
<1>4. ASSUME NEW r, NEW p, Micropay(a, r, p)
      PROVE  RewardsOK' /\ PartiesOK'
  BY <1>4, RewardsKept, PartiesKept DEF Micropay
<1> QED BY <1>1, <1>2, <1>3, <1>4 DEF InRoom

LEMMA AtMarketRewards ==
  ASSUME IInv, RewardsOK, PartiesOK, NEW a \in Agents, AtMarket(a)
  PROVE  RewardsOK' /\ PartiesOK'
<1>1. ASSUME NEW title, NEW price, CreateListing(a, title, price)
      PROVE  RewardsOK' /\ PartiesOK'
  <2> DEFINE row == [poster |-> a, title |-> title, price |-> price, status |-> "active",
                     check |-> None]
  <2>1. PICK l \in ListingIds : listings' = [listings EXCEPT ![l] = row]
    BY <1>1 DEF CreateListing
  <2>3. row.poster = a
    OBVIOUS
  <2> HIDE DEF row
  <2>2. UNCHANGED <<rooms, events, due, stored>>
    BY <1>1 DEF CreateListing
  <2> QED BY <2>1, <2>2, <2>3, ListingParties, RewardsKept
<1>2. ASSUME NEW l \in ListingIds, NEW pay, NEW deal, NEW run, NEW revenue, NEW cost, NEW tier,
             CompleteListing(a, l, pay, deal, run, revenue, cost, tier)
      PROVE  RewardsOK' /\ PartiesOK'
  <2>1. listings[l] # None /\ listings[l] = [f \in ListingFields |-> listings[l][f]]
    BY <1>2 DEF CompleteListing, IInv, ListingsOK
  <2>2. PICK check :
          listings' = [listings EXCEPT ![l].status = "completed", ![l].check = check]
    BY <1>2 DEF CompleteListing
  <2> DEFINE row == [listings[l] EXCEPT !.status = "completed", !.check = check]
  <2>4. listings' = [listings EXCEPT ![l] = row]
    BY <2>2
  <2>5. row.poster = listings[l].poster
    BY <2>1 DEF ListingFields
  <2> HIDE DEF row
  <2>3. UNCHANGED rooms /\ listings[l].poster \in Agents
    BY <1>2, <2>1 DEF CompleteListing, PartiesOK
  <2> QED BY <1>2, <2>3, <2>4, <2>5, ListingParties, CompleteListingRewards
<1> QED BY <1>1, <1>2 DEF AtMarket

LEMMA NextRewards ==
  IInv /\ RewardsOK /\ PartiesOK /\ [Next]_vars => RewardsOK' /\ PartiesOK'
<1> SUFFICES ASSUME IInv, RewardsOK, PartiesOK, [Next]_vars PROVE RewardsOK' /\ PartiesOK'
  OBVIOUS
<1>1. ASSUME UNCHANGED <<rooms, listings, events, due, stored>> PROVE RewardsOK' /\ PartiesOK'
  BY <1>1, RewardsKept, PartiesKept
<1>2. ASSUME NEW a \in Agents, Authenticate(a) \/ Refuse(a) \/ Suspend(a)
      PROVE  RewardsOK' /\ PartiesOK'
  BY <1>1, <1>2 DEF Authenticate, Refuse, Suspend
<1>3. ASSUME NEW a \in Agents, InHub(a) PROVE RewardsOK' /\ PartiesOK'
  BY <1>1, <1>3 DEF InHub, JoinHub, CreateHub
<1>4. CASE NextDay \/ UNCHANGED vars
  BY <1>1, <1>4 DEF NextDay, vars
<1>5. ASSUME NEW deal, NEW outcome, EndChain(deal, outcome) PROVE RewardsOK' /\ PartiesOK'
  BY <1>1, <1>5 DEF EndChain
<1>6. ASSUME NEW p, ConfirmPayment(p) PROVE RewardsOK' /\ PartiesOK'
  BY <1>1, <1>6 DEF ConfirmPayment
<1>7. CASE RecordReputationEvent
  BY <1>7, RecordRewards, PartiesKept DEF RecordReputationEvent
<1>8. CASE Crash
  BY <1>8, CrashRewards, PartiesKept DEF Crash
<1>9. ASSUME NEW a \in Agents, CompleteReferral(a) PROVE RewardsOK' /\ PartiesOK'
  BY <1>9, ReferralRewards, PartiesKept DEF CompleteReferral
<1> QED BY <1>2, <1>3, <1>4, <1>5, <1>6, <1>7, <1>8, <1>9, InRoomRewards, AtMarketRewards DEF Next

\* Closing again pays again, but only for a row that is on record, and a crash between the
\* row and its rewards pays less, never more: for any number of agents, rooms, listings and
\* referrals, whose points are the only ones without a close.
THEOREM BonusEarned == Spec => []BonusIsEarned
<1>1. Spec => []IInv
  BY InitOK, NextOK, PTL DEF Spec
<1>2. RewardsOK => BonusIsEarned
  <2> SUFFICES ASSUME RewardsOK PROVE BonusIsEarned
    OBVIOUS
  <2>1. ASSUME NEW e \in BagToSet(events)
        PROVE  \/ e = ReferralReward(e.agent)
               \/ e.about \in RoomIds \cup ListingIds /\ e.delta \in Worths
    <3>1. CASE e \in CloseEvents
      BY <3>1 DEF CloseEvents
    <3>2. CASE \E a \in Agents : e = ReferralReward(a)
      BY <3>2 DEF ReferralReward, Reward
    <3> QED BY <2>1, <3>1, <3>2 DEF RewardsOK, Events
  <2>2. ASSUME NEW a \in Agents, NEW x \in Closed
        PROVE  Rewards(a, x, events) <= stored[x]
    <3>1. Rewards(a, x, events) \in Nat
      BY RewardsType DEF RewardsOK
    <3>2. Rewards(a, x, events) + Owed(a, x) <= stored[x] /\ stored[x] \in Nat
      BY DEF RewardsOK
    <3>3. Owed(a, x) \in Nat
      BY DEF Owed
    <3> QED BY <3>1, <3>2, <3>3
  <2> QED BY <2>1, <2>2 DEF BonusIsEarned, Closed
<1>3. Init => RewardsOK /\ PartiesOK
  BY InitRewards
<1>4. IInv /\ (RewardsOK /\ PartiesOK) /\ [Next]_vars => (RewardsOK /\ PartiesOK)'
  BY NextRewards
<1> QED BY <1>1, <1>2, <1>3, <1>4, PTL DEF Spec
=============================================================================
