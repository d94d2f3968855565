----------------------------- MODULE CheckInProofs -----------------------------
(***************************************************************************)
(* Proofs about CheckIn, for all processes, users and arguments: a process *)
(* that exits with success has been confirmed by all it had to be.         *)
(***************************************************************************)
EXTENDS CheckIn, Positions, TLAPS

-----------------------------------------------------------------------------
(* The inductive invariant.                                                *)

\* Before its last question, a process has a user left to ask.
Pending == {"new", "asking", "requesting", "answered"}

AsksTypeOK ==
  /\ plan \in [Processes -> Plans]
  /\ pc \in [Processes -> Ended \cup Pending \cup {"waiting"}]
  /\ asked \in [Processes -> Nat]
  /\ \A p \in Processes :
       /\ asked[p] <= Len(plan[p].users)
       /\ pc[p] \in Pending => /\ asked[p] < Len(plan[p].users)
                               /\ plan[p].mode # "users" => asked[p] = 0

\* An address leads to an event that waits for it.
RegisteredSound ==
  /\ received \in [Processes -> [Addresses -> Nat]]
  /\ \A p \in Processes : \A a \in Addresses :
       received[p][a] # NoEvent =>
         received[p][a] \in Events(p) /\ Address(p, received[p][a]) = a

\* What is on the wire has been answered, and what is set was on the wire.
ConfirmedSound ==
  /\ \A m \in wire : m.answer \in answers
  /\ \A answer \in answers : answer.from \in Addresses
  /\ confirmed \in [Processes -> SUBSET Nat]
  /\ \A p \in Processes : \A i \in confirmed[p] : i \in Events(p) /\ Answered(p, i)

SucceededSound ==
  \A p \in Processes : pc[p] = "succeeded" => Events(p) \subseteq confirmed[p]

CheckInInv == AsksTypeOK /\ RegisteredSound /\ ConfirmedSound /\ SucceededSound

-----------------------------------------------------------------------------
(* Addresses and events.                                                   *)

LEMMA PlanTyped ==
  ASSUME CheckInAssumption, AsksTypeOK, NEW p \in Processes
  PROVE  /\ plan[p].mode \in Modes
         /\ plan[p].users \in Seq(Users)
         /\ plan[p].users # <<>>
         /\ plan[p].ports \subseteq Ports
         /\ Len(plan[p].users) \in Nat \ {0}
BY DEF CheckInAssumption, AsksTypeOK

LEMMA AddressTyped ==
  ASSUME CheckInAssumption, AsksTypeOK, NEW p \in Processes, NEW i \in Events(p)
  PROVE  Address(p, i) \in Addresses
<1>1. CASE plan[p].mode = "anyone"
  BY <1>1 DEF Address, Addresses, InRoom
<1>2. CASE plan[p].mode # "anyone"
  <2>1. i \in 1..Len(plan[p].users)
    BY <1>2 DEF Events
  <2>2. plan[p].users[i] \in Users
    BY <2>1, PlanTyped
  <2>3. QED
    BY <1>2, <2>2, PlanTyped DEF Address, Addresses, InRoom, Direct, Modes
<1>3. QED
  BY <1>1, <1>2

\* Any two ways of looking up a confirmation find an event that waits for it.
LEMMA LookupSound ==
  ASSUME CheckInAssumption, AsksTypeOK, NEW p \in Processes, NEW i \in Events(p),
         NEW from \in Addresses,
         Address(p, i) \in {from, Front(from)}
  PROVE  IF plan[p].mode = "anyone" THEN from.room ELSE from = Address(p, i)
<1>1. CASE plan[p].mode = "anyone"
  BY <1>1 DEF Address, InRoom, Front, Addresses
<1>2. CASE plan[p].mode # "anyone"
  <2>1. i \in 1..Len(plan[p].users)
    BY <1>2 DEF Events
  <2>2. plan[p].users[i] \in Users /\ plan[p].users[i] # Nobody
    BY <2>1, PlanTyped DEF CheckInAssumption
  <2>3. Address(p, i) \in {InRoom(plan[p].users[i]), Direct(plan[p].users[i])}
    BY <1>2, PlanTyped DEF Address, Modes
  <2>4. Address(p, i) # InRoom(Nobody)
    BY <2>2, <2>3 DEF InRoom, Direct
  <2>5. QED
    BY <1>2, <2>4 DEF Front
<1>3. QED
  BY <1>1, <1>2

\* What is asked next is among the events of the process.
LEMMA NextEventsKnown ==
  ASSUME CheckInAssumption, AsksTypeOK, NEW p \in Processes, pc[p] \in Pending
  PROVE  NextEvents(p) \subseteq Events(p) /\ NextEvents(p) # {}
<1>1. asked[p] \in Nat /\ asked[p] < Len(plan[p].users) /\ Len(plan[p].users) \in Nat \ {0}
  BY PlanTyped DEF AsksTypeOK
<1>2. CASE plan[p].mode = "users"
  <2>1. NextEvents(p) = {asked[p] + 1} /\ Events(p) = 1..Len(plan[p].users)
    BY <1>2 DEF NextEvents, Events
  <2>2. QED
    BY <1>1, <2>1
<1>3. CASE plan[p].mode # "users"
  <2>1. NextEvents(p) = Events(p)
    BY <1>3 DEF NextEvents
  <2>2. 1 \in Events(p)
    BY <1>1 DEF Events
  <2>3. QED
    BY <2>1, <2>2
<1>4. QED
  BY <1>2, <1>3

\* An address that the next request registers leads to an event of that address.
LEMMA RegisterSound ==
  ASSUME CheckInAssumption, AsksTypeOK, RegisteredSound, NEW p \in Processes,
         pc[p] = "asking"
  PROVE  /\ RegisterCheckIn(p) \in [Addresses -> Nat]
         /\ \A a \in Addresses :
              RegisterCheckIn(p)[a] # NoEvent =>
                /\ RegisterCheckIn(p)[a] \in Events(p)
                /\ Address(p, RegisterCheckIn(p)[a]) = a
<1> DEFINE at(a) == {i \in NextEvents(p) : Address(p, i) = a}
           last(a) == CHOOSE i \in at(a) : \A k \in at(a) : k <= i
<1>1. \A a \in Addresses :
        RegisterCheckIn(p)[a] = IF at(a) = {} THEN received[p][a] ELSE last(a)
  BY DEF RegisterCheckIn
<1>2. PICK n \in Nat : Events(p) = 1..n
  BY PlanTyped DEF Events
<1>3. ASSUME NEW a \in Addresses, at(a) # {}
      PROVE  last(a) \in Events(p) /\ Address(p, last(a)) = a
  <2>1. at(a) \subseteq 1..n /\ at(a) \subseteq 0..n
    BY <1>2, NextEventsKnown DEF Pending
  <2>2. \E i \in at(a) : \A k \in at(a) : k <= i
    <3> HIDE DEF at
    <3>1. QED
      BY <1>3, <2>1, LastExists
  <2>3. last(a) \in at(a)
    <3> HIDE DEF at
    <3>1. QED
      BY <2>2
  <2>4. QED
    BY <1>2, <2>1, <2>3
<1>4. ASSUME NEW a \in Addresses
      PROVE  RegisterCheckIn(p)[a] \in Nat
  <2> HIDE DEF at, last
  <2>1. received[p][a] \in Nat
    BY DEF RegisteredSound
  <2>2. at(a) # {} => last(a) \in 1..n
    BY <1>2, <1>3
  <2>3. QED
    BY <1>1, <2>1, <2>2
<1>5. RegisterCheckIn(p) \in [Addresses -> Nat]
  BY <1>4 DEF RegisterCheckIn
<1>6. ASSUME NEW a \in Addresses, RegisterCheckIn(p)[a] # NoEvent
      PROVE  /\ RegisterCheckIn(p)[a] \in Events(p)
             /\ Address(p, RegisterCheckIn(p)[a]) = a
  <2> HIDE DEF at, last
  <2>1. CASE at(a) = {}
    BY <1>1, <1>6, <2>1 DEF RegisteredSound
  <2>2. CASE at(a) # {}
    BY <1>1, <1>3, <2>2
  <2>3. QED
    BY <2>1, <2>2
<1>7. QED
  BY <1>5, <1>6

-----------------------------------------------------------------------------
(* Steps.                                                                  *)

\* What Events and Address depend on never changes.
LEMMA PlanKept ==
  ASSUME plan' = plan
  PROVE  \A p : /\ Events(p)' = Events(p)
                /\ \A i : Address(p, i)' = Address(p, i)
BY DEF Events, Address

LEMMA ConfirmedKept ==
  ASSUME ConfirmedSound, plan' = plan, confirmed' = confirmed,
         wire' \subseteq wire, answers' = answers
  PROVE  ConfirmedSound'
BY PlanKept DEF ConfirmedSound, Answered

LEMMA RegisteredKept ==
  ASSUME RegisteredSound, plan' = plan, received' = received
  PROVE  RegisteredSound'
BY PlanKept DEF RegisteredSound

\* An ended process leaves nothing registered.
LEMMA ExitRegistered ==
  ASSUME RegisteredSound, plan' = plan, NEW p \in Processes,
         received' = [received EXCEPT ![p] = Unregistered]
  PROVE  RegisteredSound'
<1>1. Unregistered \in [Addresses -> Nat] /\ \A a \in Addresses : Unregistered[a] = NoEvent
  BY DEF Unregistered, NoEvent
<1>2. received' \in [Processes -> [Addresses -> Nat]]
  BY <1>1 DEF RegisteredSound
<1>3. ASSUME NEW q \in Processes, NEW a \in Addresses, received'[q][a] # NoEvent
      PROVE  received'[q][a] = received[q][a]
  BY <1>1, <1>3 DEF RegisteredSound
<1>4. QED
  BY <1>2, <1>3, PlanKept DEF RegisteredSound

LEMMA SucceededKept ==
  ASSUME SucceededSound, plan' = plan,
         \A p \in Processes : confirmed[p] \subseteq confirmed'[p],
         \A p \in Processes : pc'[p] = "succeeded" =>
           pc[p] = "succeeded" \/ Events(p) \subseteq confirmed[p]
  PROVE  SucceededSound'
BY PlanKept DEF SucceededSound

LEMMA InitCheckIn ==
  ASSUME CheckInAssumption, Init
  PROVE  CheckInInv
<1>1. AsksTypeOK
  <2>1. ASSUME NEW p \in Processes
        PROVE  0 < Len(plan[p].users)
    <3>1. plan[p].users \in Seq(Users) /\ plan[p].users # <<>>
      BY DEF Init, CheckInAssumption
    <3>2. QED
      BY <3>1
  <2>2. ASSUME NEW p \in Processes
        PROVE  Len(plan[p].users) \in Nat
    BY DEF Init, CheckInAssumption
  <2>3. QED
    BY <2>1, <2>2 DEF Init, AsksTypeOK, Pending
<1>2. RegisteredSound
  BY DEF Init, RegisteredSound, Unregistered, NoEvent
<1>3. ConfirmedSound /\ SucceededSound
  BY DEF Init, ConfirmedSound, SucceededSound
<1>4. QED
  BY <1>1, <1>2, <1>3 DEF CheckInInv

LEMMA StartStep ==
  ASSUME CheckInAssumption, CheckInInv, NEW p \in Processes, Start(p)
  PROVE  CheckInInv'
<1>1. pc' \in {[pc EXCEPT ![p] = "raised"], [pc EXCEPT ![p] = "asking"]}
  BY DEF Start, Exits, Goes
<1>2. AsksTypeOK'
  BY <1>1 DEF CheckInInv, AsksTypeOK, Start, Pending, Ended
<1>3. RegisteredSound'
  <2>1. received' \in {received, [received EXCEPT ![p] = Unregistered]} /\ plan' = plan
    BY DEF Start, Exits
  <2>2. QED
    BY <2>1, ExitRegistered, RegisteredKept DEF CheckInInv
<1>4. ConfirmedSound' /\ SucceededSound'
  BY <1>1, ConfirmedKept, SucceededKept DEF CheckInInv, AsksTypeOK, Start
<1>5. QED
  BY <1>2, <1>3, <1>4 DEF CheckInInv

LEMMA RequestStep ==
  ASSUME CheckInAssumption, CheckInInv, NEW p \in Processes, Request(p)
  PROVE  CheckInInv'
<1>1. AsksTypeOK'
  BY DEF CheckInInv, AsksTypeOK, Request, Goes, Pending, Ended
<1>2. RegisteredSound'
  <2>1. plan' = plan /\ received' = [received EXCEPT ![p] = RegisterCheckIn(p)]
    BY DEF Request
  <2>2. /\ RegisterCheckIn(p) \in [Addresses -> Nat]
        /\ \A a \in Addresses :
             RegisterCheckIn(p)[a] # NoEvent =>
               /\ RegisterCheckIn(p)[a] \in Events(p)
               /\ Address(p, RegisterCheckIn(p)[a]) = a
    BY RegisterSound DEF CheckInInv, Request
  <2>3. received' \in [Processes -> [Addresses -> Nat]]
    BY <2>1, <2>2 DEF CheckInInv, RegisteredSound
  <2>4. ASSUME NEW q \in Processes, NEW a \in Addresses, received'[q][a] # NoEvent
        PROVE  received'[q][a] \in Events(q) /\ Address(q, received'[q][a]) = a
    <3>1. CASE q = p
      <4>1. received'[q] = RegisterCheckIn(p)
        BY <2>1, <3>1 DEF CheckInInv, RegisteredSound
      <4>2. QED
        BY <2>2, <2>4, <3>1, <4>1
    <3>2. CASE q # p
      BY <2>1, <2>4, <3>2 DEF CheckInInv, RegisteredSound
    <3>3. QED
      BY <3>1, <3>2
  <2>5. QED
    BY <2>1, <2>3, <2>4, PlanKept DEF RegisteredSound
<1>3. ConfirmedSound' /\ SucceededSound'
  BY ConfirmedKept, SucceededKept DEF CheckInInv, AsksTypeOK, Request, Goes
<1>4. QED
  BY <1>1, <1>2, <1>3 DEF CheckInInv

LEMMA RespondedStep ==
  ASSUME CheckInAssumption, CheckInInv, NEW p \in Processes, Responded(p)
  PROVE  CheckInInv'
<1>1. plan' = plan /\ pc[p] = "answered" /\ asked' = [asked EXCEPT ![p] = @ + 1]
  BY DEF Responded
<1>2. pc' = [pc EXCEPT ![p] = IF LastAsked(p) THEN "waiting" ELSE "asking"]
  BY DEF Responded, Goes
<1>3. /\ asked[p] \in Nat
      /\ asked[p] < Len(plan[p].users)
      /\ plan[p].mode # "users" => asked[p] = 0
      /\ Len(plan[p].users) \in Nat
  BY <1>1, PlanTyped DEF CheckInInv, AsksTypeOK, Pending
<1>4. ~LastAsked(p) => plan[p].mode = "users" /\ asked[p] + 1 < Len(plan[p].users)
  <2>1. plan[p].mode # "users" => LastAsked(p)
    BY DEF LastAsked, NextEvents
  <2>2. ASSUME plan[p].mode = "users", ~LastAsked(p)
        PROVE  asked[p] + 1 < Len(plan[p].users)
    <3>1. NextEvents(p) = {asked[p] + 1} /\ Events(p) = 1..Len(plan[p].users)
      BY <2>2 DEF NextEvents, Events
    <3>2. PICK i \in 1..Len(plan[p].users) : i # asked[p] + 1 /\ ~(i <= asked[p])
      BY <2>2, <3>1 DEF LastAsked
    <3>3. QED
      BY <1>3, <3>2
  <2>3. QED
    BY <2>1, <2>2
<1>5. AsksTypeOK'
  <2>1. /\ plan' \in [Processes -> Plans]
        /\ pc' \in [Processes -> Ended \cup Pending \cup {"waiting"}]
        /\ asked' \in [Processes -> Nat]
    BY <1>1, <1>2, <1>3 DEF CheckInInv, AsksTypeOK, Pending
  <2>2. ASSUME NEW q \in Processes
        PROVE  /\ asked'[q] <= Len(plan[q].users)
               /\ pc'[q] \in Pending => /\ asked'[q] < Len(plan[q].users)
                                        /\ plan[q].mode # "users" => asked'[q] = 0
    <3>1. CASE q # p
      BY <1>1, <1>2, <3>1 DEF CheckInInv, AsksTypeOK
    <3>2. CASE q = p
      <4>1. asked'[p] = asked[p] + 1 /\ pc'[p] = IF LastAsked(p) THEN "waiting" ELSE "asking"
        BY <1>1, <1>2 DEF CheckInInv, AsksTypeOK
      <4>2. QED
        BY <1>3, <1>4, <3>2, <4>1 DEF Pending
    <3>3. QED
      BY <3>1, <3>2
  <2>3. QED
    BY <1>1, <2>1, <2>2 DEF AsksTypeOK
<1>6. RegisteredSound'
  BY RegisteredKept DEF CheckInInv, Responded
<1>7. ConfirmedSound' /\ SucceededSound'
  BY <1>2, ConfirmedKept, SucceededKept DEF CheckInInv, AsksTypeOK, Responded
<1>8. QED
  BY <1>5, <1>6, <1>7 DEF CheckInInv

LEMMA ExitStep ==
  ASSUME CheckInAssumption, CheckInInv, NEW p \in Processes, Raises(p) \/ Finish(p)
  PROVE  CheckInInv'
<1>1. \/ pc' = [pc EXCEPT ![p] = "raised"]
      \/ pc' = [pc EXCEPT ![p] = "failed"]
      \/ pc' = [pc EXCEPT ![p] = "succeeded"] /\ Events(p) \subseteq confirmed[p]
  BY DEF Raises, Finish, Exits, Goes, AllSet
<1>2. /\ received' = [received EXCEPT ![p] = Unregistered]
      /\ plan' = plan /\ asked' = asked /\ confirmed' = confirmed
      /\ wire' = wire /\ answers' = answers
  BY DEF Raises, Finish, Exits
<1>3. AsksTypeOK'
  BY <1>1, <1>2 DEF CheckInInv, AsksTypeOK, Pending, Ended
<1>4. RegisteredSound'
  BY <1>2, ExitRegistered DEF CheckInInv
<1>5. ConfirmedSound'
  BY <1>2, ConfirmedKept DEF CheckInInv
<1>6. \A q \in Processes : pc'[q] = "succeeded" =>
        pc[q] = "succeeded" \/ Events(q) \subseteq confirmed[q]
  BY <1>1 DEF CheckInInv, AsksTypeOK
<1>7. SucceededSound'
  BY <1>2, <1>6, SucceededKept DEF CheckInInv
<1>8. QED
  BY <1>3, <1>4, <1>5, <1>7 DEF CheckInInv

LEMMA BotStep ==
  ASSUME CheckInAssumption, CheckInInv, NEW p \in Processes, BotAsks(p)
  PROVE  CheckInInv'
<1>1. pc[p] = "requesting" /\ pc' = [pc EXCEPT ![p] = "answered"]
  BY DEF BotAsks, Goes
<1>2. /\ plan' = plan /\ asked' = asked /\ received' = received
      /\ confirmed' = confirmed /\ wire' = wire /\ answers' = answers
  BY DEF BotAsks
<1>3. AsksTypeOK'
  <2>1. pc[p] \in Pending /\ "answered" \in Pending
    BY <1>1 DEF Pending
  <2>2. QED
    BY <1>1, <1>2, <2>1 DEF CheckInInv, AsksTypeOK
<1>4. RegisteredSound' /\ ConfirmedSound'
  BY <1>2, RegisteredKept, ConfirmedKept DEF CheckInInv
<1>5. SucceededSound'
  BY <1>1, <1>2, SucceededKept DEF CheckInInv, AsksTypeOK
<1>6. QED
  BY <1>3, <1>4, <1>5 DEF CheckInInv

LEMMA ConfirmStep ==
  ASSUME CheckInAssumption, CheckInInv, NEW u \in Users, NEW question, Confirm(u, question)
  PROVE  CheckInInv'
<1> DEFINE from == IF \E a \in question.to : a.room THEN InRoom(u) ELSE Direct(u)
           answer == [name |-> question.name, from |-> from]
<1>1. /\ answers' = answers \cup {answer}
      /\ wire' = wire \cup {[answer |-> answer, port |-> question.port]}
      /\ plan' = plan /\ pc' = pc /\ asked' = asked
      /\ received' = received /\ confirmed' = confirmed
  BY DEF Confirm
<1>2. answer.from \in Addresses
  BY DEF Addresses, InRoom, Direct
<1> HIDE DEF answer
<1>3. AsksTypeOK' /\ RegisteredSound' /\ SucceededSound'
  BY <1>1, RegisteredKept, SucceededKept DEF CheckInInv, AsksTypeOK
<1>4. ConfirmedSound'
  BY <1>1, <1>2, PlanKept DEF CheckInInv, ConfirmedSound, Answered
<1>5. QED
  BY <1>3, <1>4 DEF CheckInInv

LEMMA DeliverStep ==
  ASSUME CheckInAssumption, CheckInInv, NEW p \in Processes, NEW m \in wire,
         NEW again \in BOOLEAN, Deliver(m, p, again)
  PROVE  CheckInInv'
<1>1. /\ confirmed' = [confirmed EXCEPT ![p] = @ \cup CheckInUser(p, m.answer)]
      /\ wire' \subseteq wire
      /\ plan' = plan /\ pc' = pc /\ asked' = asked
      /\ received' = received /\ answers' = answers
  BY DEF Deliver
<1>2. m.answer \in answers /\ m.answer.from \in Addresses
  BY DEF CheckInInv, ConfirmedSound
<1>3. Front(m.answer.from) \in Addresses
  BY <1>2 DEF Front, Addresses, InRoom
<1>4. ASSUME NEW i \in CheckInUser(p, m.answer)
      PROVE  i \in Events(p) /\ i \in Nat /\ Answered(p, i)
  <2>1. m.answer.name = plan[p].name
    BY <1>4 DEF CheckInUser
  <2>2. PICK a \in {m.answer.from, Front(m.answer.from)} :
          i = received[p][a] /\ i # NoEvent
    BY <1>4 DEF CheckInUser
  <2>3. i \in Events(p) /\ i \in Nat /\ Address(p, i) = a
    BY <1>2, <1>3, <2>2 DEF CheckInInv, RegisteredSound
  <2>4. IF plan[p].mode = "anyone" THEN m.answer.from.room
        ELSE m.answer.from = Address(p, i)
    BY <1>2, <2>2, <2>3, LookupSound DEF CheckInInv
  <2>5. QED
    BY <1>2, <2>1, <2>3, <2>4 DEF Answered
<1>5. confirmed \in [Processes -> SUBSET Nat]
  BY DEF CheckInInv, ConfirmedSound
<1>6. \A q \in Processes : \A i \in confirmed'[q] :
        i \in confirmed[q] \/ (q = p /\ i \in CheckInUser(p, m.answer))
  BY <1>1, <1>5
<1>7. ConfirmedSound'
  <2>1. confirmed' \in [Processes -> SUBSET Nat]
    BY <1>1, <1>4, <1>5
  <2>2. ASSUME NEW q \in Processes, NEW i \in confirmed'[q]
        PROVE  i \in Events(q) /\ Answered(q, i)
    BY <1>4, <1>6, <2>2 DEF CheckInInv, ConfirmedSound
  <2>3. \A q, i : Answered(q, i)' = Answered(q, i)
    BY <1>1, PlanKept DEF Answered
  <2>4. QED
    BY <1>1, <2>1, <2>2, <2>3, PlanKept DEF CheckInInv, ConfirmedSound
<1>8. \A q \in Processes : confirmed[q] \subseteq confirmed'[q]
  BY <1>1, <1>5
<1>9. AsksTypeOK' /\ RegisteredSound' /\ SucceededSound'
  BY <1>1, <1>8, RegisteredKept, SucceededKept DEF CheckInInv, AsksTypeOK
<1>10. QED
  BY <1>7, <1>9 DEF CheckInInv

LEMMA QuietStep ==
  ASSUME CheckInInv, wire' \subseteq wire,
         UNCHANGED <<plan, pc, asked, received, confirmed, answers>>
  PROVE  CheckInInv'
<1>1. AsksTypeOK' /\ SucceededSound'
  BY SucceededKept DEF CheckInInv, AsksTypeOK
<1>2. RegisteredSound' /\ ConfirmedSound'
  BY RegisteredKept, ConfirmedKept DEF CheckInInv
<1>3. QED
  BY <1>1, <1>2 DEF CheckInInv

LEMMA CheckInStep ==
  ASSUME CheckInAssumption, CheckInInv, [Next]_ciVars
  PROVE  CheckInInv'
<1>1. ASSUME NEW p \in Processes, Process(p) \/ BotAsks(p)
      PROVE  CheckInInv'
  BY <1>1, StartStep, RequestStep, RespondedStep, ExitStep, BotStep DEF Process
<1>2. ASSUME NEW m \in wire, Lose(m)
      PROVE  CheckInInv'
  BY <1>2, QuietStep DEF Lose
<1>3. CASE UNCHANGED ciVars
  BY <1>3, QuietStep DEF ciVars
<1>4. QED
  BY <1>1, <1>2, <1>3, ConfirmStep, DeliverStep DEF Next

-----------------------------------------------------------------------------
\* Whatever processes run on the host with whatever arguments, and whatever happens
\* to the bot's messages: exit code 0 means that everyone the process named, or
\* someone in the room, has confirmed the check-in of its name.
THEOREM SuccessEarned == Spec => []SuccessIsEarned
<1>1. CheckInAssumption
  BY CheckInAssumption
<1>2. CheckInInv => SuccessIsEarned
  BY DEF CheckInInv, SucceededSound, ConfirmedSound, SuccessIsEarned
<1>3. QED
  BY <1>1, <1>2, InitCheckIn, CheckInStep, PTL DEF Spec

PortTyped == port \in [Processes -> Ports \cup {0}]

LEMMA PortStep ==
  ASSUME CheckInAssumption, CheckInInv, PortTyped, [Next]_ciVars
  PROVE  PortTyped'
<1>1. ASSUME NEW p \in Processes, Start(p)
      PROVE  PortTyped'
  <2> DEFINE free == plan[p].ports \ {port[q] : q \in Processes}
  <2>1. CASE free = {}
    BY <1>1, <2>1 DEF Start, Exits, PortTyped
  <2>2. CASE free # {}
    <3>1. free \subseteq Ports /\ free \subseteq Nat
      BY PlanTyped DEF CheckInAssumption, CheckInInv
    <3>2. port' = [port EXCEPT ![p] = CHOOSE n \in free : \A k \in free : n <= k]
      BY <1>1, <2>2 DEF Start
    <3> HIDE DEF free
    <3>3. (CHOOSE n \in free : \A k \in free : n <= k) \in Ports
      BY <2>2, <3>1, FirstPosition
    <3>4. QED
      BY <3>2, <3>3 DEF PortTyped
  <2>3. QED
    BY <2>1, <2>2
<1>2. ASSUME NEW p \in Processes, Raises(p) \/ Finish(p)
      PROVE  PortTyped'
  BY <1>2 DEF Raises, Finish, Exits, PortTyped
<1>3. ASSUME port' = port
      PROVE  PortTyped'
  BY <1>3 DEF PortTyped
<1>4. ASSUME NEW p \in Processes, Request(p) \/ Responded(p) \/ BotAsks(p)
      PROVE  port' = port
  BY <1>4 DEF Request, Responded, BotAsks
<1>5. ASSUME NEW u \in Users, NEW question \in asks, Confirm(u, question)
      PROVE  port' = port
  BY <1>5 DEF Confirm
<1>6. ASSUME NEW m \in wire,
             Lose(m) \/ \E p \in Processes, again \in BOOLEAN : Deliver(m, p, again)
      PROVE  port' = port
  BY <1>6 DEF Lose, Deliver
<1>7. CASE UNCHANGED ciVars
  BY <1>3, <1>7 DEF ciVars
<1>8. QED
  BY <1>1, <1>2, <1>3, <1>4, <1>5, <1>6, <1>7 DEF Next, Process

\* The server's port is one it was given, and no event is set that its process does
\* not wait for: confirmations that find nothing registered set nothing.
THEOREM CheckInTypeCorrect == Spec => []CheckInTypeOK
<1>1. CheckInAssumption
  BY CheckInAssumption
<1>2. Init => PortTyped
  BY DEF Init, PortTyped
<1>3. CheckInInv /\ PortTyped => CheckInTypeOK
  <2> SUFFICES ASSUME CheckInInv, PortTyped PROVE CheckInTypeOK
    OBVIOUS
  <2>1. /\ plan \in [Processes -> Plans]
        /\ pc \in [Processes -> Ended \cup {"new", "asking", "requesting", "answered", "waiting"}]
        /\ received \in [Processes -> [Addresses -> Nat]]
    BY DEF CheckInInv, AsksTypeOK, RegisteredSound, Pending
  <2>2. ASSUME NEW p \in Processes
        PROVE  asked[p] \in 0..Len(plan[p].users) /\ confirmed[p] \subseteq Events(p)
    <3>1. asked[p] \in Nat /\ asked[p] <= Len(plan[p].users) /\ Len(plan[p].users) \in Nat
      BY <1>1, PlanTyped DEF CheckInInv, AsksTypeOK
    <3>2. QED
      BY <3>1 DEF CheckInInv, ConfirmedSound
  <2>3. QED
    BY <2>1, <2>2 DEF CheckInTypeOK, PortTyped
<1>4. QED
  BY <1>1, <1>2, <1>3, InitCheckIn, CheckInStep, PortStep, PTL DEF Spec
=============================================================================
