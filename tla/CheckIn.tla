-------------------------------- MODULE CheckIn --------------------------------
(***************************************************************************)
(* The check-in service: bin/rcubic-checkin starts a RCubicServer, asks a  *)
(* chat bot to have users check in (BotClient.requestUserCheckIn), and     *)
(* waits until they have or a timeout strikes.  A confirmation is a        *)
(* checkInUser request of the bot to the port it was told.                 *)
(*                                                                         *)
(* Each process makes one request.  Several run on a host, at the same     *)
(* time or one after the other, on ports that become free again; their     *)
(* messages may be lost, late, or delivered twice.                         *)
(*                                                                         *)
(* The REST library and the bot are outside the repository: a request is   *)
(* answered or raises, a server listens on the first free port.            *)
(***************************************************************************)
EXTENDS Naturals, Sequences

CONSTANTS
  Processes,  \* runs of rcubic-checkin
  Users,
  Nobody,
  Names,      \* checkInNames
  Plans,      \* the possible arguments of a process
  Ports,      \* of the host
  LPort       \* the option lport, which has a default

(***************************************************************************)
(* "users": each one is asked by a message of his own; "room": all are     *)
(* asked in a room; "anyone": whoever is in the room may answer.  ports:   *)
(* those of the option lrange, or LPort alone.                             *)
(***************************************************************************)
Modes == {"users", "room", "anyone"}

ASSUME CheckInAssumption ==
  /\ Nobody \notin Users
  /\ Plans \subseteq [name : Names, mode : Modes, users : Seq(Users), ports : SUBSET Ports]
  /\ \A arguments \in Plans : arguments.users # <<>>
  /\ LPort \in Ports /\ Ports \subseteq Nat \ {0}

VARIABLES
  plan,        \* plan[p]: the arguments of p
  pc,          \* pc[p]: where p is, or how it ended
  port,        \* port[p]: the port p listens on, 0 if none
  asked,       \* asked[p]: how many of its users p has asked
  received,    \* received[p]: receivedCheckIns[name], the event of each address
  confirmed,   \* confirmed[p]: the events of p that are set
  asks,        \* the questions the bot has put
  wire,        \* confirmations on their way
  answers      \* who has confirmed what, ever

ciVars == <<plan, pc, port, asked, received, confirmed, asks, wire, answers>>

Ended == {"succeeded", "failed", "raised"}

\* 'room/user', 'user@server', and 'room' alone.
Addresses == [room : BOOLEAN, user : Users \cup {Nobody}]
InRoom(u) == [room |-> TRUE, user |-> u]
Direct(u) == [room |-> FALSE, user |-> u]

\* The part of an address before the slash.
Front(a) == IF a.room THEN InRoom(Nobody) ELSE a

\* The address under which p registers its i-th event.
Address(p, i) ==
  CASE plan[p].mode = "users"  -> Direct(plan[p].users[i])
    [] plan[p].mode = "room"   -> InRoom(plan[p].users[i])
    [] plan[p].mode = "anyone" -> InRoom(Nobody)

\* The events a process waits for.
Events(p) == 1..(IF plan[p].mode = "anyone" THEN 1 ELSE Len(plan[p].users))

\* Those that the next request to the bot is about.
NextEvents(p) == IF plan[p].mode = "users" THEN {asked[p] + 1} ELSE Events(p)

NoEvent == 0
Unregistered == [a \in Addresses |-> NoEvent]

Init ==
  /\ plan \in [Processes -> Plans]
  /\ pc = [p \in Processes |-> "new"]
  /\ port = [p \in Processes |-> 0]
  /\ asked = [p \in Processes |-> 0]
  /\ received = [p \in Processes |-> Unregistered]
  /\ confirmed = [p \in Processes |-> {}]
  /\ asks = {}
  /\ wire = {}
  /\ answers = {}

-----------------------------------------------------------------------------
(* The process.                                                            *)

Goes(p, where) == pc' = [pc EXCEPT ![p] = where]

\* The process ends, and with it its server.
Exits(p, how) ==
  /\ Goes(p, how)
  /\ port' = [port EXCEPT ![p] = 0]
  /\ received' = [received EXCEPT ![p] = Unregistered]

\* The server listens on the first port that is free.
Start(p) ==
  LET free == plan[p].ports \ {port[q] : q \in Processes}
  IN /\ pc[p] = "new"
     /\ IF free = {} THEN Exits(p, "raised")
        ELSE /\ Goes(p, "asking")
             /\ port' = [port EXCEPT ![p] = CHOOSE n \in free : \A k \in free : n <= k]
             /\ UNCHANGED received
     /\ UNCHANGED <<plan, asked, confirmed, asks, wire, answers>>

\* registerCheckIn: of events with the same address, the last one stays.
RegisterCheckIn(p) ==
  LET at(a) == {i \in NextEvents(p) : Address(p, i) = a}
  IN [a \in Addresses |->
        IF at(a) = {} THEN received[p][a]
        ELSE CHOOSE i \in at(a) : \A k \in at(a) : k <= i]

\* Up to getResponse(), which blocks: what the answers need is registered first.
Request(p) ==
  /\ pc[p] = "asking"
  /\ Goes(p, "requesting")
  /\ received' = [received EXCEPT ![p] = RegisterCheckIn(p)]
  /\ UNCHANGED <<plan, port, asked, confirmed, asks, wire, answers>>

LastAsked(p) == \A i \in Events(p) \ NextEvents(p) : i <= asked[p]

\* getResponse() returns: the next user is asked, or all have been.
Responded(p) ==
  /\ pc[p] = "answered"
  /\ Goes(p, IF LastAsked(p) THEN "waiting" ELSE "asking")
  /\ asked' = [asked EXCEPT ![p] = @ + 1]
  /\ UNCHANGED <<plan, port, received, confirmed, asks, wire, answers>>

\* getResponse() raises, whether or not the bot got the request.
Raises(p) ==
  /\ pc[p] \in {"requesting", "answered"}
  /\ Exits(p, "raised")
  /\ UNCHANGED <<plan, asked, confirmed, asks, wire, answers>>

AllSet(p) == Events(p) \subseteq confirmed[p]

\* Slip: joinall() has no timeout.
FinishJoined(p) ==
  /\ pc[p] = "waiting"
  /\ AllSet(p)
  /\ Exits(p, "succeeded")
  /\ UNCHANGED <<plan, asked, confirmed, asks, wire, answers>>

\* joinall() returns, when all events are set or at the timeout, which may strike at
\* any time; the outcome is read, and unRegisterCheckIn sets the events.
Finish(p) ==
  /\ pc[p] = "waiting"
  /\ Exits(p, IF AllSet(p) THEN "succeeded" ELSE "failed")
  /\ UNCHANGED <<plan, asked, confirmed, asks, wire, answers>>

-----------------------------------------------------------------------------
(* The bot and the users.                                                  *)

\* The bot puts the question: to whom, for which name, to be confirmed where.
BotAsks(p) ==
  LET question == [name |-> plan[p].name, port |-> LPort,
                   to |-> {Address(p, i) : i \in NextEvents(p)}]
  IN /\ pc[p] = "requesting"
     /\ Goes(p, "answered")
     /\ asks' = asks \cup {question}
     /\ UNCHANGED <<plan, port, asked, received, confirmed, wire, answers>>

\* A user confirms, in the room if that is where he was asked; so may others there.
Confirm(u, question) ==
  LET from == IF \E a \in question.to : a.room THEN InRoom(u) ELSE Direct(u)
      answer == [name |-> question.name, from |-> from]
  IN /\ from.room \/ from \in question.to
     /\ answers' = answers \cup {answer}
     /\ wire' = wire \cup {[answer |-> answer, port |-> question.port]}
     /\ UNCHANGED <<plan, pc, port, asked, received, confirmed, asks>>

\* Slip: the confirmation is not looked up under its name.
CheckInAnyName(p, answer) ==
  {received[p][answer.from], received[p][Front(answer.from)]} \ {NoEvent}

\* Slip: an address that is not registered counts as well.
CheckInUnregistered(p, answer) ==
  IF answer.name = plan[p].name THEN {received[p][answer.from]} ELSE {}

\* checkInUser: the event that is set, if any.  A name or an address that is not
\* registered (any more) raises a KeyError in the handler.
CheckInUser(p, answer) ==
  LET event == IF received[p][Front(answer.from)] # NoEvent
               THEN received[p][Front(answer.from)] ELSE received[p][answer.from]
  IN IF answer.name = plan[p].name THEN {event} \ {NoEvent} ELSE {}

\* A confirmation reaches whoever listens on its port, and may do so again.
Deliver(m, p, again) ==
  /\ port[p] = m.port
  /\ confirmed' = [confirmed EXCEPT ![p] = @ \cup CheckInUser(p, m.answer)]
  /\ wire' = IF again THEN wire ELSE wire \ {m}
  /\ UNCHANGED <<plan, pc, port, asked, received, asks, answers>>

Lose(m) ==
  /\ wire' = wire \ {m}
  /\ UNCHANGED <<plan, pc, port, asked, received, confirmed, asks, answers>>

-----------------------------------------------------------------------------
Process(p) ==
  \/ Start(p)
  \/ Request(p)
  \/ Responded(p)
  \/ Raises(p)
  \/ Finish(p)

AllEnded == \A p \in Processes : pc[p] \in Ended

Next ==
  \/ \E p \in Processes : Process(p) \/ BotAsks(p)
  \/ \E u \in Users, question \in asks : Confirm(u, question)
  \/ \E m \in wire :
       \/ Lose(m)
       \/ \E p \in Processes, again \in BOOLEAN : Deliver(m, p, again)
  \/ AllEnded /\ UNCHANGED ciVars

Spec == Init /\ [][Next]_ciVars

(***************************************************************************)
(* The process keeps running, a request to the bot ends, and the timeout   *)
(* strikes in the end.  Nobody has to confirm, nor the network to deliver. *)
(***************************************************************************)
Fairness ==
  \A p \in Processes :
    /\ WF_ciVars(Start(p))
    /\ WF_ciVars(Request(p))
    /\ WF_ciVars(Responded(p))
    /\ WF_ciVars(BotAsks(p) \/ Raises(p))
    /\ WF_ciVars(Finish(p))

FairSpec == Spec /\ Fairness

-----------------------------------------------------------------------------
CheckInTypeOK ==
  /\ plan \in [Processes -> Plans]
  /\ pc \in [Processes -> Ended \cup {"new", "asking", "requesting", "answered", "waiting"}]
  /\ port \in [Processes -> Ports \cup {0}]
  /\ received \in [Processes -> [Addresses -> Nat]]
  /\ \A p \in Processes :
       /\ asked[p] \in 0..Len(plan[p].users)
       /\ confirmed[p] \subseteq Events(p)

\* Who has to confirm the i-th event of p.
Answered(p, i) ==
  \E answer \in answers :
    /\ answer.name = plan[p].name
    /\ IF plan[p].mode = "anyone" THEN answer.from.room
       ELSE answer.from = Address(p, i)

\* rcubic-checkin exits with success only if every user it names, or someone in the
\* room if anyone may, has confirmed the check-in of its name: whatever other
\* processes ask on the same port, and however late, often or misdirected
\* confirmations arrive.  Code: registerCheckIn, checkInUser, requestUserCheckIn.
SuccessIsEarned ==
  \A p \in Processes :
    pc[p] = "succeeded" => \A i \in Events(p) : Answered(p, i)

\* A request always ends, in any of three ways, even if nobody answers or what is
\* answered goes elsewhere.  Code: the timeout of joinall.
RequestEnds == \A p \in Processes : pc[p] = "asking" ~> pc[p] \in Ended
=============================================================================
