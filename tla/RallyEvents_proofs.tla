------------------------- MODULE RallyEvents_proofs -------------------------
(***************************************************************************)
(* Theorems of RallyEvents, for any people, any rosters and any number of  *)
(* runs and screens.                                                       *)
(***************************************************************************)
EXTENDS RallyEvents, TLAPS

-----------------------------------------------------------------------------
(* Who a request comes from *)

\* Behind the marker there is at most the one entry after it.
LEMMA MarkedToken ==
  ASSUME NEW t
  PROVE  SubprotocolToken(<<Marker, t>>) \subseteq {t}
  <1> DEFINE offered == <<Marker, t>>
             marks == {i \in 1..Len(offered) : offered[i] = Marker}
             first == IF marks # {} THEN Min(marks) ELSE 0
  <1>1. 1 \in marks /\ marks \subseteq 1..2
    OBVIOUS
  <1>2. Min(marks) \in marks
    <2> HIDE DEF marks
    <2>1. \E x \in marks : \A y \in marks : x <= y
      BY <1>1
    <2>2. Min(marks) = CHOOSE x \in marks : \A y \in marks : x <= y
      BY DEF Min
    <2> QED BY <2>1, <2>2
  <1>3. first \in 1..2
    BY <1>1, <1>2
  <1>4. SubprotocolToken(offered) =
          IF first > 0 /\ first < Len(offered) THEN {offered[first + 1]} \ {None} ELSE {}
    BY DEF SubprotocolToken, SelectInSeq
  <1> HIDE DEF first
  <1> QED BY <1>3, <1>4

\* A bearer token is one its sender holds.
LEMMA OwnToken ==
  ASSUME NEW p \in People, NEW req \in Requests(p), NEW upgrade \in BOOLEAN
  PROVE  BearerToken(req, upgrade) \subseteq {Login[p]} \cup wallet[p]
  <1>1. CASE \E t \in Tokens(p) : req = [header |-> t, offered |-> <<>>]
    <2>1. PICK t \in Tokens(p) : req = [header |-> t, offered |-> <<>>]
      BY <1>1
    <2>2. req.header = t /\ req.offered = <<>>
      BY <2>1
    <2>3. SubprotocolToken(<<>>) = {}
      <3>1. {i \in 1..0 : <<>>[i] = Marker} = {}
        OBVIOUS
      <3>2. Len(<<>>) = 0
        OBVIOUS
      <3> QED BY <3>1, <3>2 DEF SubprotocolToken, SelectInSeq
    <2> QED BY <2>2, <2>3 DEF BearerToken, Tokens
  <1>2. CASE req \in [header : {None} \cup Tokens(p), offered : {<<Marker, t>> : t \in Tokens(p)}]
    <2>1. PICK t \in Tokens(p) : req.offered = <<Marker, t>>
      BY <1>2
    <2>2. req.header \in {None} \cup Tokens(p)
      BY <1>2
    <2>3. SubprotocolToken(req.offered) \subseteq {t}
      BY <2>1, MarkedToken
    <2> QED BY <2>2, <2>3 DEF BearerToken, Tokens
  <1> QED BY <1>1, <1>2 DEF Requests

\* What the super app's token makes of its owner: nobody's phone.
LEMMA LoginIsNoPhone ==
  ASSUME NEW p \in People, NEW id \in Identify(Login[p])
  PROVE  id.kind = "organizer" /\ id.email = Login[p].email
  <1>1. Login[p].issuer # "team"
    BY EventConstants
  <1>2. Identify(Login[p]) = OrganizerFromClaims(Login[p])
    BY <1>1 DEF Identify, VerifyTeamToken, ValidateOrganizer
  <1> QED BY <1>2 DEF OrganizerFromClaims, Nobody

\* What a team token makes of its phone: the run and the device it was minted for.
LEMMA TeamTokenIsPhone ==
  ASSUME NEW s, NEW e, NEW id \in Identify(MintTeamToken(s, e))
  PROVE  id.kind = "team" /\ id.session = s /\ id.device = [session |-> s, member |-> e]
  <1> DEFINE t == MintTeamToken(s, e)
  <1>1. t.issuer = "team" /\ t.sub = s /\ t.device = [session |-> s, member |-> e]
    BY DEF MintTeamToken, Token
  <1> HIDE DEF t
  <1>2. Identify(t) = VerifyTeamToken(t)
    BY <1>1 DEF Identify, ValidateOrganizer
  <1>3. id \in VerifyTeamToken(t)
    BY <1>2 DEF t
  <1> QED BY <1>1, <1>3 DEF VerifyTeamToken, Nobody

\* Whoever a request is taken for is its sender's login, or a phone of a run whose
\* car has the sender on its list.
LEMMA SenderKnown ==
  ASSUME EventInv, NEW p \in People, NEW req \in Requests(p), NEW upgrade \in BOOLEAN,
         NEW id \in Authenticate(req, upgrade)
  PROVE  \/ id \in Identify(Login[p]) /\ id.kind = "organizer" /\ id.email = Login[p].email
         \/ /\ id.kind = "team" /\ Aboard(p, id.session)
            /\ id.device = [session |-> id.session, member |-> Login[p].email]
  <1>1. PICK t \in {Login[p]} \cup wallet[p] : id \in Identify(t)
    BY OwnToken DEF Authenticate
  <1>2. CASE t = Login[p]
    BY <1>1, <1>2, LoginIsNoPhone
  <1>3. CASE t \in wallet[p]
    <2>1. Aboard(p, t.sub) /\ t = MintTeamToken(t.sub, Login[p].email)
      BY <1>3 DEF EventInv, Joined
    <2>2. PICK s : s = t.sub
      OBVIOUS
    <2>3. id \in Identify(MintTeamToken(s, Login[p].email)) /\ Aboard(p, s)
      BY <1>1, <2>1, <2>2
    <2>4. /\ id.kind = "team" /\ id.session = s
          /\ id.device = [session |-> s, member |-> Login[p].email]
      BY <2>3, TeamTokenIsPhone
    <2> QED BY <2>3, <2>4
  <1> QED BY <1>1, <1>2, <1>3

-----------------------------------------------------------------------------
(* What has been opened, and who is aboard *)

\* Before anything is created.
LEMMA EventInit == Init => EventInv
  <1> SUFFICES ASSUME Init
               PROVE  EventInv
    OBVIOUS
  <1>1. TypeOK
    <2>1. NoCall \in Calls /\ NoView \in [by : People \cup {None}, topic : Topics \cup {None}]
      BY DEF NoCall, NoView, Calls
    <2>2. wallet \in [People -> SUBSET {MintTeamToken(s, e) : s \in Sessions, e \in Emails}]
      BY DEF Init
    <2>3. \A s \in Sessions : ~IsLive(s)
      BY DEF Init, IsLive
    <2>4. /\ event \in Rows \cup {None} /\ run \in [Sessions -> Runs \cup {None}]
          /\ call \in [People -> Calls] /\ revealed \in BOOLEAN /\ launched \in BOOLEAN
          /\ view \in [Screens -> [by : People \cup {None}, topic : Topics \cup {None}]]
      BY <2>1 DEF Init
    <2> QED BY <2>2, <2>3, <2>4 DEF TypeOK
  <1>2. CarsKeptApart
    BY EventConstants DEF Init, CarsKeptApart, NoView
  <1>3. OpenedByPublish /\ Joined /\ Asked
    BY DEF Init, OpenedByPublish, Joined, Joins, Asked, Asks, NoCall
  <1> QED BY <1>1, <1>2, <1>3 DEF EventInv

\* A call goes on, or ends in a write of the event that its publish came before.
LEMMA CallMoves ==
  ASSUME EventInv, NEW p \in People, NEW c \in Calls, call' = [call EXCEPT ![p] = c],
         Joins(p, c), Asks(c),
         event' \in Rows \cup {None}, event' # None /\ event'.status = "active" => launched',
         launched' \in BOOLEAN, launched => launched',
         UNCHANGED <<run, wallet, view, revealed>>
  PROVE  EventInv'
  <1>a. /\ TypeOK /\ OpenedByPublish /\ CarsKeptApart /\ Joined /\ Asked
        /\ call \in [People -> Calls]
    BY DEF EventInv, TypeOK
  <1>b. call'[p] = c /\ \A q \in People \ {p} : call'[q] = call[q]
    BY <1>a
  <1>1. TypeOK'
    <2>1. call' \in [People -> Calls]
      BY <1>a
    <2> QED BY <1>a, <2>1 DEF TypeOK, IsLive
  <1>2. OpenedByPublish'
    BY <1>a DEF OpenedByPublish
  <1>3. CarsKeptApart'
    BY <1>a DEF CarsKeptApart
  <1>4. Joined'
    <2>1. \A q \in People : Joins(q, call'[q])
      BY <1>a, <1>b DEF Joined
    <2>2. \A q \in People : Joins(q, call[q])'
      BY <2>1 DEF Joins, Aboard
    <2> QED BY <1>a, <2>2 DEF Joined, Aboard
  <1>5. Asked'
    <2>1. \A q \in People : Asks(call'[q])
      BY <1>a, <1>b DEF Asked
    <2> QED BY <2>1 DEF Asked, Asks
  <1> QED BY <1>1, <1>2, <1>3, <1>4, <1>5 DEF EventInv

\* Runs begin and end: whoever was aboard stays.
LEMMA RunsMove ==
  ASSUME EventInv, run' \in [Sessions -> Runs \cup {None}],
         \A s \in Sessions : run[s] # None => run'[s] # None /\ run'[s].car = run[s].car,
         \A s, o \in Sessions :
           /\ run'[s] # None /\ ~run'[s].over /\ run'[o] # None /\ ~run'[o].over
           /\ run'[s].car = run'[o].car
           => s = o,
         \A s \in Sessions : run'[s] # None /\ run'[s].over =>
           \/ run'[s] = run[s]
           \/ run'[s].by.session = s /\ run'[s].by.member \in Roster[run'[s].car],
         launched, call' \in [People -> Calls],
         \A p \in People :
           \/ call'[p] = call[p]
           \/ /\ call'[p].pc = "mint" /\ call'[p].session \in Sessions
              /\ run'[call'[p].session] # None
              /\ Login[p].email \in Roster[run'[call'[p].session].car]
              /\ call'[p].email = Login[p].email /\ call'[p].email \in Roster[call'[p].car],
         UNCHANGED <<event, wallet, view, revealed, launched>>
  PROVE  EventInv'
  <1>a. TypeOK /\ OpenedByPublish /\ CarsKeptApart /\ Joined /\ Asked
    BY DEF EventInv
  <1>b. \A p \in People, s \in Sessions : Aboard(p, s) => Aboard(p, s)'
    BY DEF Aboard
  <1>1. TypeOK'
    BY <1>a DEF TypeOK, IsLive
  <1>2. OpenedByPublish'
    BY <1>a DEF OpenedByPublish
  <1>3. CarsKeptApart'
    <2>1. ASSUME NEW w \in Screens, NEW s \in Sessions, run[s] # None,
                 Login[view[w].by].email \in Roster[run[s].car]
          PROVE  run'[s] # None /\ Login[view'[w].by].email \in Roster[run'[s].car]
      BY <2>1
    <2>2. ASSUME NEW s \in Sessions, run'[s] # None, run'[s].over
          PROVE  run'[s].by.session = s /\ run'[s].by.member \in Roster[run'[s].car]
      BY <1>a, <2>2 DEF CarsKeptApart
    <2>3. view' = view
      OBVIOUS
    <2> QED BY <1>a, <2>1, <2>2, <2>3 DEF CarsKeptApart
  <1>4. Joined'
    <2>1. \A p \in People : Joins(p, call[p])'
      BY <1>a, <1>b DEF Joined, Joins, Aboard
    <2>2. \A p \in People : \A t \in wallet'[p] :
            Aboard(p, t.sub)' /\ t = MintTeamToken(t.sub, Login[p].email)
      BY <1>a, <1>b DEF Joined, Aboard
    <2> QED BY <2>1, <2>2 DEF Joined
  <1>5. Asked'
    <2>1. \A p \in People : Asks(call'[p])
      BY <1>a DEF Asked, Asks
    <2> QED BY <2>1 DEF Asked, Asks
  <1> QED BY <1>1, <1>2, <1>3, <1>4, <1>5 DEF EventInv

\* Tokens come and go, views too: nobody gets one that is not theirs.
LEMMA HoldingsMove ==
  ASSUME EventInv,
         wallet' \in [People -> SUBSET {MintTeamToken(s, e) : s \in Sessions, e \in Emails}],
         \A p \in People : \A t \in wallet'[p] :
           Aboard(p, t.sub) /\ t = MintTeamToken(t.sub, Login[p].email),
         view' \in [Screens -> [by : People \cup {None}, topic : Topics \cup {None}]],
         \A w \in Screens :
           \/ view'[w] = view[w]
           \/ view'[w].by \notin {p \in People : ~\E id \in Identify(Login[p]) : IsStaff(id)}
           \/ \E s \in Sessions : Aboard(view'[w].by, s) /\ view'[w].topic = SessionTopic(s),
         revealed' \in BOOLEAN, revealed' => revealed \/ launched,
         UNCHANGED <<event, run, call, launched>>
  PROVE  EventInv'
  <1>a. TypeOK /\ OpenedByPublish /\ CarsKeptApart /\ Joined /\ Asked
    BY DEF EventInv
  <1>1. TypeOK'
    BY <1>a DEF TypeOK, IsLive
  <1>2. OpenedByPublish'
    BY <1>a DEF OpenedByPublish
  <1>3. CarsKeptApart'
    BY <1>a DEF CarsKeptApart, Aboard
  <1>4. Joined' /\ Asked'
    BY <1>a DEF Joined, Joins, Aboard, Asked, Asks
  <1> QED BY <1>1, <1>2, <1>3, <1>4 DEF EventInv

\* Every statement of every handler preserves the invariant.
LEMMA EventNext == EventInv /\ [Next]_vars => EventInv'
  <1> SUFFICES ASSUME EventInv, [Next]_vars
               PROVE  EventInv'
    OBVIOUS
  <1>a. /\ event \in Rows \cup {None} /\ run \in [Sessions -> Runs \cup {None}]
        /\ wallet \in [People -> SUBSET {MintTeamToken(s, e) : s \in Sessions, e \in Emails}]
        /\ call \in [People -> Calls]
        /\ view \in [Screens -> [by : People \cup {None}, topic : Topics \cup {None}]]
        /\ launched \in BOOLEAN /\ revealed \in BOOLEAN
        /\ OpenedByPublish /\ CarsKeptApart /\ Joined /\ Asked
    BY DEF EventInv, TypeOK
  <1>b. NoCall \in Calls /\ \A p \in People : Joins(p, NoCall) /\ Asks(NoCall)
    BY DEF NoCall, Calls, Joins, Asks
  <1>c. \A p \in People : Joins(p, call[p]) /\ Asks(call[p])
    BY <1>a DEF Joined, Asked
  <1>1. ASSUME NEW p \in People, NEW pins \in [start : BOOLEAN, end : BOOLEAN], Create(p, pins)
        PROVE  EventInv'
    <2>1. event' \in Rows /\ event'.status = "setup"
      BY <1>1 DEF Create, Rows
    <2>2. call' = [call EXCEPT ![p] = call[p]] /\ call[p] \in Calls
      BY <1>1, <1>a DEF Create
    <2>3. UNCHANGED <<run, wallet, view, revealed, launched>>
      BY <1>1 DEF Create
    <2>4. /\ event' \in Rows \cup {None} /\ (event' # None /\ event'.status = "active" => launched')
          /\ launched' \in BOOLEAN /\ (launched => launched')
          /\ UNCHANGED <<run, wallet, view, revealed>>
      BY <1>a, <2>1, <2>3
    <2> QED BY <1>c, <2>2, <2>4, CallMoves
  <1>2. ASSUME NEW p \in People, NEW patch \in Patches, UpdateStart(p, patch)
        PROVE  EventInv'
    <2> DEFINE c == [NoCall EXCEPT !.pc = "update", !.held = event,
                                   !.becomes = Edited(event, patch)]
    <2>1. event \in Rows
      BY <1>2, <1>a DEF UpdateStart
    <2>2. Edited(event, patch) \in Rows /\ Edited(event, patch).status = event.status
      BY <2>1 DEF Edited, Rows
    <2>3. event.status = "active" => launched
      BY <1>2, <1>a DEF UpdateStart, OpenedByPublish
    <2>4. c \in Calls /\ c.pc = "update" /\ c.held = event /\ c.becomes = Edited(event, patch)
      BY <2>1, <2>2 DEF NoCall, Calls
    <2>5. /\ call' = [call EXCEPT ![p] = c]
          /\ UNCHANGED <<event, run, wallet, view, revealed, launched>>
      BY <1>2 DEF UpdateStart
    <2> HIDE DEF c
    <2>6. Joins(p, c) /\ Asks(c)
      BY <2>1, <2>2, <2>3, <2>4 DEF Joins, Asks
    <2>7. /\ event' \in Rows \cup {None} /\ (event' # None /\ event'.status = "active" => launched')
          /\ launched' \in BOOLEAN /\ (launched => launched')
          /\ UNCHANGED <<run, wallet, view, revealed>>
      BY <1>a, <2>3, <2>5
    <2> QED BY <2>4, <2>5, <2>6, <2>7, CallMoves
  <1>3. ASSUME NEW p \in People, UpdateWrite(p)
        PROVE  EventInv'
    <2>1. event' \in Rows /\ (event'.status = "active" => launched)
      BY <1>3, <1>c DEF UpdateWrite, Asks
    <2>2. call' = [call EXCEPT ![p] = NoCall] /\ UNCHANGED <<run, wallet, view, revealed, launched>>
      BY <1>3 DEF UpdateWrite
    <2>3. /\ event' \in Rows \cup {None} /\ (event' # None /\ event'.status = "active" => launched')
          /\ launched' \in BOOLEAN /\ (launched => launched')
          /\ UNCHANGED <<run, wallet, view, revealed>>
      BY <1>a, <2>1, <2>2
    <2> QED BY <1>b, <2>2, <2>3, CallMoves
  <1>4. ASSUME NEW p \in People, PublishStart(p)
        PROVE  EventInv'
    <2> DEFINE becomes == [event EXCEPT !.status = "active"]
               c == [NoCall EXCEPT !.pc = "publish", !.held = event, !.becomes = becomes]
    <2>1. event \in Rows /\ event.start /\ event.end
      BY <1>4, <1>a DEF PublishStart, Publishable
    <2>2. becomes \in Rows /\ becomes.status = "active" /\ becomes.start /\ becomes.end
      BY <2>1 DEF Rows
    <2> HIDE DEF becomes
    <2>3. becomes # None
      BY <2>2, EventConstants
    <2>4. c \in Calls /\ c.pc = "publish" /\ c.becomes = becomes
      BY <2>1, <2>2 DEF NoCall, Calls
    <2>5. /\ call' = [call EXCEPT ![p] = c]
          /\ UNCHANGED <<event, run, wallet, view, revealed, launched>>
      BY <1>4 DEF PublishStart, becomes
    <2> HIDE DEF c
    <2>6. Joins(p, c) /\ Asks(c)
      BY <2>2, <2>3, <2>4 DEF Joins, Asks, Runnable
    <2>7. /\ event' \in Rows \cup {None} /\ (event' # None /\ event'.status = "active" => launched')
          /\ launched' \in BOOLEAN /\ (launched => launched')
          /\ UNCHANGED <<run, wallet, view, revealed>>
      BY <1>a, <2>5 DEF OpenedByPublish
    <2> QED BY <2>4, <2>5, <2>6, <2>7, CallMoves
  <1>5. ASSUME NEW p \in People, PublishWrite(p)
        PROVE  EventInv'
    <2>1. event' \in Rows /\ Runnable(event')
      BY <1>5, <1>c DEF PublishWrite, Asks
    <2>2. call' = [call EXCEPT ![p] = NoCall] /\ UNCHANGED <<run, wallet, view, revealed>>
      BY <1>5 DEF PublishWrite
    <2>3. launched'
      BY <1>5, <2>1 DEF PublishWrite, Runnable
    <2> QED BY <1>b, <2>1, <2>2, <2>3, CallMoves
  <1>6. ASSUME NEW p \in People, NEW car \in Cars, JoinStart(p, car)
        PROVE  EventInv'
    <2>0. PICK req \in Requests(p) : \E id \in Joiners(req) :
            /\ id.email \in Roster[car]
            /\ call' = [call EXCEPT ![p] = [NoCall EXCEPT !.pc = "find", !.car = car,
                                                          !.email = id.email]]
      BY <1>6 DEF JoinStart
    <2>1. PICK id \in Joiners(req) :
            /\ id.email \in Roster[car]
            /\ call' = [call EXCEPT ![p] = [NoCall EXCEPT !.pc = "find", !.car = car,
                                                          !.email = id.email]]
      BY <2>0
    <2>2. id \in Authenticate(req, FALSE) /\ id.kind = "organizer"
      BY DEF Joiners
    <2>3. id.email = Login[p].email
      BY <2>2, SenderKnown
    <2> DEFINE c == [NoCall EXCEPT !.pc = "find", !.car = car, !.email = id.email]
    <2>4. c \in Calls /\ c.pc = "find" /\ c.car = car /\ c.email = Login[p].email
      BY <2>3 DEF NoCall, Calls, Emails
    <2>5. launched
      BY <1>6, <1>a DEF JoinStart, OpenedByPublish
    <2>6. UNCHANGED <<event, run, wallet, view, revealed, launched>>
      BY <1>6 DEF JoinStart
    <2>7. call' = [call EXCEPT ![p] = c]
      BY <2>1
    <2> HIDE DEF c
    <2>8. Joins(p, c) /\ Asks(c)
      BY <2>1, <2>3, <2>4, <2>5 DEF Joins, Asks
    <2>9. /\ event' \in Rows \cup {None} /\ (event' # None /\ event'.status = "active" => launched')
          /\ launched' \in BOOLEAN /\ (launched => launched')
          /\ UNCHANGED <<run, wallet, view, revealed>>
      BY <1>a, <2>5, <2>6
    <2> QED BY <2>4, <2>7, <2>8, <2>9, CallMoves
  <1>7. ASSUME NEW p \in People, JoinFind(p)
        PROVE  EventInv'
    <2> DEFINE car == call[p].car
               new == [car |-> car, over |-> FALSE, by |-> None]
    <2>1. PICK s \in Sessions :
            /\ IF LiveSessions(car) # {}
               THEN s \in LiveSessions(car) /\ run' = run
               ELSE run[s] = None /\ run' = [run EXCEPT ![s] = new]
            /\ call' = [call EXCEPT ![p].pc = "mint", ![p].session = s]
            /\ UNCHANGED <<event, wallet, view, revealed, launched>>
      BY <1>7 DEF JoinFind
    <2>2. /\ car \in Cars /\ call[p].email = Login[p].email /\ Login[p].email \in Roster[car]
          /\ launched
      BY <1>7, <1>c DEF JoinFind, Joins, Asks
    <2>3. new \in Runs /\ new # None /\ new.car = car /\ ~new.over
      <3>1. new \in Runs
        BY <2>2 DEF Runs
      <3> QED BY <3>1, EventConstants
    <2> DEFINE c == [call[p] EXCEPT !.pc = "mint", !.session = s]
    <2>4. /\ c \in Calls /\ c.pc = "mint" /\ c.session = s
          /\ c.email = call[p].email /\ c.car = car
      <3>1. call[p] \in Calls
        BY <1>a
      <3> QED BY <3>1 DEF Calls
    <2>5. call' = [call EXCEPT ![p] = c]
      BY <1>a, <2>1
    <2> HIDE DEF new, c
    <2>6. /\ run' \in [Sessions -> Runs \cup {None}]
          /\ \A o \in Sessions : run'[o] = run[o] \/ (o = s /\ run[s] = None /\ run'[s] = new)
          /\ run'[s] # None /\ run'[s].car = car
      BY <1>a, <2>1, <2>3 DEF LiveSessions, IsLive
    <2>7. \A o, q \in Sessions :
           /\ run'[o] # None /\ ~run'[o].over /\ run'[q] # None /\ ~run'[q].over
           /\ run'[o].car = run'[q].car
           => o = q
      <3>1. CASE run' = run
        BY <3>1 DEF EventInv, TypeOK, IsLive
      <3>2. CASE LiveSessions(car) = {}
        <4>1. /\ \A o \in Sessions : IsLive(o) => run[o].car # car
              /\ \A o, q \in Sessions : IsLive(o) /\ IsLive(q) /\ run[o].car = run[q].car => o = q
          BY <3>2 DEF LiveSessions, EventInv, TypeOK
        <4> QED BY <2>3, <2>6, <4>1 DEF IsLive
      <3> QED BY <2>1, <3>1, <3>2
    <2>8. call' \in [People -> Calls] /\ call'[p] = c /\ \A q \in People \ {p} : call'[q] = call[q]
      BY <1>a, <2>4, <2>5
    <2>9. /\ call'[p].pc = "mint" /\ call'[p].session \in Sessions
          /\ run'[call'[p].session] # None
          /\ Login[p].email \in Roster[run'[call'[p].session].car]
          /\ call'[p].email = Login[p].email /\ call'[p].email \in Roster[call'[p].car]
      BY <2>2, <2>4, <2>6, <2>8
    <2>10. \A o \in Sessions : run[o] # None => run'[o] # None /\ run'[o].car = run[o].car
      BY <2>6
    <2>11. \A o \in Sessions : run'[o] # None /\ run'[o].over => run'[o] = run[o]
      BY <2>3, <2>6
    <2>12. \A q \in People : q = p \/ call'[q] = call[q]
      BY <2>8
    <2> QED BY <2>1, <2>2, <2>6, <2>7, <2>8, <2>9, <2>10, <2>11, <2>12, RunsMove
  <1>8. ASSUME NEW p \in People, JoinMint(p)
        PROVE  EventInv'
    <2> DEFINE s == call[p].session
               t == MintTeamToken(s, call[p].email)
    <2>1. Aboard(p, s) /\ call[p].email = Login[p].email
      BY <1>8, <1>c DEF JoinMint, Joins
    <2>2. t.sub = s /\ t = MintTeamToken(s, Login[p].email)
      BY <2>1 DEF MintTeamToken, Token
    <2>3. t \in {MintTeamToken(o, e) : o \in Sessions, e \in Emails}
      BY <2>1, <2>2 DEF Aboard, Emails
    <2>4. /\ wallet' = [wallet EXCEPT ![p] = @ \cup {t}]
          /\ call' = [call EXCEPT ![p] = NoCall]
          /\ UNCHANGED <<event, run, view, revealed, launched>>
      BY <1>8 DEF JoinMint
    <2> HIDE DEF t, s
    <2>5. wallet' \in [People -> SUBSET {MintTeamToken(o, e) : o \in Sessions, e \in Emails}]
      BY <1>a, <2>3, <2>4
    <2>6. \A q \in People : \A u \in wallet'[q] :
            Aboard(q, u.sub) /\ u = MintTeamToken(u.sub, Login[q].email)
      BY <1>a, <2>1, <2>2, <2>4 DEF Joined
    <2>7. call' \in [People -> Calls] /\ \A q \in People : call'[q] = call[q] \/ call'[q] = NoCall
      BY <1>a, <1>b, <2>4
    <2>8. TypeOK' /\ OpenedByPublish' /\ CarsKeptApart'
      BY <2>4, <2>5, <2>7 DEF EventInv, TypeOK, IsLive, OpenedByPublish, CarsKeptApart
    <2>9. \A q \in People : Joins(q, call'[q]) /\ Asks(call'[q])
      BY <1>b, <1>c, <2>7
    <2>10. \A q \in People : Joins(q, call[q])' /\ Asks(call[q])'
      BY <2>4, <2>9 DEF Joins, Aboard, Asks
    <2>11. \A q \in People : \A u \in wallet'[q] :
             Aboard(q, u.sub)' /\ u = MintTeamToken(u.sub, Login[q].email)
      BY <2>4, <2>6 DEF Aboard
    <2>12. Joined' /\ Asked'
      BY <2>10, <2>11 DEF Joined, Asked
    <2> QED BY <2>8, <2>12 DEF EventInv
  <1>9. ASSUME NEW p \in People, NEW t \in wallet[p], Expire(p, t)
        PROVE  EventInv'
    <2>1. /\ wallet' = [wallet EXCEPT ![p] = @ \ {t}]
          /\ UNCHANGED <<event, run, call, view, revealed, launched>>
      BY <1>9 DEF Expire
    <2>2. /\ wallet' \in [People -> SUBSET {MintTeamToken(o, e) : o \in Sessions, e \in Emails}]
          /\ \A q \in People : wallet'[q] \subseteq wallet[q]
      BY <1>a, <2>1
    <2> QED BY <1>a, <2>1, <2>2, HoldingsMove DEF Joined
  <1>10. ASSUME NEW p \in People, State(p)
         PROVE  EventInv'
    <2>1. /\ revealed' = (revealed \/ event.status = "active")
          /\ UNCHANGED <<event, run, wallet, call, view, launched>>
      BY <1>10 DEF State
    <2>0. PICK req \in Requests(p) : \E id \in Callers(req) : run[id.session] # None
      BY <1>10 DEF State
    <2>2. PICK id \in Callers(req) : run[id.session] # None
      BY <2>0
    <2>3. id.session \in Sessions
      BY <2>2, SenderKnown DEF Callers, Aboard
    <2>4. launched
      BY <1>a, <2>2, <2>3 DEF OpenedByPublish
    <2> QED BY <1>a, <2>1, <2>4, HoldingsMove DEF Joined
  <1>11. ASSUME NEW p \in People, Finish(p)
         PROVE  EventInv'
    <2>0. PICK req \in Requests(p) : \E id \in Callers(req) :
            /\ IsLive(id.session)
            /\ run' = [run EXCEPT ![id.session].over = TRUE, ![id.session].by = id.device]
      BY <1>11 DEF Finish
    <2>1. PICK id \in Callers(req) :
            /\ IsLive(id.session)
            /\ run' = [run EXCEPT ![id.session].over = TRUE, ![id.session].by = id.device]
      BY <2>0
    <2> DEFINE s == id.session
    <2>2. Aboard(p, s) /\ id.device = [session |-> s, member |-> Login[p].email]
      BY SenderKnown DEF Callers
    <2>3. UNCHANGED <<event, wallet, call, view, revealed, launched>>
      BY <1>11 DEF Finish
    <2> DEFINE new == [run[s] EXCEPT !.over = TRUE, !.by = id.device]
    <2>4. s \in Sessions /\ run[s] \in Runs
      BY <1>a, <2>2 DEF Aboard
    <2>5. id.device \in [session : Sessions, member : Emails]
      BY <2>2, <2>4 DEF Emails
    <2>6. new \in Runs /\ new.car = run[s].car /\ new.over /\ new.by = id.device
      BY <2>4, <2>5 DEF Runs
    <2>7. run' = [run EXCEPT ![s] = new]
      BY <1>a, <2>1, <2>4
    <2>8. new # None
      BY <2>6, EventConstants
    <2> HIDE DEF new, s
    <2>9. /\ run' \in [Sessions -> Runs \cup {None}]
          /\ run'[s] = new /\ \A o \in Sessions \ {s} : run'[o] = run[o]
      BY <1>a, <2>4, <2>6, <2>7
    <2>10. \A o, q \in Sessions :
           /\ run'[o] # None /\ ~run'[o].over /\ run'[q] # None /\ ~run'[q].over
           /\ run'[o].car = run'[q].car
           => o = q
      BY <2>6, <2>9 DEF EventInv, TypeOK, IsLive
    <2>11. new.by.session = s /\ new.by.member \in Roster[new.car]
      BY <2>2, <2>6 DEF Aboard
    <2>12. launched
      BY <1>a, <2>2 DEF OpenedByPublish, Aboard
    <2>13. \A o \in Sessions : run[o] # None => run'[o] # None /\ run'[o].car = run[o].car
      BY <2>6, <2>8, <2>9
    <2>14. \A o \in Sessions : run'[o] # None /\ run'[o].over =>
             \/ run'[o] = run[o]
             \/ run'[o].by.session = o /\ run'[o].by.member \in Roster[run'[o].car]
      BY <2>9, <2>11
    <2>15. call' \in [People -> Calls] /\ \A q \in People : call'[q] = call[q]
      BY <1>a, <2>3
    <2> QED BY <2>3, <2>9, <2>10, <2>12, <2>13, <2>14, <2>15, RunsMove
  <1>12. ASSUME NEW p \in People, NEW w \in Screens, NEW topic \in Topics, Listen(w, p, topic)
         PROVE  EventInv'
    <2>1. PICK req \in Requests(p) : Listeners(req, topic) # {}
      BY <1>12 DEF Listen
    <2>2. PICK id \in Authenticate(req, TRUE) : MaySubscribe(id, topic)
      BY <2>1 DEF Listeners
    <2>3. /\ view' = [view EXCEPT ![w] = [by |-> p, topic |-> topic]]
          /\ UNCHANGED <<event, run, wallet, call, revealed, launched>>
      BY <1>12 DEF Listen
    <2>4. \/ p \notin {q \in People : ~\E i \in Identify(Login[q]) : IsStaff(i)}
          \/ \E s \in Sessions : Aboard(p, s) /\ topic = SessionTopic(s)
      <3>1. CASE id \in Identify(Login[p]) /\ id.kind = "organizer"
        BY <2>2, <3>1 DEF MaySubscribe
      <3>2. CASE id.kind = "team" /\ Aboard(p, id.session)
        BY <2>2, <3>2 DEF MaySubscribe, IsStaff, Aboard, SessionTopic
      <3> QED BY <3>1, <3>2, SenderKnown
    <2>5. /\ view'[w] = [by |-> p, topic |-> topic]
          /\ \A o \in Screens \ {w} : view'[o] = view[o]
          /\ view' \in [Screens -> [by : People \cup {None}, topic : Topics \cup {None}]]
      BY <1>a, <2>3
    <2>6. \A o \in Screens :
           \/ view'[o] = view[o]
           \/ view'[o].by \notin {q \in People : ~\E i \in Identify(Login[q]) : IsStaff(i)}
           \/ \E s \in Sessions : Aboard(view'[o].by, s) /\ view'[o].topic = SessionTopic(s)
      BY <2>4, <2>5
    <2> QED BY <1>a, <2>3, <2>5, <2>6, HoldingsMove DEF Joined
  <1>13. ASSUME NEW w \in Screens, HangUp(w)
         PROVE  EventInv'
    <2>1. /\ NoView \in [by : People \cup {None}, topic : Topics \cup {None}]
          /\ NoView.by \notin People
      BY EventConstants DEF NoView
    <2>2. /\ view' = [view EXCEPT ![w] = NoView]
          /\ UNCHANGED <<event, run, wallet, call, revealed, launched>>
      BY <1>13 DEF HangUp
    <2>3. /\ view' \in [Screens -> [by : People \cup {None}, topic : Topics \cup {None}]]
          /\ \A o \in Screens : view'[o] = view[o] \/ view'[o].by \notin People
      BY <1>a, <2>1, <2>2
    <2> QED BY <1>a, <2>2, <2>3, HoldingsMove DEF Joined
  <1>14. CASE UNCHANGED vars
    <2>1. TypeOK' /\ OpenedByPublish' /\ CarsKeptApart'
      BY <1>14 DEF vars, EventInv, TypeOK, IsLive, OpenedByPublish, CarsKeptApart
    <2>2. Joined' /\ Asked'
      BY <1>14 DEF vars, EventInv, Joined, Joins, Aboard, Asked, Asks
    <2> QED BY <2>1, <2>2 DEF EventInv
  <1> QED
    BY <1>1, <1>2, <1>3, <1>4, <1>5, <1>6, <1>7, <1>8, <1>9, <1>10, <1>11, <1>12, <1>13, <1>14
    DEF Next

\* The rows and the locals have their types, and no car has two runs under way.
THEOREM EventTypes == Spec => []TypeOK
  <1>1. EventInv => TypeOK
    BY DEF EventInv
  <1> QED BY <1>1, EventInit, EventNext, PTL DEF Spec

\* Whatever edits race it, nothing is open that a publish with both pins did not open.
THEOREM PublishComesFirst == Spec => []OpenedByPublish
  <1>1. EventInv => OpenedByPublish
    BY DEF EventInv
  <1> QED BY <1>1, EventInit, EventNext, PTL DEF Spec

\* Whatever a request carries, in the header or behind the marker: CarsKeptApart.
THEOREM CrewsWatchThemselves == Spec => []CarsKeptApart
  <1>1. EventInv => CarsKeptApart
    BY DEF EventInv
  <1> QED BY <1>1, EventInit, EventNext, PTL DEF Spec

\* An event stops being one that crews can run in one way: the statement of PublishHolds.
LEMMA StopsByEdit ==
  ASSUME EventInv, Next, Runnable(event), ~Runnable(event')
  PROVE  \E p \in People :
           /\ call[p].pc = "update" /\ call'[p].pc = "idle"
           /\ \/ call[p].held # event
              \/ ~(call[p].becomes.start /\ call[p].becomes.end)
  <1>a. call \in [People -> Calls] /\ Asked
    BY DEF EventInv, TypeOK
  <1>1. event' # event /\ event # None
    BY DEF Runnable
  <1>2. PICK p \in People : UpdateWrite(p) \/ PublishWrite(p)
    BY <1>1
    DEF Next, Create, UpdateStart, PublishStart, JoinStart, JoinFind, JoinMint, Expire, State,
        Finish, Listen, HangUp
  <1>3. ~PublishWrite(p)
    BY <1>a DEF PublishWrite, Asked, Asks
  <1>4. /\ call[p].pc = "update" /\ event' = call[p].becomes /\ call' = [call EXCEPT ![p] = NoCall]
    BY <1>2, <1>3 DEF UpdateWrite
  <1>5. call'[p].pc = "idle"
    BY <1>a, <1>4 DEF NoCall
  <1>6. call[p].becomes \in Rows /\ call[p].becomes.status = call[p].held.status
    BY <1>a, <1>4 DEF Asked, Asks
  <1>7. call[p].becomes # None
    BY <1>6, EventConstants
  <1>8. ASSUME call[p].held = event, call[p].becomes.start /\ call[p].becomes.end
        PROVE  FALSE
    BY <1>4, <1>6, <1>7, <1>8 DEF Runnable
  <1> QED BY <1>4, <1>5, <1>8

\* An event crews can run stays so, but for an edit that lifts a pin or read it stale.
THEOREM PublishStands == Spec => PublishHolds
  <1> DEFINE Stops ==
        Runnable(event) /\ ~Runnable(event') =>
          \E p \in People :
            /\ call[p].pc = "update" /\ call'[p].pc = "idle"
            /\ \/ call[p].held # event
               \/ ~(call[p].becomes.start /\ call[p].becomes.end)
  <1>1. EventInv /\ [Next]_vars => [Stops]_vars
    BY StopsByEdit
  <1>2. Spec => [][Stops]_vars
    BY <1>1, EventInit, EventNext, PTL DEF Spec
  <1> QED BY <1>2 DEF PublishHolds

=============================================================================
