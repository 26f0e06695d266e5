---------------------------- MODULE MCRallySheet ----------------------------
(***************************************************************************)
(* A small sheet for TLC: cars with no crew, one member, two members, and   *)
(* one whose name holds a separator; and rows with every kind of mistake.   *)
(***************************************************************************)
EXTENDS RallySheet, TLC

CONSTANTS c1, c2, ann, bob, mailA, mailB, tel, r1, r2, e1, e2

RouteNames == {<<e1, r1>>, <<e1, r2>>, <<e2, r1>>}

\* Alphabetical order of the words, and of texts by their first words.
Alphabet == <<c1, c2, ann, bob>>
Place(text) == CHOOSE i \in 1..5 : IF i = 5 THEN TRUE ELSE Alphabet[i] = text[1]
InOrder(a, b) ==
  Place(a) < Place(b) \/ (Place(a) = Place(b) /\ Len(a) < Len(b))

Member(name, email, role) ==
  [name |-> name, email |-> email, phone |-> <<tel, Colon, tel>>, role |-> role]
Car(code, route, crew) == [code |-> code, team |-> <<ann>>, route |-> route, crew |-> crew]

\* The second event is provisioned from the sheet, but for one car.
Forms ==
  e1 :> {Car(<<c1>>, <<e1, r2>>, <<>>),
         Car(<<c1>>, <<e1, r1>>,
             <<Member(<<bob>>, <<mailB>>, "navigator"), Member(<<ann>>, <<mailA>>, "node")>>),
         Car(<<c1>>, Null, <<Member(<<ann, Colon, bob>>, <<mailA>>, "node")>>),
         Car(<<c1>>, Null, <<Member(<<ann>>, <<mailA>>, "driver")>>),
         Car(<<c2>>, <<e2, r1>>, <<Member(<<ann>>, <<mailA>>, "node")>>)}
  @@ e2 :> {Car(<<c2>>, Null, <<>>)}

\* A blank entry, a shared address, a part too few, no code, a route nobody has.
Rows ==
  {Ragged,
   Car(<<c2>>, r1, <<Pipe, ann, Colon, mailA, Colon, tel>>),
   Car(<<c1>>, Null, <<ann, Colon, mailA, Colon, tel, Pipe, bob, Colon, mailA, Colon, tel>>),
   Car(<<c1>>, Null, <<ann, Colon, mailA>>),
   Car(<<>>, Null, <<>>),
   Car(<<c2>>, c1, <<>>)}

=============================================================================
