---------------------------- MODULE MCGroupLedger ----------------------------
(* Instances of GroupLedger for TLC: a group A that receives and a group B   *)
(* that sends.                                                               *)
EXTENDS GroupLedger

CONSTANTS A, B, u1, u2

ConnSymmetry == Permutations(Conns)

\* One gradido is lost for each step of time.
MCDecay(elapsed, amount) == IF amount > elapsed THEN amount - elapsed ELSE 0

\* What the topics bring, users that are not known among it.
Local(type, u, amount) == Tx(type, u, None, amount, None, None)
Friend(type, g) == Tx(type, None, None, 0, g, None)
Move(type, u, g) == {Tx(type, u, None, 0, g, i) : i \in Ids}
Transfer(type, u, g) == {Tx(type, u, None, a, g, i) : a \in Amounts, i \in Ids}
Received ==
    {Local("ADD_USER", u2, 0), Friend("ADD_GROUP_FRIEND", B),
     Friend("REMOVE_GROUP_FRIEND", B)}
      \cup UNION {Transfer("INBOUND_TRANSFER", u, B) : u \in Users}
      \cup Move("MOVE_USER_INBOUND", u2, B)
Sent ==
    {Local("GRADIDO_CREATION", u1, a) : a \in Amounts}
      \cup {Tx("LOCAL_TRANSFER", u1, u1, a, None, None) : a \in Amounts}
      \cup UNION {Transfer("OUTBOUND_TRANSFER", u, A) : u \in Users}
      \cup Move("MOVE_USER_OUTBOUND", u1, A)
MCTopics == (A :> Received) @@ (B :> Sent)
\* Both receive: they may ask for the same pair.
BothTopics == (A :> Received) @@ (B :> Sent \cup Transfer("INBOUND_TRANSFER", u1, A))

\* Both groups have a user; the one of B has gradidos.
Member(u) == [Tx("ADD_USER", u, None, 0, None, None) EXCEPT !.result = SUCCESS]
Funds(u, a) == [Tx("GRADIDO_CREATION", u, None, a, None, None) EXCEPT
                  !.result = SUCCESS, !.new_balance = a]
\* Two more transactions each: the third of B is the first of its block.
MCMaxLen == (A :> 3) @@ (B :> 4)
\* One more each.
ShortLen == (A :> 2) @@ (B :> 3)
MCPrefix == (A :> <<Member(u1)>>) @@ (B :> <<Member(u1), Funds(u1, 6)>>)
=============================================================================
