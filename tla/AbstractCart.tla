---------------------------- MODULE AbstractCart ----------------------------
(***************************************************************************)
(* What the cart promises a user who waits for each answer before the next *)
(* request: a quantity per listing, changed by each request in one step.   *)
(***************************************************************************)
EXTENDS Integers, FiniteSetsExt

CONSTANTS Users, Listings, Orders, NoOrder

VARIABLES
  contents,  \* contents[u][l]: how many of l are in u's cart
  order      \* order[u]: the request u waits for, or NoOrder

Empty == [l \in Listings |-> 0]

\* what the cart may hold after the request: a line is applied in full or rejected, a
\* removal is always carried out
Outcomes(o, c) ==
  CASE o.op \in {"add", "bulk"} ->
         {[l \in Listings |-> c[l] + MapThenSumSet(LAMBDA i : o.lines[i].quantity,
                                       {i \in accepted : o.lines[i].listing = l})] :
            accepted \in SUBSET (DOMAIN o.lines)}
    [] o.op = "update" ->
         {c, [c EXCEPT ![o.lines[1].listing] = o.lines[1].quantity]}
    [] o.op \in {"remove", "clear"} ->
         {[l \in Listings |-> IF l \in o.scope THEN 0 ELSE c[l]]}

Init ==
  /\ contents = [u \in Users |-> Empty]
  /\ order = [u \in Users |-> NoOrder]

Submit(u, o) ==
  /\ order[u] = NoOrder
  /\ order' = [order EXCEPT ![u] = o]
  /\ UNCHANGED contents

Complete(u) ==
  /\ order[u] # NoOrder
  /\ \E c \in Outcomes(order[u], contents[u]) : contents' = [contents EXCEPT ![u] = c]
  /\ order' = [order EXCEPT ![u] = NoOrder]

Next == \E u \in Users : Complete(u) \/ \E o \in Orders : Submit(u, o)

Spec == Init /\ [][Next]_<<contents, order>>

=============================================================================
