---------------------------------- MODULE Users ----------------------------------
(***************************************************************************)
(* What belongs to a user: reservations, visits (user events), wishlist,   *)
(* addresses and submitted reviews.  Most additions first look whether     *)
(* there is one already and then write, in two queries with others between *)
(* them.  Reservations are stamped with dateTime(), which is five hours    *)
(* ahead of the clock that today() reads.                                  *)
(***************************************************************************)
EXTENDS Integers, FiniteSets

CONSTANTS
  Users, Listings,
  Reviews,    \* reviews that customers were asked for
  Addresses, Contents,
  Requests,   \* bound: requests at a time
  Hours,      \* hours of a day
  Ahead,      \* by how much dateTime() is ahead
  Days,       \* bound: days
  MaxRows,    \* bound: rows written
  None

\* what a run assumes of the constants
UsersAssumption ==
  /\ Hours \in Nat \ {0} /\ Ahead \in 0 .. Hours - 1 /\ Days \in Nat /\ MaxRows \in Nat
  /\ IsFiniteSet(Requests)
  /\ Listings \cap Reviews = {} /\ None \notin Users \cup Contents

VARIABLES
  now,      \* hours since the first midnight
  rows,     \* reservations, visits, wishes and submissions of reviews
  address,  \* address[a]: its user and contents, or NoAddress
  request   \* request[r]: what a request is about to write

vars == <<now, rows, address, request>>

-----------------------------------------------------------------------------

Day(t) == t \div Hours
DateTime == now + Ahead
Times == 0 .. Hours * Days + Ahead

Kinds == {"reservation", "visit", "wish", "review"}
Things == Listings \cup Reviews
\* n tells equal rows apart; made, the time of writing, and blind, whether the look-up before it
\* had failed, are auxiliary
Row == [kind: Kinds, user: Users, thing: Things, stamp: Times, made: Times, blind: BOOLEAN,
        n: 1 .. MaxRows]
Request == [pc: {"create"}, kind: Kinds, user: Users, thing: Things, blind: BOOLEAN]
NoRequest == [pc |-> "idle"]
NoAddress == [user |-> None, contents |-> None]
Address == [user: Users, contents: Contents]

TypeOK ==
  /\ now \in 0 .. Hours * Days
  /\ rows \subseteq Row
  /\ address \in [Addresses -> Address \cup {NoAddress}]
  /\ request \in [Requests -> Request \cup {NoRequest}]

Init ==
  /\ now = 0
  /\ rows = {}
  /\ address \in [Addresses -> Address \cup {NoAddress}]
  /\ request = [r \in Requests |-> NoRequest]

Idle(r) == request[r].pc = "idle"
Proceed(r, kind, u, thing, blind) ==
  /\ request' = [request EXCEPT ![r] = [pc |-> "create", kind |-> kind, user |-> u,
                                        thing |-> thing, blind |-> blind]]
  /\ UNCHANGED <<now, rows, address>>

Of(kind, u, thing) == {x \in rows : x.kind = kind /\ x.user = u /\ x.thing = thing}

\* today(): from midnight to midnight
OfToday(kind, u, thing) == {x \in Of(kind, u, thing) : Day(x.stamp) = Day(now)}

Tick ==
  /\ now < Hours * Days
  /\ now' = now + 1
  /\ UNCHANGED <<rows, address, request>>

-----------------------------------------------------------------------------
(* Additions *)

\* mutant: the check is left out
LookNot(r, kind, u, l, failed) == Idle(r) /\ Proceed(r, kind, u, l, failed)

\* reservations and visits look for one of today.  A failed look-up is taken for none: exists()
\* has no data then, and the answer of fetchOne() is no success, as when there is none.
Look(r, kind, u, l, failed) ==
  /\ Idle(r)
  /\ failed \/ OfToday(kind, u, l) = {}
  /\ Proceed(r, kind, u, l, failed)

Reserve(r, u, l, failed) == Look(r, "reservation", u, l, failed)
Visit(r, u, l, failed) == Look(r, "visit", u, l, failed)

\* the wishlist does not look
AddWish(r, u, l) == Idle(r) /\ Proceed(r, "wish", u, l, FALSE)

\* a review is submitted into the row that asked for it, while it is pending
BeginReview(r, u, rev) ==
  /\ Idle(r)
  /\ Of("review", u, rev) = {}
  /\ Proceed(r, "review", u, rev, FALSE)

\* the row is written, or the query fails
CreateRow(r, ok) ==
  LET it == request[r]
      new(n) == [kind |-> it.kind, user |-> it.user, thing |-> it.thing,
                 stamp |-> IF it.kind = "visit" THEN now ELSE DateTime,
                 made |-> now, blind |-> it.blind, n |-> n]
  IN /\ it.pc = "create" /\ Cardinality(rows) < MaxRows
     /\ rows' = IF ok THEN rows \cup {new(CHOOSE n \in 1 .. MaxRows : new(n) \notin rows)}
                ELSE rows
     /\ request' = [request EXCEPT ![r] = NoRequest]
     /\ UNCHANGED <<now, address>>

\* one row, of as many as there are
RemoveWish(u, l) ==
  /\ \E x \in Of("wish", u, l) : rows' = rows \ {x}
  /\ UNCHANGED <<now, address, request>>

-----------------------------------------------------------------------------
(* Addresses *)

AddAddress(u, a, c) ==
  /\ address[a] = NoAddress
  /\ address' = [address EXCEPT ![a] = [user |-> u, contents |-> c]]
  /\ UNCHANGED <<now, rows, request>>

\* updateEntity is given the values as the condition and the condition as the values: an
\* address that has the contents already, of whatever user, is given the number and the user.
\* The database refuses a number that another address has.
UpdateAddress(u, a, c) ==
  \E found \in Addresses :
    /\ address[found].contents = c
    /\ found = a \/ address[a] = NoAddress
    /\ address' = [b \in Addresses |-> IF b = a THEN [user |-> u, contents |-> c]
                                       ELSE IF b = found THEN NoAddress ELSE address[b]]
    /\ UNCHANGED <<now, rows, request>>

Next ==
  \/ Tick
  \/ \E r \in Requests, u \in Users :
       \/ \E l \in Listings : \/ AddWish(r, u, l)
                              \/ \E failed \in BOOLEAN : \/ Reserve(r, u, l, failed)
                                                        \/ Visit(r, u, l, failed)
       \/ \E rev \in Reviews : BeginReview(r, u, rev)
  \/ \E r \in Requests, ok \in BOOLEAN : CreateRow(r, ok)
  \/ \E u \in Users, l \in Listings : RemoveWish(u, l)
  \/ \E u \in Users, a \in Addresses, c \in Contents : AddAddress(u, a, c) \/ UpdateAddress(u, a, c)

Spec == Init /\ [][Next]_vars

-----------------------------------------------------------------------------
(* Properties *)

\* what was added on day d for that day, after a look-up that answered
DoneOn(kind, u, thing, d) ==
  {x \in Of(kind, u, thing) : ~x.blind /\ Day(x.made) = d /\ Day(x.stamp) = d}

\* the requests that looked, found nothing and have not written yet
Pending(kind, u, thing) ==
  {r \in Requests : /\ request[r].pc = "create" /\ request[r].kind = kind
                    /\ request[r].user = u /\ request[r].thing = thing /\ ~request[r].blind}

\* A user has one reservation and one visit of a listing a day, and submits a review once, up to
\* the requests that overlap: no request by itself does it again.  Reservations of the last hours
\* of a day, which are stamped with the next, are the exception, and what followed a failed
\* look-up.
OnceUpToOverlaps ==
  /\ \A kind \in {"reservation", "visit"}, u \in Users, l \in Listings, d \in 0 .. Days :
       Cardinality(DoneOn(kind, u, l, d)) <= Cardinality(Requests)
  /\ \A u \in Users, rev \in Reviews :
       Cardinality(Of("review", u, rev)) <= Cardinality(Requests)

\* What was done of one thing and the requests that may still do it are together no more than the
\* requests there are: today, and on the days before those that were done.
Counted(kind, u, thing) ==
  LET waiting == Cardinality(Pending(kind, u, thing))
  IN /\ kind \in {"reservation", "visit"} =>
          /\ Cardinality(DoneOn(kind, u, thing, Day(now))) + waiting <= Cardinality(Requests)
          /\ \A d \in 0 .. Days : Cardinality(DoneOn(kind, u, thing, d)) <= Cardinality(Requests)
     /\ kind = "review" => Cardinality(Of(kind, u, thing)) + waiting <= Cardinality(Requests)

\* the inductive invariant
UsersInv ==
  /\ TypeOK /\ IsFiniteSet(rows)
  /\ \A x \in rows : x.made <= now
  /\ \A r \in Requests : request[r] # NoRequest /\ request[r].kind = "review" => ~request[r].blind
  /\ \A kind \in Kinds, u \in Users, thing \in Things : Counted(kind, u, thing)

=============================================================================
