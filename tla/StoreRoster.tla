---------------------------- MODULE StoreRoster ----------------------------
(***************************************************************************)
(* What the memberships and invitations of the stores promise, each        *)
(* request taking effect at once: who works where, in which role, and      *)
(* which offers to join stand.                                             *)
(***************************************************************************)
CONSTANTS User, Store, Role

VARIABLES
  staff,   \* the memberships: records of user, store and role
  offers,  \* the standing invitations: records of token, store, phone, role
  taken    \* who has taken up which: records of token and user

StaffOf(S, st) == {m \in S : m.store = st}
Managed(S, st) == \E m \in StaffOf(S, st) : m.role = "manager"
Employed(u) == \E m \in staff : m.user = u

Init == \A st \in Store : StaffOf(staff, st) # {} => Managed(staff, st)

\* A user without a store joins one; a new store starts with its manager.
Join(u, st, role) ==
  /\ ~ Employed(u)
  /\ StaffOf(staff, st) = {} => role = "manager"
  /\ staff' = staff \cup {[user |-> u, store |-> st, role |-> role]}

Hire == (\E u \in User, st \in Store, role \in Role : Join(u, st, role))
        /\ UNCHANGED <<offers, taken>>

\* A new offer replaces the one that stands for the same phone number.
MakeOffer ==
  /\ \E o \in offers' :
       offers' = {p \in offers : <<p.store, p.phone>> # <<o.store, o.phone>>}
                 \cup {o}
  /\ UNCHANGED <<staff, taken>>

Withdraw ==
  (\E o \in offers : offers' = offers \ {o}) /\ UNCHANGED <<staff, taken>>

\* An offer is taken up once, by one user, in the role it names.
TakeUp ==
  \E o \in offers, u \in User :
    /\ Join(u, o.store, o.role)
    /\ offers' = offers \ {o}
    /\ taken' = taken \cup {[token |-> o.token, user |-> u]}

\* Nobody leaves or changes role if that takes a store its last manager.
Reassign ==
  \E m \in staff, role \in Role :
    /\ staff' = (staff \ {m}) \cup {[m EXCEPT !.role = role]}
    /\ Managed(staff', m.store)
    /\ UNCHANGED <<offers, taken>>

Dismiss ==
  \E m \in staff :
    /\ staff' = staff \ {m}
    /\ Managed(staff', m.store)
    /\ UNCHANGED <<offers, taken>>

Next == Hire \/ MakeOffer \/ Withdraw \/ TakeUp \/ Reassign \/ Dismiss

Spec == Init /\ [][Next]_<<staff, offers, taken>>
=============================================================================
