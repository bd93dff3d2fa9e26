---------------------------- MODULE MCMembership ----------------------------
(***************************************************************************)
(* An instance of Membership for TLC: a store with two managers and a      *)
(* seller, a store with one manager, and invitations that two phone        *)
(* numbers have received.                                                  *)
(***************************************************************************)
EXTENDS Membership, TLC

CONSTANTS s1, s2, s3, s4, ann, bob, cem, dee, eve, fay, gus,
          p1, p2, p3, p4, p5, p6, k1, k2, k3, k4, k5, k6, k7, t1, t2, t3, t4,
          r1, r2, r3

Works(u, st, role) == [user |-> u, store |-> st, role |-> role]

MCMember ==
  [k \in {k1, k2, k3, k4, k5, k6, k7} |->
     CASE k = k1 -> Works(ann, s1, "manager")
       [] k = k2 -> Works(bob, s1, "manager")
       [] k = k3 -> Works(cem, s1, "seller")
       [] k = k4 -> Works(gus, s2, "manager")
       [] OTHER -> NoRow]

Offered(st, ph, role) ==
  [store |-> st, phone |-> ph, role |-> role, status |-> "pending",
   by |-> NoUser]

MCOffer == (t1 :> Offered(s1, p4, "admin")) @@ (t2 :> Offered(s1, p5, "seller"))
        @@ (t3 :> Offered(s2, p5, "admin")) @@ (t4 :> NoRow)

MCPhone == (ann :> p1) @@ (bob :> p2) @@ (cem :> p3) @@ (dee :> p4)
        @@ (gus :> p6) @@ (eve :> NoPhone) @@ (fay :> NoPhone)

DemoteBob == [kind |-> "role", actor |-> ann, key |-> k2, role |-> "seller"]
DemoteAnn == [kind |-> "role", actor |-> bob, key |-> k1, role |-> "admin"]
RemoveAnn == [kind |-> "remove", actor |-> bob, key |-> k1]
RemoveCem == [kind |-> "remove", actor |-> ann, key |-> k3]
Sale == [kind |-> "sell", key |-> k3]
Grant ==
  [kind |-> "grant", actor |-> bob, key |-> k3, code |-> "manage_catalog"]
Ungrant ==
  [kind |-> "ungrant", actor |-> bob, key |-> k3, code |-> "create_sale"]
HireDee ==
  [kind |-> "add", actor |-> bob, user |-> dee, role |-> "manager", key |-> k5]
FoundDee == [kind |-> "found", user |-> dee, store |-> s3, key |-> k6]
FoundAgain == [kind |-> "found", user |-> dee, store |-> s4, key |-> k7]
JoinDee == [kind |-> "accept", user |-> dee, token |-> t1, key |-> k7]
JoinLater == [kind |-> "accept", user |-> dee, token |-> t4, key |-> k6]
Reinvite ==
  [kind |-> "invite", actor |-> ann, phone |-> p4, role |-> "seller", token |-> t4]
ReinviteToo ==
  [kind |-> "invite", actor |-> bob, phone |-> p5, role |-> "admin", token |-> t4]
Revoke == [kind |-> "revoke", actor |-> bob, token |-> t1]
Renumber == [kind |-> "profile", user |-> dee, phone |-> p5]
SignUp == [kind |-> "register", user |-> eve, token |-> t2, key |-> k5]
SignUpToo == [kind |-> "register", user |-> fay, token |-> t3, key |-> k6]

Together(a, b, c) == (r1 :> a) @@ (r2 :> b) @@ (r3 :> c)

\* Managers who act on each other; a member removed while others refer to the
\* membership; a user who joins stores in several ways; an invitation that is
\* accepted, revoked and replaced; and accounts that want one phone number.
MCTraffic ==
  { Together(DemoteBob, DemoteAnn, HireDee),
    Together(DemoteBob, RemoveAnn, RemoveCem),
    Together(RemoveCem, Sale, Grant),
    Together(RemoveCem, Grant, Ungrant),
    Together(HireDee, FoundDee, JoinDee),
    Together(FoundDee, FoundAgain, Renumber),
    Together(Reinvite, JoinDee, JoinLater),
    Together(Reinvite, Revoke, JoinDee),
    Together(SignUp, SignUpToo, Renumber),
    Together(SignUp, ReinviteToo, DemoteBob) }
=============================================================================
