-------------------------- MODULE MCPasswordReset --------------------------
(***************************************************************************)
(* An instance of PasswordReset for TLC: a user whose phone number has one *)
(* or two open codes, and a phone number without an account.               *)
(***************************************************************************)
EXTENDS PasswordReset, TLC

CONSTANTS ann, p1, p2, home, cafe, old, new, other, weak,
          c1, c2, c3, c4, t1, t2, r1, r2, r3

MCPhoneOf == [u \in {ann} |-> p1]
MCFirstPassword == [u \in {ann} |-> old]

Sent(n) == [user |-> ann, phone |-> p1, ip |-> home, attempts |-> 0,
            consumed |-> FALSE, sent |-> TRUE, born |-> n]

MCFirstChallenges ==
  { (c1 :> Sent(1)) @@ [c \in {c2, c3, c4} |-> NoRow],
    (c1 :> Sent(1)) @@ (c2 :> Sent(2)) @@ [c \in {c3, c4} |-> NoRow] }

Ask(ph, ip, c) == [kind |-> "request", phone |-> ph, ip |-> ip, id |-> c]
Confirm(c, pw) == [kind |-> "confirm", phone |-> p1, code |-> c, new |-> pw]
Guess == Confirm(NoRow, new)
Change(pw) == [kind |-> "change", user |-> ann, current |-> old, new |-> pw]
LoginWith(pw, tok) == [kind |-> "login", user |-> ann, secret |-> pw, token |-> tok]
LogoutOf(tok) == [kind |-> "logout", token |-> tok]
Profile == [kind |-> "profile", user |-> ann]

Together(a, b, c) == (r1 :> a) @@ (r2 :> b) @@ (r3 :> c)

\* Codes asked for side by side, tried while they are replaced, guessed, used
\* twice; and passwords that change while users log in and save profiles.
MCTraffic ==
  { Together(Ask(p1, home, c3), Ask(p1, cafe, c4), Confirm(c1, new)),
    Together(Ask(p2, home, c3), Ask(p2, home, c4), Guess),
    Together(Guess, Guess, Guess),
    Together(Confirm(c1, new), Confirm(c1, other), Guess),
    Together(Confirm(c1, weak), Confirm(c2, new), Ask(p1, cafe, c3)),
    Together(LoginWith(old, t1), LoginWith(new, t2), Change(new)),
    Together(LoginWith(old, t1), LogoutOf(t1), Confirm(c1, new)),
    Together(Change(new), Change(other), Profile),
    Together(Change(weak), Profile, Confirm(c1, new)) }
=============================================================================
