--------------------------- MODULE PasswordReset ---------------------------
(***************************************************************************)
(* Passwords, refresh tokens and the codes that reset a password: the      *)
(* services of users/services.py and the views of users/api.  A code is    *)
(* the challenge it was sent for; a guess is a code of no challenge.       *)
(*                                                                         *)
(* Instead of a clock, a challenge grows older: past the lifetime of its   *)
(* code, then past the hour in which it counts for the rate limits.        *)
(***************************************************************************)
EXTENDS RowLocks

CONSTANTS
  Challenge,   \* primary keys of challenges
  User, Phone, Ip, Token,
  Password,
  Weak,        \* the passwords that validate_password refuses
  NoRow, NoUser,
  PhoneLimit, IpLimit,   \* challenges in an hour (5 and 20)
  MaxAttempts,           \* PASSWORD_RESET_MAX_ATTEMPTS (5)
  PhoneOf,     \* User -> phone_number
  FirstPassword,
  FirstChallenges   \* the tables of challenges the requests may find

Row == [user: User \cup {NoUser}, phone: Phone, ip: Ip, attempts: 0..MaxAttempts,
        consumed: BOOLEAN, sent: BOOLEAN, born: Nat]

Operation ==
       [kind: {"request"}, phone: Phone, ip: Ip, id: Challenge]
  \cup [kind: {"confirm"}, phone: Phone, code: Challenge \cup {NoRow}, new: Password]
  \cup [kind: {"change"}, user: User, current: Password, new: Password]
  \cup [kind: {"login"}, user: User, secret: Password, token: Token]
  \cup [kind: {"logout"}, token: Token]
  \cup [kind: {"profile"}, user: User]

ASSUME PasswordAssumption ==
  /\ Traffic \subseteq [Request -> Operation]
  /\ PhoneLimit \in Nat /\ IpLimit \in Nat /\ MaxAttempts \in Nat
  /\ IsFiniteSet(Challenge) /\ IsFiniteSet(User)
  /\ Weak \subseteq Password /\ NoUser \notin User /\ Phone \cap Ip = {}
  /\ PhoneOf \in [User -> Phone] /\ FirstPassword \in [User -> Password]
  /\ FirstChallenges \subseteq [Challenge -> Row \cup {NoRow}]
  /\ NoRow \notin Row

\* Keys are given once: no two requests insert a challenge, or a token, under
\* the same one, and none of them is in the table of challenges at the start.
ASSUME FreshKeys ==
  \A T \in Traffic : \A q \in Request :
    /\ T[q].kind = "request" =>
         /\ \A r \in Request \ {q} : T[r].kind = "request" => T[r].id # T[q].id
         /\ \A first \in FirstChallenges : first[T[q].id] = NoRow
    /\ T[q].kind = "login" =>
         \A r \in Request \ {q} : T[r].kind = "login" => T[r].token # T[q].token

VARIABLES
  challenge,  \* Challenge -> the committed row, or NoRow
  age,        \* Challenge -> 0, then 1 past the lifetime of its code, 2 past the hour
  created,    \* the number of challenges created: the clock of created_at
  password,   \* User -> the password
  issued,     \* Token -> the user and the password its login verified, or NoRow
  blacklist,  \* the tokens that are blacklisted
  memo,       \* Request -> what its handler has read or made
  (* only read by the properties *)
  guesses,    \* Challenge -> how many wrong codes were compared with its own
  uses,       \* Challenge -> the requests that have set a password with it
  crowded,    \* phones and addresses whose requests have run side by side
  excused     \* the tokens of logins, and users, that a change or save overlapped

tables == <<challenge, created, password, issued, blacklist>>
history == <<guesses, uses, crowded, excused>>
vars == <<transaction, tables, age, memo, history>>

Exists(c) == challenge[c] # NoRow
Open(c) == Exists(c) /\ ~ challenge[c].consumed
OpenFor(ph) == {c \in Challenge : Open(c) /\ challenge[c].phone = ph}
Recent == {c \in Challenge : Exists(c) /\ age[c] < 2}
RecentOf(x) == {c \in Recent : x \in {challenge[c].phone, challenge[c].ip}}
Newest(S) == {c \in S : \A d \in S : challenge[d].born <= challenge[c].born}
Owner(ph) == {u \in User : PhoneOf[u] = ph}

ChallengeRow(c) == <<"challenge", c>>
UserRow(u) == <<"user", u>>

Nothing ==
  [seen |-> {}, pick |-> NoRow, late |-> {}, tokens |-> {}, count |-> 0,
   secret |-> NoRow]

Init ==
  /\ AtRest
  /\ challenge \in FirstChallenges
  /\ created = Cardinality({c \in Challenge : Exists(c)})
  /\ age = [c \in Challenge |-> 0]
  /\ password = FirstPassword
  /\ issued = [tok \in Token |-> NoRow]
  /\ blacklist = {}
  /\ memo = [r \in Request |-> Nothing]
  /\ guesses = [c \in Challenge |-> 0]
  /\ uses = [c \in Challenge |-> {}]
  /\ crowded = {ph \in Phone : \/ Cardinality(OpenFor(ph)) > 1
                               \/ Cardinality(RecentOf(ph)) > PhoneLimit}
               \cup {ip \in Ip : Cardinality(RecentOf(ip)) > IpLimit}
  /\ excused = {}

Remember(r, values) == memo' = [memo EXCEPT ![r] = values]

-----------------------------------------------------------------------------
(* request_password_reset *)

Side(x) == {q \in Request : /\ Running(q) /\ task[q].kind = "request"
                            /\ x \in {task[q].phone, task[q].ip}}

WithinLimits(ph, ip) ==
  Cardinality(RecentOf(ph)) < PhoneLimit /\ Cardinality(RecentOf(ip)) < IpLimit

\* Committed challenges are counted; nothing is locked.
Count(r) ==
  LET t == task[r] IN
  /\ At(r, "idle") /\ t.kind = "request"
  /\ GotoIf(WithinLimits(t.phone, t.ip), r, "counted", << >>)
  /\ crowded' = crowded \cup {x \in {t.phone, t.ip} : Side(x) # {}}
  /\ UNCHANGED <<tables, age, memo, guesses, uses, excused>>

\* Faulty form: only the challenges of the requester's address are closed.
CloseOwn(r) ==
  /\ At(r, "counted")
  /\ \E rows \in Orders({ChallengeRow(c) : c \in
                  {d \in OpenFor(task[r].phone) : challenge[d].ip = task[r].ip}}) :
       Goto(r, "inserting", rows)
  /\ UNCHANGED <<tables, age, memo, history>>

\* The UPDATE that consumes the open challenges of the phone number.
Close(r) ==
  /\ At(r, "counted")
  /\ \E rows \in Orders({ChallengeRow(c) : c \in OpenFor(task[r].phone)}) :
       Goto(r, "inserting", rows)
  /\ UNCHANGED <<tables, age, memo, history>>

\* The new row is made, and the code is sent while the locks are held.  The
\* foreign key to the user is checked when the transaction commits.
SendCode(r) ==
  /\ At(r, "inserting")
  /\ created' = created + 1
  /\ Remember(r, [memo[r] EXCEPT !.count = created'])
  /\ \E sent \in BOOLEAN :
       /\ Owner(task[r].phone) = {} => sent
       /\ \E rows \in Orders({UserRow(u) : u \in Owner(task[r].phone)}) :
            Goto(r, IF sent THEN "sent" ELSE "unsent", rows)
  /\ UNCHANGED <<challenge, password, issued, blacklist, age, history>>

\* The challenges that r has locked and that are open are consumed.
Consumed(r) ==
  [c \in Challenge |->
     IF ChallengeRow(c) \in held[r] /\ Open(c)
     THEN [challenge[c] EXCEPT !.consumed = TRUE] ELSE challenge[c]]

CommitRequest(r) ==
  LET t == task[r] IN
  /\ At(r, "sent") \/ At(r, "unsent")
  /\ \E u \in IF Owner(t.phone) = {} THEN {NoUser} ELSE Owner(t.phone) :
       challenge' =
         [Consumed(r) EXCEPT ![t.id] =
            [user |-> u, phone |-> t.phone, ip |-> t.ip, attempts |-> 0,
             consumed |-> FALSE, sent |-> pc[r] = "sent",
             born |-> memo[r].count]]
  /\ Finish(r, "done")
  /\ UNCHANGED <<created, password, issued, blacklist, age, memo, history>>

\* The lifetime of a code and, much later, the hour of its challenge pass, for
\* a challenge that was created earlier first.
GrowOlder(c) ==
  /\ Exists(c) /\ age[c] < 2
  /\ \A d \in Challenge \ {c} :
       Exists(d) /\ challenge[d].born < challenge[c].born => age[d] > age[c]
  /\ age' = [age EXCEPT ![c] = @ + 1]
  /\ UNCHANGED <<transaction, tables, memo, history>>

-----------------------------------------------------------------------------
(* confirm_password_reset *)

\* The newest of the challenges "seen" that are left is locked next.
Choose(r, seen, late) ==
  \/ seen = {} /\ Finish(r, "failed") /\ UNCHANGED memo
  \/ \E c \in Newest(seen) :
       /\ Goto(r, "choosing", <<ChallengeRow(c)>>)
       /\ Remember(r, [memo[r] EXCEPT !.seen = seen, !.pick = c, !.late = late])

\* "now" is read before anything is locked.
Search(r) ==
  /\ At(r, "idle") /\ task[r].kind = "confirm"
  /\ Choose(r, OpenFor(task[r].phone), {c \in Challenge : age[c] > 0})
  /\ UNCHANGED <<tables, age, history>>

Chosen(r) == memo[r].pick

\* Faulty form: a challenge that was consumed before its lock was taken is
\* used all the same.
LookAnyway(r) ==
  /\ At(r, "choosing")
  /\ Goto(r, "judging", << >>)
  /\ UNCHANGED <<tables, age, memo, history>>

\* Faulty form: a challenge that was consumed meanwhile is looked at again.
LookAgain(r) ==
  /\ At(r, "choosing")
  /\ IF Open(Chosen(r)) THEN Goto(r, "judging", << >>) ELSE UNCHANGED transaction
  /\ UNCHANGED <<tables, age, memo, history>>

\* A challenge that was consumed before its lock was taken is passed over.
Look(r) ==
  /\ At(r, "choosing")
  /\ IF Open(Chosen(r)) THEN Goto(r, "judging", << >>) /\ UNCHANGED memo
     ELSE Choose(r, memo[r].seen \ {Chosen(r)}, memo[r].late)
  /\ UNCHANGED <<tables, age, history>>

Usable(r, c) ==
  /\ challenge[c].user # NoUser /\ c \notin memo[r].late
  /\ challenge[c].attempts < MaxAttempts

\* A wrong code counts; a weak password rolls back and leaves the code open.
Judge(r) ==
  LET c == Chosen(r) IN
  /\ At(r, "judging")
  /\ \/ /\ Usable(r, c) /\ task[r].code # c
        /\ Goto(r, "counting", << >>)
        /\ Remember(r, [memo[r] EXCEPT !.count = challenge[c].attempts + 1])
     \/ /\ ~ (Usable(r, c) /\ task[r].code # c)
        /\ GotoIf(Usable(r, c) /\ task[r].new \notin Weak, r, "setting",
                  <<UserRow(challenge[c].user)>>)
        /\ UNCHANGED memo
  /\ UNCHANGED <<tables, age, history>>

\* Faulty form: the error is raised inside the transaction.
CountGuessRolledBack(r) ==
  /\ At(r, "counting")
  /\ guesses' = [guesses EXCEPT ![Chosen(r)] = @ + 1]
  /\ Finish(r, "failed")
  /\ UNCHANGED <<tables, age, memo, uses, crowded, excused>>

\* The count is committed, and the error raised after that.
CountGuess(r) ==
  /\ At(r, "counting")
  /\ challenge' = [challenge EXCEPT ![Chosen(r)].attempts = memo[r].count]
  /\ guesses' = [guesses EXCEPT ![Chosen(r)] = @ + 1]
  /\ Finish(r, "failed")
  /\ UNCHANGED <<created, password, issued, blacklist, age, memo,
                 uses, crowded, excused>>

\* With the user locked, the UPDATE consumes the other open challenges.
CloseOthers(r) ==
  /\ At(r, "setting")
  /\ \E rows \in Orders({ChallengeRow(c) :
                         c \in OpenFor(task[r].phone) \ {Chosen(r)}}) :
       Goto(r, "listing", rows)
  /\ UNCHANGED <<tables, age, memo, history>>

UserOf(r) == IF task[r].kind = "confirm" THEN challenge[Chosen(r)].user
             ELSE task[r].user

\* Faulty form: the tokens of the other users are listed.
TokensOfOthers(u) == {tok \in Token : issued[tok] # NoRow /\ issued[tok].user # u}

TokensOf(u) == {tok \in Token : issued[tok] # NoRow /\ issued[tok].user = u}

-----------------------------------------------------------------------------
(* change_password *)

\* Faulty form: the current password is checked before the user is locked.
BeginChangeUnlocked(r) ==
  /\ At(r, "idle") /\ task[r].kind = "change"
  /\ GotoIf(password[task[r].user] = task[r].current, r, "listing",
            <<UserRow(task[r].user)>>)
  /\ UNCHANGED <<tables, age, memo, history>>

BeginChange(r) ==
  /\ At(r, "idle") /\ task[r].kind = "change"
  /\ Goto(r, "changing", <<UserRow(task[r].user)>>)
  /\ UNCHANGED <<tables, age, memo, history>>

CheckCurrent(r) ==
  /\ At(r, "changing")
  /\ GotoIf(/\ password[task[r].user] = task[r].current
            /\ task[r].new \notin Weak, r, "listing", << >>)
  /\ UNCHANGED <<tables, age, memo, history>>

-----------------------------------------------------------------------------
(* The end of both *)

\* _blacklist_user_tokens reads the tokens of the user.
ListTokens(r) ==
  /\ At(r, "listing")
  /\ Remember(r, [memo[r] EXCEPT !.tokens = TokensOf(UserOf(r))])
  /\ Goto(r, "replacing", << >>)
  /\ UNCHANGED <<tables, age, history>>

\* The logins of u that have verified the password and not yet ended.
InFlight(u) ==
  {task[q].token : q \in {p \in Request : task[p].kind = "login"
                                          /\ pc[p] = "issuing"
                                          /\ task[p].user = u}}

\* The code that was used and the others are consumed by the commit that
\* replaces the password.
CommitPassword(r) ==
  /\ At(r, "replacing")
  /\ password' = [password EXCEPT ![UserOf(r)] = task[r].new]
  /\ blacklist' = blacklist \cup memo[r].tokens
  /\ excused' = excused \cup InFlight(UserOf(r))
  /\ IF task[r].kind = "confirm"
     THEN /\ challenge' = Consumed(r)
          /\ uses' = [uses EXCEPT ![Chosen(r)] = @ \cup {r}]
     ELSE UNCHANGED <<challenge, uses>>
  /\ Finish(r, "done")
  /\ UNCHANGED <<created, issued, age, memo, guesses, crowded>>

-----------------------------------------------------------------------------
(* LoginView, LogoutView and MeView *)

\* The password is verified and then a token made; its row refers to the user.
Login(r) ==
  LET t == task[r] IN
  /\ At(r, "idle") /\ t.kind = "login"
  /\ GotoIf(password[t.user] = t.secret, r, "issuing", <<UserRow(t.user)>>)
  /\ UNCHANGED <<tables, age, memo, history>>

IssueToken(r) ==
  LET t == task[r] IN
  /\ At(r, "issuing")
  /\ issued' = [issued EXCEPT ![t.token] = [user |-> t.user, secret |-> t.secret]]
  /\ Finish(r, "done")
  /\ UNCHANGED <<challenge, created, password, blacklist, age, memo, history>>

\* A token that is invalid or already blacklisted is not an error.
Logout(r) ==
  LET tok == task[r].token IN
  /\ At(r, "idle") /\ task[r].kind = "logout"
  /\ blacklist' = blacklist \cup {x \in {tok} : issued[x] # NoRow}
  /\ Finish(r, "done")
  /\ UNCHANGED <<challenge, created, password, issued, age, memo, history>>

\* PATCH saves every field of the user that the request was authenticated
\* with, the password as it was then among them.
LoadProfile(r) ==
  /\ At(r, "idle") /\ task[r].kind = "profile"
  /\ Remember(r, [memo[r] EXCEPT !.secret = password[task[r].user]])
  /\ Goto(r, "saving", <<UserRow(task[r].user)>>)
  /\ UNCHANGED <<tables, age, history>>

SaveProfile(r) ==
  LET u == task[r].user IN
  /\ At(r, "saving")
  /\ password' = [password EXCEPT ![u] = memo[r].secret]
  /\ excused' = excused \cup {v \in {u} : password[v] # memo[r].secret}
  /\ Finish(r, "done")
  /\ UNCHANGED <<challenge, created, issued, blacklist, age, memo,
                 guesses, uses, crowded>>

-----------------------------------------------------------------------------
Rollback(r) ==
  /\ Crash(r) \/ ResolveDeadlock(r)
  /\ UNCHANGED <<tables, age, memo, history>>

Handle(r) ==
  \/ Acquire(r) /\ UNCHANGED <<tables, age, memo, history>>
  \/ Count(r) \/ Close(r) \/ SendCode(r) \/ CommitRequest(r)
  \/ Search(r) \/ Look(r) \/ Judge(r) \/ CountGuess(r) \/ CloseOthers(r)
  \/ BeginChange(r) \/ CheckCurrent(r)
  \/ ListTokens(r) \/ CommitPassword(r)
  \/ Login(r) \/ IssueToken(r) \/ Logout(r)
  \/ LoadProfile(r) \/ SaveProfile(r)

Finished == (\A r \in Request : Ended(r)) /\ UNCHANGED vars

Next ==
  \/ \E r \in Request : Handle(r) \/ Rollback(r)
  \/ \E c \in Challenge : GrowOlder(c)
  \/ Finished

\* A request that has arrived is worked on, and PostgreSQL's deadlock detector
\* runs.  The SMS provider answers or times out (users/sms.py:39).
Fairness ==
  \A r \in Request :
    WF_vars(\/ pc[r] # "idle" /\ Handle(r)
            \/ ResolveDeadlock(r) /\ UNCHANGED <<tables, age, memo, history>>)

Spec == Init /\ [][Next]_vars /\ Fairness

-----------------------------------------------------------------------------
(* Properties *)

TypeOK ==
  /\ challenge \in [Challenge -> Row \cup {NoRow}]
  /\ age \in [Challenge -> 0..2]
  /\ created \in Nat
  /\ password \in [User -> Password]
  /\ issued \in [Token -> [user: User, secret: Password] \cup {NoRow}]
  /\ blacklist \subseteq Token

\* However many confirmations run side by side, no more than MaxAttempts wrong
\* codes are compared with one challenge (users/services.py:112).
GuessesBounded == \A c \in Challenge : guesses[c] <= MaxAttempts

CodeUsedOnce == \A c \in Challenge : Cardinality(uses[c]) <= 1

\* The tables are well-formed, and a code sets one password: confirmations that
\* found the same challenge open wait for each other and look again
\* (users/services.py:103-107).
CodesSound == TypeOK /\ CodeUsedOnce

\* A phone number and an address have no more challenges in an hour than the
\* limits allow, and a phone number has one open code, unless requests for it
\* ran side by side: nothing is locked when the challenges are counted
\* (users/services.py:53-67).
LimitsHoldUnlessCrowded ==
  /\ \A ph \in Phone \ crowded : /\ Cardinality(RecentOf(ph)) <= PhoneLimit
                                 /\ Cardinality(OpenFor(ph)) <= 1
  /\ \A ip \in Ip \ crowded : Cardinality(RecentOf(ip)) <= IpLimit

\* A refresh token that was issued for a password that is no longer the user's
\* is blacklisted, unless its login had verified the password before it was
\* changed and ended after that, or a profile was saved over the change.
OldTokensAreBlacklisted ==
  \A tok \in Token :
    issued[tok] # NoRow /\ tok \notin blacklist /\ tok \notin excused =>
      \/ issued[tok].secret = password[issued[tok].user]
      \/ issued[tok].user \in excused

\* A password is changed by someone who knows the password it replaces, even
\* when it is changed, reset or saved by several requests at once.
ChangeNeedsCurrent ==
  [][\A r \in Request :
       task[r].kind = "change" /\ pc[r] # "done" /\ pc'[r] = "done"
         => password[task[r].user] = task[r].current]_vars

\* Every request that has arrived ends: requests and confirmations that lock
\* the challenges of a phone number and its user in different orders are
\* deadlocks that PostgreSQL resolves.
EveryRequestEnds == \A r \in Request : Running(r) ~> Ended(r)
=============================================================================
