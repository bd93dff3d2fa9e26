------------------------ MODULE PasswordResetProofs ------------------------
(***************************************************************************)
(* Why wrong codes are counted, a code is used once, old tokens die with   *)
(* the password and rate limits hold for whoever is not crowded, for any   *)
(* number of users, challenges and overlapping requests.  A confirmation   *)
(* holds the challenge it has chosen, and whoever replaces a password the  *)
(* user, from the check to the commit (HoldsInv).                          *)
(***************************************************************************)
EXTENDS PasswordReset, RowLocksProofs, FiniteSetTheorems

Lockable == ({"challenge"} \X Challenge) \cup ({"user"} \X User)

Locks == LocksInv(Lockable) /\ task \in Traffic

Notes == [seen: SUBSET Challenge, pick: Challenge \cup {NoRow},
          late: SUBSET Challenge, tokens: SUBSET Token, count: Nat,
          secret: Password \cup {NoRow}]

Types == TypeOK /\ memo \in [Request -> Notes]

RequestPoints == {"counted", "inserting", "sent", "unsent"}
ConfirmPoints == {"choosing", "judging", "counting", "setting"}
FinalPoints == {"listing", "replacing"}

\* Each kind of request has its own points.
PointOf(r) ==
  /\ pc[r] \in RequestPoints => task[r].kind = "request"
  /\ pc[r] \in ConfirmPoints => task[r].kind = "confirm"
  /\ pc[r] = "changing" => task[r].kind = "change"
  /\ pc[r] \in FinalPoints => task[r].kind \in {"confirm", "change"}
  /\ pc[r] = "issuing" => task[r].kind = "login"
  /\ pc[r] = "saving" => task[r].kind = "profile"

\* A confirmation holds the open challenge it judges and then uses.
PickOf(r) ==
  /\ pc[r] \in ConfirmPoints \cup FinalPoints /\ task[r].kind = "confirm" =>
       /\ Chosen(r) \in Challenge
       /\ ChallengeRow(Chosen(r)) \in Reserved(r)
       /\ pc[r] # "choosing" => ChallengeRow(Chosen(r)) \in held[r] /\ Open(Chosen(r))
       /\ pc[r] \in {"setting"} \cup FinalPoints => challenge[Chosen(r)].user # NoUser
  /\ pc[r] = "counting" =>
       /\ memo[r].count = challenge[Chosen(r)].attempts + 1
       /\ challenge[Chosen(r)].attempts < MaxAttempts

\* Whoever replaces, saves or has verified a password locks its user; whoever
\* replaces it knows it and, in the end, the tokens of the user; whoever saves
\* it has read it.
UserLockOf(r) ==
  /\ pc[r] \in {"changing", "setting", "issuing", "saving"} =>
       UserRow(UserOf(r)) \in Reserved(r)
  /\ pc[r] \in FinalPoints => UserRow(UserOf(r)) \in held[r]
  /\ pc[r] \in FinalPoints /\ task[r].kind = "change" =>
       password[task[r].user] = task[r].current
  /\ pc[r] = "replacing" => memo[r].tokens = TokensOf(UserOf(r))
  /\ pc[r] = "saving" => memo[r].secret \in Password

HoldsOf(r) == PointOf(r) /\ PickOf(r) /\ UserLockOf(r)

HoldsInv == \A r \in Request : HoldsOf(r)

\* Keys about to be inserted are new.
KeyInv ==
  \A r \in Request : ~ Ended(r) =>
    /\ task[r].kind = "request" => challenge[task[r].id] = NoRow
    /\ task[r].kind = "login" => issued[task[r].token] = NoRow

IInv == Locks /\ Types /\ HoldsInv /\ KeyInv

\* Wrong codes are counted in the row, and a code that was used is consumed.
CodeInv ==
  /\ guesses \in [Challenge -> Nat] /\ uses \in [Challenge -> SUBSET Request]
  /\ \A c \in Challenge :
       /\ Exists(c) => guesses[c] <= challenge[c].attempts
       /\ ~ Exists(c) => guesses[c] = 0
       /\ uses[c] # {} => Exists(c) /\ ~ Open(c) /\ \E r \in Request : uses[c] = {r}

\* A login whose password has been replaced since is excused.
LoginInv ==
  \A r \in Request : pc[r] = "issuing" =>
    \/ password[task[r].user] = task[r].secret
    \/ task[r].token \in excused \/ task[r].user \in excused

\* Requests that share a number or an address are alone with it, or crowd it.
AskedBy(r) == {task[r].phone, task[r].ip}
AloneInv ==
  \A q, r \in Request :
    q # r /\ pc[q] \in RequestPoints /\ pc[r] \in RequestPoints
      => AskedBy(q) \cap AskedBy(r) \subseteq crowded

\* What a request has counted, and closed, is still so when it commits.
LimitOf(r) ==
  /\ pc[r] \in RequestPoints =>
       /\ task[r].phone \notin crowded => Cardinality(RecentOf(task[r].phone)) < PhoneLimit
       /\ task[r].ip \notin crowded => Cardinality(RecentOf(task[r].ip)) < IpLimit
  /\ pc[r] \in RequestPoints \ {"counted"} /\ task[r].phone \notin crowded =>
       \A c \in OpenFor(task[r].phone) : ChallengeRow(c) \in Reserved(r)

LimitInv == AloneInv /\ LimitsHoldUnlessCrowded /\ \A r \in Request : LimitOf(r)

-----------------------------------------------------------------------------
(* Rows, requests and notes *)

LEMMA RowsDiffer ==
  /\ \A a, b : ChallengeRow(a) = ChallengeRow(b) => a = b
  /\ \A a, b : UserRow(a) = UserRow(b) => a = b
  /\ \A a, b : ChallengeRow(a) # UserRow(b)
  BY DEF ChallengeRow, UserRow

LEMMA RowsAreLockable ==
  /\ \A c \in Challenge : ChallengeRow(c) \in Lockable
  /\ \A u \in User : UserRow(u) \in Lockable
  BY DEF Lockable, ChallengeRow, UserRow

LEMMA TaskFields ==
  ASSUME task \in Traffic, NEW r \in Request
  PROVE  /\ task[r].kind \in {"request", "confirm", "change", "login"}
                               \cup {"logout", "profile"}
         /\ task[r].kind = "request" => /\ task[r].phone \in Phone
                                        /\ task[r].ip \in Ip
                                        /\ task[r].id \in Challenge
         /\ task[r].kind = "confirm" => task[r].phone \in Phone
         /\ task[r].kind \in {"confirm", "change"} => task[r].new \in Password
         /\ task[r].kind = "login" => task[r].token \in Token /\ task[r].secret \in Password
         /\ task[r].kind = "logout" => task[r].token \in Token
         /\ task[r].kind \in {"change", "login", "profile"} => task[r].user \in User
<1>1. task[r] \in Operation
  BY PasswordAssumption
<1>2. QED
  BY <1>1 DEF Operation

LEMMA RowFields ==
  ASSUME TypeOK, NEW c \in Challenge, Exists(c)
  PROVE  /\ challenge[c] \in Row
         /\ challenge[c].user \in User \cup {NoUser}
         /\ challenge[c].attempts \in Nat /\ challenge[c].attempts <= MaxAttempts
<1>1. challenge[c] \in Row
  BY DEF TypeOK, Exists
<1>2. QED
  BY <1>1, PasswordAssumption DEF Row

\* What a handler notes, field by field.
LEMMA NoteFields ==
  ASSUME NEW m \in Notes
  PROVE  /\ m.seen \in SUBSET Challenge /\ m.pick \in Challenge \cup {NoRow}
         /\ m.late \in SUBSET Challenge /\ m.tokens \in SUBSET Token
         /\ m.count \in Nat /\ m.secret \in Password \cup {NoRow}
         /\ \A n \in Nat : /\ [m EXCEPT !.count = n] \in Notes
                           /\ [m EXCEPT !.count = n].pick = m.pick
                           /\ [m EXCEPT !.count = n].count = n
         /\ \A T \in SUBSET Token : /\ [m EXCEPT !.tokens = T] \in Notes
                                    /\ [m EXCEPT !.tokens = T].pick = m.pick
                                    /\ [m EXCEPT !.tokens = T].tokens = T
         /\ \A x \in Password : /\ [m EXCEPT !.secret = x] \in Notes
                                /\ [m EXCEPT !.secret = x].secret = x
  BY DEF Notes

LEMMA NotesOf ==
  ASSUME Types, NEW r \in Request
  PROVE  memo[r] \in Notes
  BY DEF Types

\* r notes something; the others keep what they have.
LEMMA RememberEffect ==
  ASSUME Types, NEW r \in Request, NEW m \in Notes, Remember(r, m)
  PROVE  /\ memo' \in [Request -> Notes] /\ memo'[r] = m
         /\ \A q \in Request \ {r} : memo'[q] = memo[q]
  BY DEF Types, Remember

-----------------------------------------------------------------------------
(* Statements and locks *)

LEMMA OneRow ==
  ASSUME NEW x \in Lockable
  PROVE  <<x>> \in Seq(Lockable) /\ {<<x>>[i] : i \in DOMAIN <<x>>} = {x}
<1>1. DOMAIN <<x>> = {1} /\ <<x>>[1] = x
  OBVIOUS
<1>2. QED
  BY <1>1

LEMMA NoRows == << >> \in Seq(Lockable) /\ {<< >>[i] : i \in DOMAIN << >>} = {}
  OBVIOUS

\* Finitely many keys have finitely many rows.
LEMMA FinitelyManyRows ==
  ASSUME NEW S, IsFiniteSet(S), NEW f, NEW R, f \in [S -> R],
         \A x \in R : \E y \in S : f[y] = x
  PROVE  Cardinality(R) \in Nat
<1>1. f \in Surjection(S, R)
  BY DEF Surjection
<1>2. IsFiniteSet(R)
  BY <1>1, FS_Surjection
<1>3. QED
  BY <1>2, FS_CardinalityType

LEMMA RowsOfChallenges ==
  ASSUME NEW S \in SUBSET Challenge, NEW rows \in Orders({ChallengeRow(c) : c \in S})
  PROVE  rows \in Seq(Lockable) /\ {rows[i] : i \in DOMAIN rows} = {ChallengeRow(c) : c \in S}
<1> DEFINE R == {ChallengeRow(c) : c \in S}
<1>1. IsFiniteSet(S)
  BY PasswordAssumption, FS_Subset
<1>2. R \in SUBSET Lockable
  BY RowsAreLockable
<1>3. Cardinality(R) \in Nat
  <2> DEFINE f == [c \in S |-> ChallengeRow(c)]
  <2>1. f \in [S -> R] /\ \A x \in R : \E y \in S : f[y] = x
    OBVIOUS
  <2> HIDE DEF f, R
  <2>2. QED
    BY <1>1, <2>1, FinitelyManyRows
<1>4. rows \in Orders(R)
  OBVIOUS
<1> HIDE DEF R
<1>5. rows \in Seq(Lockable) /\ {rows[i] : i \in DOMAIN rows} = R
  BY <1>2, <1>3, <1>4, OrdersAreSequences
<1>6. QED
  BY <1>5 DEF R

LEMMA RowsOfUsers ==
  ASSUME NEW S \in SUBSET User, NEW rows \in Orders({UserRow(u) : u \in S})
  PROVE  rows \in Seq(Lockable)
<1> DEFINE R == {UserRow(u) : u \in S}
<1>1. IsFiniteSet(S)
  BY PasswordAssumption, FS_Subset
<1>2. R \in SUBSET Lockable
  BY RowsAreLockable
<1>3. Cardinality(R) \in Nat
  <2> DEFINE f == [u \in S |-> UserRow(u)]
  <2>1. f \in [S -> R] /\ \A x \in R : \E y \in S : f[y] = x
    OBVIOUS
  <2> HIDE DEF f, R
  <2>2. QED
    BY <1>1, <2>1, FinitelyManyRows
<1>4. rows \in Orders(R)
  OBVIOUS
<1> HIDE DEF R
<1>5. QED
  BY <1>2, <1>3, <1>4, OrdersAreSequences

\* r goes on from one point to another by a statement that locks the rows S.
Went(r, from, where, S) ==
  /\ pc[r] = from /\ pc'[r] = where
  /\ Reserved(r) = held[r] /\ held'[r] = held[r]
  /\ Reserved(r)' = held[r] \cup S

\* Everybody else, and his notes, are left alone.
Alone(r) == OthersRest(r) /\ \A q \in Request \ {r} : memo'[q] = memo[q]

LEMMA WentBy ==
  ASSUME Locks, NEW r \in Request, NEW from, NEW where, NEW rows \in Seq(Lockable),
         At(r, from), Goto(r, where, rows)
  PROVE  /\ Locks' /\ OthersRest(r)
         /\ Went(r, from, where, {rows[i] : i \in DOMAIN rows})
<1>1. /\ LocksInv(Lockable)' /\ OthersRest(r)
      /\ pc'[r] = where /\ plan'[r] = rows /\ held'[r] = held[r]
  BY GotoEffect DEF Locks
<1>2. pc[r] = from /\ Reserved(r) = held[r]
  BY AtHolds
<1>3. Reserved(r)' = held[r] \cup {rows[i] : i \in DOMAIN rows}
  BY <1>1 DEF Reserved
<1>4. QED
  BY <1>1, <1>2, <1>3 DEF Locks, OthersRest, Went

LEMMA WentNowhere ==
  ASSUME Locks, NEW r \in Request, NEW from, NEW where,
         At(r, from), Goto(r, where, << >>)
  PROVE  Locks' /\ OthersRest(r) /\ Went(r, from, where, {})
  BY NoRows, WentBy

LEMMA WentToOne ==
  ASSUME Locks, NEW r \in Request, NEW from, NEW where, NEW x \in Lockable,
         At(r, from), Goto(r, where, <<x>>)
  PROVE  Locks' /\ OthersRest(r) /\ Went(r, from, where, {x})
<1> DEFINE one == <<x>>
<1>1. one \in Seq(Lockable) /\ {one[i] : i \in DOMAIN one} = {x}
  BY OneRow
<1>2. Goto(r, where, one)
  OBVIOUS
<1> HIDE DEF one
<1>3. /\ Locks' /\ OthersRest(r)
      /\ Went(r, from, where, {one[i] : i \in DOMAIN one})
  BY <1>1, <1>2, WentBy
<1>4. QED
  BY <1>1, <1>3

LEMMA EndedBy ==
  ASSUME Locks, NEW r \in Request, NEW outcome, Finish(r, outcome)
  PROVE  Locks' /\ OthersRest(r) /\ pc'[r] = outcome
<1>1. LocksInv(Lockable)' /\ OthersRest(r) /\ pc'[r] = outcome
  BY FinishEffect DEF Locks
<1>2. QED
  BY <1>1 DEF Locks, OthersRest

-----------------------------------------------------------------------------
(* What a step of one request leaves to the others *)

\* r changes no row that it has not locked, and inserts one for a user that
\* it has locked.
Frame(r) ==
  /\ \A c \in Challenge :
       Exists(c) /\ ChallengeRow(c) \notin held[r] => challenge'[c] = challenge[c]
  /\ \A u \in User : UserRow(u) \notin held[r] => password'[u] = password[u]
  /\ \A tok \in Token :
       \/ issued'[tok] = issued[tok]
       \/ issued[tok] = NoRow /\ UserRow(issued'[tok].user) \in held[r]

\* A row is inserted under the key that its request was given, at its end.
KeyFrame(r) ==
  /\ Ended(r) => Ended(r)'
  /\ \A c \in Challenge : challenge[c] = NoRow =>
       \/ challenge'[c] = NoRow
       \/ task[r].kind = "request" /\ c = task[r].id /\ Ended(r)'
  /\ \A tok \in Token : issued[tok] = NoRow =>
       \/ issued'[tok] = NoRow
       \/ task[r].kind = "login" /\ tok = task[r].token /\ Ended(r)'

LEMMA OtherPick ==
  ASSUME IInv, NEW r \in Request, NEW q \in Request \ {r}, Alone(r), Frame(r)
  PROVE  PickOf(q)' /\ (pc[q] \in {"setting"} \cup FinalPoints => UserOf(q)' = UserOf(q))
<1>1. /\ task' = task /\ pc'[q] = pc[q] /\ held'[q] = held[q] /\ plan'[q] = plan[q]
      /\ memo'[q] = memo[q] /\ Reserved(q)' = Reserved(q)
  BY DEF Alone, OthersRest, Reserved
<1>2. PointOf(q) /\ PickOf(q)
  BY DEF IInv, HoldsInv, HoldsOf
<1>3. Chosen(q)' = Chosen(q)
  BY <1>1 DEF Chosen
<1>4. ASSUME pc[q] \in ConfirmPoints \cup FinalPoints, task[q].kind = "confirm",
             pc[q] # "choosing"
      PROVE  /\ Chosen(q) \in Challenge
             /\ ChallengeRow(Chosen(q)) \in held[q] /\ Open(Chosen(q))
             /\ challenge'[Chosen(q)] = challenge[Chosen(q)]
  <2>1. /\ Chosen(q) \in Challenge
        /\ ChallengeRow(Chosen(q)) \in held[q] /\ Open(Chosen(q))
    BY <1>2, <1>4 DEF PickOf
  <2>2. ChallengeRow(Chosen(q)) \notin held[r] /\ Exists(Chosen(q))
    BY <2>1 DEF IInv, Locks, LocksInv, Open
  <2>3. QED
    BY <2>1, <2>2 DEF Frame
<1>5. ASSUME pc[q] \in ConfirmPoints \cup FinalPoints, task[q].kind = "confirm"
      PROVE  /\ Chosen(q)' \in Challenge
             /\ ChallengeRow(Chosen(q))' \in Reserved(q)'
             /\ (pc'[q] # "choosing" =>
                   ChallengeRow(Chosen(q))' \in held'[q] /\ Open(Chosen(q))')
             /\ (pc'[q] \in {"setting"} \cup FinalPoints =>
                   challenge'[Chosen(q)'].user # NoUser)
  <2>1. Chosen(q)' \in Challenge /\ ChallengeRow(Chosen(q)) \in Reserved(q)
    BY <1>2, <1>3, <1>5 DEF PickOf
  <2>2. ChallengeRow(Chosen(q))' = ChallengeRow(Chosen(q))
    BY <1>3 DEF ChallengeRow
  <2>3. pc[q] # "choosing" => Open(Chosen(q))'
    BY <1>3, <1>4, <1>5 DEF Open, Exists
  <2>4. pc[q] \in {"setting"} \cup FinalPoints => challenge[Chosen(q)].user # NoUser
    BY <1>2, <1>5 DEF PickOf
  <2>5. pc[q] \in {"setting"} \cup FinalPoints => pc[q] # "choosing"
    BY DEF FinalPoints
  <2>6. QED
    BY <1>1, <1>3, <1>4, <1>5, <2>1, <2>2, <2>3, <2>4, <2>5
<1>6. ASSUME pc[q] = "counting"
      PROVE  /\ memo'[q].count = challenge'[Chosen(q)'].attempts + 1
             /\ challenge'[Chosen(q)'].attempts < MaxAttempts
  <2>1. task[q].kind = "confirm" /\ pc[q] \in ConfirmPoints \cup FinalPoints
    BY <1>2, <1>6 DEF PointOf, ConfirmPoints
  <2>2. challenge'[Chosen(q)] = challenge[Chosen(q)]
    BY <1>4, <1>6, <2>1
  <2>3. /\ memo[q].count = challenge[Chosen(q)].attempts + 1
        /\ challenge[Chosen(q)].attempts < MaxAttempts
    BY <1>2, <1>6 DEF PickOf
  <2>4. QED
    BY <1>1, <1>3, <2>2, <2>3
<1>7. PickOf(q)'
  BY <1>1, <1>5, <1>6 DEF PickOf
<1>8. ASSUME pc[q] \in {"setting"} \cup FinalPoints
      PROVE  UserOf(q)' = UserOf(q)
  <2>1. CASE task[q].kind = "confirm"
    <3>1. pc[q] \in ConfirmPoints \cup FinalPoints /\ pc[q] # "choosing"
      BY <1>8 DEF ConfirmPoints, FinalPoints
    <3>2. challenge'[Chosen(q)] = challenge[Chosen(q)]
      BY <1>4, <2>1, <3>1
    <3>3. QED
      BY <1>1, <1>3, <2>1, <3>2 DEF UserOf
  <2>2. CASE task[q].kind # "confirm"
    BY <1>1, <2>2 DEF UserOf
  <2>3. QED
    BY <2>1, <2>2
<1>9. QED
  BY <1>7, <1>8

LEMMA OtherUser ==
  ASSUME IInv, NEW r \in Request, NEW q \in Request \ {r}, Alone(r), Frame(r)
  PROVE  UserLockOf(q)'
<1>1. /\ task' = task /\ pc'[q] = pc[q] /\ held'[q] = held[q] /\ plan'[q] = plan[q]
      /\ memo'[q] = memo[q] /\ Reserved(q)' = Reserved(q)
  BY DEF Alone, OthersRest, Reserved
<1>2. PointOf(q) /\ UserLockOf(q)
  BY DEF IInv, HoldsInv, HoldsOf
<1>3. ASSUME pc[q] \in {"changing", "setting", "issuing", "saving"} \cup FinalPoints
      PROVE  UserOf(q)' = UserOf(q)
  <2>1. CASE pc[q] \in {"setting"} \cup FinalPoints
    BY <2>1, OtherPick
  <2>2. CASE pc[q] \in {"changing", "issuing", "saving"}
    <3>1. task[q].kind # "confirm"
      BY <1>2, <2>2 DEF PointOf
    <3>2. QED
      BY <1>1, <3>1 DEF UserOf
  <2>3. QED
    BY <1>3, <2>1, <2>2
<1>4. UserRow(UserOf(q)) \in held[q] => UserRow(UserOf(q)) \notin held[r]
  BY DEF IInv, Locks, LocksInv
<1>5. ASSUME pc[q] \in {"changing", "setting", "issuing", "saving"}
      PROVE  UserRow(UserOf(q))' \in Reserved(q)'
  <2>1. UserRow(UserOf(q)) \in Reserved(q)
    BY <1>2, <1>5 DEF UserLockOf
  <2>2. UserOf(q)' = UserOf(q)
    BY <1>3, <1>5
  <2>3. QED
    BY <1>1, <2>1, <2>2 DEF UserRow
<1>6. ASSUME pc[q] \in FinalPoints
      PROVE  /\ UserRow(UserOf(q))' \in held'[q]
             /\ UserRow(UserOf(q)) \notin held[r] /\ UserOf(q)' = UserOf(q)
  <2>1. UserRow(UserOf(q)) \in held[q]
    BY <1>2, <1>6 DEF UserLockOf
  <2>2. UserOf(q)' = UserOf(q)
    BY <1>3, <1>6
  <2>3. UserRow(UserOf(q))' = UserRow(UserOf(q))
    BY <2>2 DEF UserRow
  <2>4. QED
    BY <1>1, <1>4, <2>1, <2>2, <2>3
<1>7. ASSUME pc[q] \in FinalPoints, task[q].kind = "change"
      PROVE  password'[task'[q].user] = task'[q].current
  <2>1. task[q].user \in User
    BY <1>7, TaskFields DEF IInv, Locks
  <2>2. UserOf(q) = task[q].user
    BY <1>7 DEF UserOf
  <2>3. password'[task[q].user] = password[task[q].user]
    BY <1>6, <1>7, <2>1, <2>2 DEF Frame
  <2>4. password[task[q].user] = task[q].current
    BY <1>2, <1>7 DEF UserLockOf
  <2>5. QED
    BY <1>1, <2>3, <2>4
<1>8. ASSUME pc[q] = "replacing"
      PROVE  memo'[q].tokens = TokensOf(UserOf(q))'
  <2> DEFINE u == UserOf(q)
  <2>1. /\ UserRow(u) \notin held[r] /\ UserOf(q)' = u
    BY <1>6, <1>8 DEF FinalPoints
  <2>2. memo[q].tokens = TokensOf(u)
    BY <1>2, <1>8 DEF UserLockOf
  <2>3. \A tok \in Token : \/ issued'[tok] = issued[tok]
                           \/ issued[tok] = NoRow /\ issued'[tok].user # u
    BY <2>1 DEF Frame
  <2> HIDE DEF u
  <2>4. \A tok \in Token : issued'[tok] # NoRow /\ issued'[tok].user = u
                             <=> issued[tok] # NoRow /\ issued[tok].user = u
    <3>1. \A tok \in Token : issued[tok] = NoRow \/ issued'[tok] = issued[tok]
      BY <2>3
    <3>2. \A tok \in Token : issued[tok] = NoRow =>
            issued'[tok] = NoRow \/ issued'[tok].user # u
      BY <2>3
    <3>3. QED
      BY <3>1, <3>2
  <2>5. {tok \in Token : issued'[tok] # NoRow /\ issued'[tok].user = u} = TokensOf(u)
    BY <2>4 DEF TokensOf
  <2>6. TokensOf(UserOf(q))' = TokensOf(u)
    BY <2>1, <2>5 DEF TokensOf
  <2>7. QED
    BY <1>1, <2>2, <2>6
<1>9. pc'[q] = "saving" => memo'[q].secret \in Password
  BY <1>1, <1>2 DEF UserLockOf
<1>10. QED
  BY <1>1, <1>5, <1>6, <1>7, <1>8, <1>9 DEF UserLockOf

LEMMA OthersHold ==
  ASSUME IInv, NEW r \in Request, NEW q \in Request \ {r}, Alone(r), Frame(r)
  PROVE  HoldsOf(q)'
<1>1. task' = task /\ pc'[q] = pc[q]
  BY DEF Alone, OthersRest
<1>2. PointOf(q)
  BY DEF IInv, HoldsInv, HoldsOf
<1>3. PointOf(q)'
  BY <1>1, <1>2 DEF PointOf
<1>4. QED
  BY <1>3, OtherPick, OtherUser DEF HoldsOf

\* Keys given to different requests differ.
LEMMA KeysDiffer ==
  ASSUME task \in Traffic, NEW q \in Request, NEW r \in Request, q # r
  PROVE  /\ task[q].kind = "request" /\ task[r].kind = "request" => task[q].id # task[r].id
         /\ task[q].kind = "login" /\ task[r].kind = "login" => task[q].token # task[r].token
  BY FreshKeys

LEMMA KeysStep ==
  ASSUME Locks, KeyInv, NEW r \in Request, Alone(r), KeyFrame(r)
  PROVE  KeyInv'
<1>1. task' = task /\ \A q \in Request \ {r} : pc'[q] = pc[q]
  BY DEF Alone, OthersRest
<1>2. ASSUME NEW q \in Request, ~ Ended(q)'
      PROVE  /\ ~ Ended(q) /\ (q = r => ~ Ended(r)')
             /\ (task[q].kind = "request" => challenge[task[q].id] = NoRow)
             /\ (task[q].kind = "login" => issued[task[q].token] = NoRow)
  <2>1. ~ Ended(q)
    <3>1. CASE q = r
      BY <1>2, <3>1 DEF KeyFrame
    <3>2. CASE q # r
      BY <1>1, <1>2, <3>2 DEF Ended
    <3>3. QED
      BY <3>1, <3>2
  <2>2. QED
    BY <1>2, <2>1 DEF KeyInv
<1>3. ASSUME NEW q \in Request, ~ Ended(q)', task[q].kind = "request"
      PROVE  challenge'[task[q].id] = NoRow
  <2>1. task[q].id \in Challenge
    BY <1>3, TaskFields DEF Locks
  <2>2. q # r /\ task[r].kind = "request" => task[q].id # task[r].id
    BY <1>3, KeysDiffer DEF Locks
  <2>3. QED
    BY <1>2, <1>3, <2>1, <2>2 DEF KeyFrame
<1>4. ASSUME NEW q \in Request, ~ Ended(q)', task[q].kind = "login"
      PROVE  issued'[task[q].token] = NoRow
  <2>1. task[q].token \in Token
    BY <1>4, TaskFields DEF Locks
  <2>2. q # r /\ task[r].kind = "login" => task[q].token # task[r].token
    BY <1>4, KeysDiffer DEF Locks
  <2>3. QED
    BY <1>2, <1>4, <2>1, <2>2 DEF KeyFrame
<1>5. QED
  BY <1>1, <1>3, <1>4 DEF KeyInv

LEMMA StepHolds ==
  ASSUME IInv, NEW r \in Request, Alone(r), Frame(r), KeyFrame(r),
         Locks', Types', HoldsOf(r)'
  PROVE  IInv'
<1>1. HoldsInv'
  BY OthersHold DEF HoldsInv
<1>2. KeyInv'
  BY KeysStep DEF IInv
<1>3. QED
  BY <1>1, <1>2 DEF IInv

\* A step that changes no row.
LEMMA QuietStep ==
  ASSUME IInv, NEW r \in Request, OthersRest(r),
         UNCHANGED <<challenge, password, issued, blacklist, age>>, created' \in Nat,
         memo' \in [Request -> Notes], \A q \in Request \ {r} : memo'[q] = memo[q],
         Ended(r) => Ended(r)', Locks', HoldsOf(r)'
  PROVE  IInv'
<1>1. Frame(r) /\ KeyFrame(r)
  BY DEF Frame, KeyFrame
<1>2. Types'
  BY DEF IInv, Types, TypeOK
<1>3. QED
  BY <1>1, <1>2, StepHolds DEF Alone

\* Whoever has ended holds nothing, and has nothing to show.
LEMMA EndedHolds ==
  ASSUME NEW r \in Request, pc'[r] \in {"done", "failed"}
  PROVE  HoldsOf(r)' /\ Ended(r)'
<1>1. /\ pc'[r] \notin RequestPoints /\ pc'[r] \notin ConfirmPoints
      /\ pc'[r] \notin FinalPoints
      /\ pc'[r] \notin {"changing", "setting", "issuing", "saving", "counting", "replacing"}
  BY DEF RequestPoints, ConfirmPoints, FinalPoints
<1>2. PointOf(r)' /\ PickOf(r)' /\ UserLockOf(r)'
  BY <1>1 DEF PointOf, PickOf, UserLockOf
<1>3. QED
  BY <1>2 DEF HoldsOf, Ended

LEMMA RefusedStep ==
  ASSUME IInv, NEW r \in Request, NEW outcome \in {"done", "failed"},
         Finish(r, outcome), UNCHANGED <<tables, age>>,
         memo' \in [Request -> Notes], \A q \in Request \ {r} : memo'[q] = memo[q]
  PROVE  IInv'
<1>1. Locks' /\ OthersRest(r) /\ pc'[r] = outcome
  BY EndedBy DEF IInv
<1>2. HoldsOf(r)' /\ Ended(r)'
  BY <1>1, EndedHolds
<1>3. UNCHANGED <<challenge, password, issued, blacklist, age>> /\ created' \in Nat
  BY DEF tables, IInv, Types, TypeOK
<1>4. QED
  BY <1>1, <1>2, <1>3, QuietStep

\* A step that only reads the tables, and notes something or nothing.
LEMMA ReadingStep ==
  ASSUME IInv, NEW r \in Request, OthersRest(r), UNCHANGED <<tables, age>>,
         memo' = memo \/ (\E m \in Notes : Remember(r, m)),
         ~ Ended(r), Locks', HoldsOf(r)'
  PROVE  IInv'
<1>1. memo' \in [Request -> Notes] /\ \A q \in Request \ {r} : memo'[q] = memo[q]
  BY RememberEffect DEF IInv, Types
<1>2. UNCHANGED <<challenge, password, issued, blacklist, age>> /\ created' \in Nat
  BY DEF tables, IInv, Types, TypeOK
<1>3. QED
  BY <1>1, <1>2, QuietStep

LEMMA SamePick ==
  ASSUME NEW r \in Request, memo'[r].pick = memo[r].pick, UNCHANGED <<task, challenge>>
  PROVE  /\ Chosen(r)' = Chosen(r) /\ UserOf(r)' = UserOf(r)
         /\ Open(Chosen(r))' = Open(Chosen(r))
         /\ ChallengeRow(Chosen(r))' = ChallengeRow(Chosen(r))
         /\ UserRow(UserOf(r))' = UserRow(UserOf(r))
<1>1. Chosen(r)' = Chosen(r)
  BY DEF Chosen
<1>2. UserOf(r)' = UserOf(r)
  BY <1>1 DEF UserOf
<1>3. QED
  BY <1>1, <1>2 DEF Open, Exists, ChallengeRow, UserRow

-----------------------------------------------------------------------------
(* The steps that change no row *)

LEMMA AcquireHolds ==
  ASSUME IInv, NEW r \in Request, Acquire(r), UNCHANGED <<tables, age, memo>>
  PROVE  IInv'
<1>1. Locks' /\ OthersRest(r)
  BY AcquireEffect DEF IInv, Locks, OthersRest
<1>2. /\ pc'[r] = pc[r] /\ held[r] \subseteq held'[r] /\ Reserved(r)' = Reserved(r)
      /\ task' = task
  BY AcquireEffect DEF IInv, Locks, OthersRest
<1>3. UNCHANGED <<challenge, password, issued, blacklist, age, memo>> /\ created' \in Nat
  BY DEF tables, IInv, Types, TypeOK
<1>4. PointOf(r) /\ PickOf(r) /\ UserLockOf(r)
  BY DEF IInv, HoldsInv, HoldsOf
<1>5. /\ Chosen(r)' = Chosen(r) /\ UserOf(r)' = UserOf(r)
      /\ Open(Chosen(r))' = Open(Chosen(r))
      /\ ChallengeRow(Chosen(r))' = ChallengeRow(Chosen(r))
      /\ UserRow(UserOf(r))' = UserRow(UserOf(r))
  BY <1>2, <1>3, SamePick
<1>6. PointOf(r)'
  BY <1>2, <1>4 DEF PointOf
<1>7. PickOf(r)'
  BY <1>2, <1>3, <1>4, <1>5 DEF PickOf
<1>8. UserLockOf(r)'
  <2>1. TokensOf(UserOf(r))' = TokensOf(UserOf(r))
    BY <1>3, <1>5 DEF TokensOf
  <2>2. QED
    BY <1>2, <1>3, <1>4, <1>5, <2>1 DEF UserLockOf
<1>9. HoldsOf(r)'
  BY <1>6, <1>7, <1>8 DEF HoldsOf
<1>10. memo' \in [Request -> Notes] /\ \A q \in Request \ {r} : memo'[q] = memo[q]
  BY <1>3 DEF IInv, Types
<1>11. Ended(r) => Ended(r)'
  BY <1>2 DEF Ended
<1>12. QED
  BY <1>1, <1>3, <1>9, <1>10, <1>11, QuietStep

LEMMA RequestHolds ==
  ASSUME NEW r \in Request, task' = task, task[r].kind = "request",
         pc'[r] \in RequestPoints
  PROVE  HoldsOf(r)'
<1>1. /\ pc'[r] \notin ConfirmPoints /\ pc'[r] \notin FinalPoints
      /\ pc'[r] \notin {"changing", "setting", "issuing", "saving", "counting", "replacing"}
  BY DEF RequestPoints, ConfirmPoints, FinalPoints
<1>2. PointOf(r)' /\ PickOf(r)' /\ UserLockOf(r)'
  BY <1>1 DEF PointOf, PickOf, UserLockOf
<1>3. QED
  BY <1>2 DEF HoldsOf

LEMMA CountHolds ==
  ASSUME IInv, NEW r \in Request, Count(r)
  PROVE  IInv'
<1>1. /\ At(r, "idle") /\ task[r].kind = "request" /\ UNCHANGED <<tables, age, memo>>
      /\ Goto(r, "counted", << >>) \/ Finish(r, "failed")
  BY DEF Count, GotoIf
<1>2. memo' \in [Request -> Notes] /\ \A q \in Request \ {r} : memo'[q] = memo[q]
  BY <1>1 DEF IInv, Types
<1>3. CASE Goto(r, "counted", << >>)
  <2>1. Locks' /\ OthersRest(r) /\ pc'[r] = "counted" /\ pc[r] = "idle"
    BY <1>1, <1>3, WentNowhere DEF IInv, Went
  <2>2. HoldsOf(r)'
    BY <1>1, <2>1, RequestHolds DEF OthersRest, RequestPoints
  <2>3. QED
    BY <1>1, <2>1, <2>2, ReadingStep DEF Ended
<1>4. CASE Finish(r, "failed")
  BY <1>1, <1>2, <1>4, RefusedStep
<1>5. QED
  BY <1>1, <1>3, <1>4

LEMMA OpenChallenges ==
  ASSUME NEW ph
  PROVE  OpenFor(ph) \in SUBSET Challenge
  BY DEF OpenFor

LEMMA CloseHolds ==
  ASSUME IInv, NEW r \in Request, Close(r)
  PROVE  IInv'
<1>1. At(r, "counted") /\ UNCHANGED <<tables, age, memo>>
  BY DEF Close
<1>2. PICK rows \in Orders({ChallengeRow(c) : c \in OpenFor(task[r].phone)}) :
        Goto(r, "inserting", rows)
  BY DEF Close
<1>3. rows \in Seq(Lockable)
  BY RowsOfChallenges, OpenChallenges
<1>4. Locks' /\ OthersRest(r) /\ pc'[r] = "inserting" /\ pc[r] = "counted"
  BY <1>1, <1>2, <1>3, WentBy DEF IInv, Went
<1>5. task[r].kind = "request"
  BY <1>4 DEF IInv, HoldsInv, HoldsOf, PointOf, RequestPoints
<1>6. HoldsOf(r)'
  BY <1>4, <1>5, RequestHolds DEF OthersRest, RequestPoints
<1>7. QED
  BY <1>1, <1>4, <1>6, ReadingStep DEF Ended

LEMMA SendCodeHolds ==
  ASSUME IInv, NEW r \in Request, SendCode(r)
  PROVE  IInv'
<1>1. /\ At(r, "inserting") /\ created' = created + 1
      /\ UNCHANGED <<challenge, password, issued, blacklist, age>>
  BY DEF SendCode
<1>2. PICK where \in {"sent", "unsent"}, S \in SUBSET User :
        \E rows \in Orders({UserRow(u) : u \in S}) : Goto(r, where, rows)
  <2>1. Owner(task[r].phone) \in SUBSET User
    BY DEF Owner
  <2>2. QED
    BY <2>1 DEF SendCode
<1>3. PICK rows \in Orders({UserRow(u) : u \in S}) : Goto(r, where, rows)
  BY <1>2
<1>4. rows \in Seq(Lockable)
  BY RowsOfUsers
<1>5. Locks' /\ OthersRest(r) /\ pc'[r] = where /\ pc[r] = "inserting"
  BY <1>1, <1>3, <1>4, WentBy DEF IInv, Went
<1>6. task[r].kind = "request"
  BY <1>5 DEF IInv, HoldsInv, HoldsOf, PointOf, RequestPoints
<1>7. HoldsOf(r)'
  BY <1>5, <1>6, RequestHolds DEF OthersRest, RequestPoints
<1>8. created' \in Nat
  BY <1>1 DEF IInv, Types, TypeOK
<1>9. memo' \in [Request -> Notes] /\ \A q \in Request \ {r} : memo'[q] = memo[q]
  <2> DEFINE m == [memo[r] EXCEPT !.count = created']
  <2>1. Remember(r, m)
    BY DEF SendCode
  <2>2. m \in Notes
    BY <1>8, NotesOf, NoteFields DEF IInv
  <2> HIDE DEF m
  <2>3. QED
    BY <2>1, <2>2, RememberEffect DEF IInv
<1>10. QED
  BY <1>1, <1>5, <1>7, <1>8, <1>9, QuietStep DEF Ended

LEMMA ChooseHolds ==
  ASSUME IInv, NEW r \in Request, NEW from, At(r, from), ~ Ended(r),
         task[r].kind = "confirm",
         NEW seen \in SUBSET Challenge, NEW late \in SUBSET Challenge,
         Choose(r, seen, late), UNCHANGED <<tables, age>>
  PROVE  IInv'
<1>1. CASE Finish(r, "failed") /\ memo' = memo
  <2>1. memo' \in [Request -> Notes] /\ \A q \in Request \ {r} : memo'[q] = memo[q]
    BY <1>1 DEF IInv, Types
  <2>2. QED
    BY <1>1, <2>1, RefusedStep
<1>2. ASSUME NEW c \in Newest(seen), Goto(r, "choosing", <<ChallengeRow(c)>>),
             Remember(r, [memo[r] EXCEPT !.seen = seen, !.pick = c, !.late = late])
      PROVE  IInv'
  <2>1. c \in Challenge
    BY DEF Newest
  <2>2. Locks' /\ OthersRest(r) /\ Went(r, from, "choosing", {ChallengeRow(c)})
    BY <1>2, <2>1, RowsAreLockable, WentToOne DEF IInv
  <2> DEFINE m == [memo[r] EXCEPT !.seen = seen, !.pick = c, !.late = late]
  <2>3. m \in Notes /\ m.pick = c
    <3>1. memo[r] \in Notes
      BY NotesOf DEF IInv
    <3>2. QED
      BY <2>1, <3>1 DEF Notes
  <2>4. Remember(r, m)
    BY <1>2
  <2> HIDE DEF m
  <2>5. Chosen(r)' = c
    BY <2>3, <2>4, RememberEffect DEF IInv, Chosen
  <2>6. ChallengeRow(Chosen(r))' \in Reserved(r)'
    BY <2>2, <2>5 DEF Went, ChallengeRow
  <2>7. task'[r].kind = "confirm" /\ pc'[r] = "choosing"
    BY <2>2 DEF OthersRest, Went
  <2>8. PointOf(r)'
    BY <2>7 DEF PointOf, RequestPoints, ConfirmPoints, FinalPoints
  <2>9. PickOf(r)'
    BY <2>1, <2>5, <2>6, <2>7 DEF PickOf, FinalPoints
  <2>10. UserLockOf(r)'
    BY <2>7 DEF UserLockOf, FinalPoints
  <2>11. HoldsOf(r)'
    BY <2>8, <2>9, <2>10 DEF HoldsOf
  <2>12. QED
    BY <2>2, <2>3, <2>4, <2>11, ReadingStep
<1>3. QED
  BY <1>1, <1>2 DEF Choose

LEMMA SearchHolds ==
  ASSUME IInv, NEW r \in Request, Search(r)
  PROVE  IInv'
<1> DEFINE late == {c \in Challenge : age[c] > 0}
<1>1. /\ At(r, "idle") /\ task[r].kind = "confirm" /\ UNCHANGED <<tables, age>>
      /\ Choose(r, OpenFor(task[r].phone), late)
  BY DEF Search
<1>2. ~ Ended(r)
  BY <1>1 DEF At, Ended
<1>3. late \in SUBSET Challenge /\ OpenFor(task[r].phone) \in SUBSET Challenge
  BY OpenChallenges
<1> HIDE DEF late
<1>4. QED
  BY <1>1, <1>2, <1>3, ChooseHolds

\* What holds while a confirmation goes on with the challenge it has chosen.
LEMMA ConfirmHolds ==
  ASSUME IInv, NEW r \in Request, pc[r] \in ConfirmPoints
  PROVE  /\ task[r].kind = "confirm" /\ ~ Ended(r) /\ Chosen(r) \in Challenge
         /\ ChallengeRow(Chosen(r)) \in Reserved(r)
         /\ (pc[r] # "choosing" => ChallengeRow(Chosen(r)) \in held[r] /\ Open(Chosen(r)))
<1>1. PointOf(r) /\ PickOf(r)
  BY DEF IInv, HoldsInv, HoldsOf
<1>2. task[r].kind = "confirm"
  BY <1>1 DEF PointOf
<1>3. ~ Ended(r)
  BY DEF ConfirmPoints, Ended
<1>4. QED
  BY <1>1, <1>2, <1>3 DEF PickOf

\* r goes on with the open challenge that it holds.
LEMMA GoesOn ==
  ASSUME NEW r \in Request, task[r].kind = "confirm", UNCHANGED <<task, challenge>>,
         memo'[r].pick = memo[r].pick, pc'[r] \in ConfirmPoints \cup FinalPoints,
         Chosen(r) \in Challenge, Open(Chosen(r)), ChallengeRow(Chosen(r)) \in held[r],
         held'[r] = held[r], pc'[r] # "counting",
         pc'[r] \in {"setting"} \cup FinalPoints => challenge[Chosen(r)].user # NoUser
  PROVE  PickOf(r)' /\ PointOf(r)'
<1>1. /\ Chosen(r)' = Chosen(r) /\ Open(Chosen(r))' = Open(Chosen(r))
      /\ ChallengeRow(Chosen(r))' = ChallengeRow(Chosen(r))
  BY SamePick
<1>2. held'[r] \subseteq Reserved(r)'
  BY DEF Reserved
<1>3. PickOf(r)'
  BY <1>1, <1>2 DEF PickOf
<1>4. pc'[r] \notin RequestPoints /\ pc'[r] \notin {"changing", "issuing", "saving"}
  BY DEF RequestPoints, ConfirmPoints, FinalPoints
<1>5. PointOf(r)'
  BY <1>4 DEF PointOf
<1>6. QED
  BY <1>3, <1>5

LEMMA LookHolds ==
  ASSUME IInv, NEW r \in Request, Look(r)
  PROVE  IInv'
<1>1. At(r, "choosing") /\ UNCHANGED <<tables, age>>
  BY DEF Look
<1>2. pc[r] = "choosing" /\ Reserved(r) = held[r]
  BY <1>1, AtHolds
<1>3. /\ task[r].kind = "confirm" /\ ~ Ended(r) /\ Chosen(r) \in Challenge
      /\ ChallengeRow(Chosen(r)) \in held[r]
  BY <1>2, ConfirmHolds DEF ConfirmPoints
<1>4. CASE Open(Chosen(r))
  <2>1. Goto(r, "judging", << >>) /\ memo' = memo
    BY <1>4 DEF Look
  <2>2. Locks' /\ OthersRest(r) /\ Went(r, "choosing", "judging", {})
    BY <1>1, <2>1, WentNowhere DEF IInv
  <2>3. challenge' = challenge
    BY <1>1 DEF tables
  <2>4. pc'[r] = "judging" /\ held'[r] = held[r] /\ task' = task
    BY <2>2 DEF Went, OthersRest
  <2>5. pc'[r] \in ConfirmPoints \cup FinalPoints /\ pc'[r] \notin {"setting"} \cup FinalPoints
    BY <2>4 DEF ConfirmPoints, FinalPoints
  <2>6. PickOf(r)' /\ PointOf(r)'
    BY <1>3, <1>4, <2>1, <2>3, <2>4, <2>5, GoesOn
  <2>7. UserLockOf(r)'
    BY <2>4 DEF UserLockOf, FinalPoints
  <2>8. HoldsOf(r)'
    BY <2>6, <2>7 DEF HoldsOf
  <2>9. QED
    BY <1>1, <1>3, <2>1, <2>2, <2>8, ReadingStep
<1>5. CASE ~ Open(Chosen(r))
  <2> DEFINE seen == memo[r].seen \ {Chosen(r)}
             late == memo[r].late
  <2>1. Choose(r, seen, late)
    BY <1>5 DEF Look
  <2>2. seen \in SUBSET Challenge /\ late \in SUBSET Challenge
    BY NotesOf, NoteFields DEF IInv
  <2> HIDE DEF seen, late
  <2>3. QED
    BY <1>1, <1>3, <2>1, <2>2, ChooseHolds
<1>6. QED
  BY <1>4, <1>5

LEMMA JudgeHolds ==
  ASSUME IInv, NEW r \in Request, Judge(r)
  PROVE  IInv'
<1> DEFINE c == Chosen(r)
<1>1. At(r, "judging") /\ UNCHANGED <<tables, age>>
  BY DEF Judge
<1>2. pc[r] = "judging"
  BY <1>1, AtHolds
<1>3. /\ task[r].kind = "confirm" /\ ~ Ended(r) /\ c \in Challenge
      /\ ChallengeRow(c) \in held[r] /\ Open(c)
  BY <1>2, ConfirmHolds DEF ConfirmPoints
<1>4. challenge' = challenge
  BY <1>1 DEF tables
<1>5. /\ challenge[c].user \in User \cup {NoUser}
      /\ challenge[c].attempts \in Nat
  BY <1>3, RowFields DEF IInv, Types, Open
<1>6. CASE /\ Usable(r, c) /\ task[r].code # c /\ Goto(r, "counting", << >>)
           /\ Remember(r, [memo[r] EXCEPT !.count = challenge[c].attempts + 1])
  <2>1. Locks' /\ OthersRest(r) /\ Went(r, "judging", "counting", {})
    BY <1>1, <1>6, WentNowhere DEF IInv
  <2> DEFINE n == challenge[c].attempts + 1
             m == [memo[r] EXCEPT !.count = n]
  <2>2. m \in Notes /\ m.pick = memo[r].pick /\ m.count = n
    <3>1. n \in Nat
      BY <1>5
    <3> HIDE DEF n
    <3>2. QED
      BY <3>1, NotesOf, NoteFields DEF IInv
  <2>3. Remember(r, m)
    BY <1>6
  <2> HIDE DEF m
  <2>4. memo'[r].pick = memo[r].pick /\ memo'[r].count = n
    BY <2>2, <2>3, RememberEffect DEF IInv
  <2>5. pc'[r] = "counting" /\ held'[r] = held[r] /\ task' = task
    BY <2>1 DEF Went, OthersRest
  <2>6. /\ Chosen(r)' = c /\ Open(Chosen(r))' = Open(c)
        /\ ChallengeRow(Chosen(r))' = ChallengeRow(c)
    BY <1>4, <2>4, <2>5, SamePick
  <2>7. /\ memo'[r].count = challenge'[Chosen(r)'].attempts + 1
        /\ challenge'[Chosen(r)'].attempts < MaxAttempts
    BY <1>4, <1>6, <2>4, <2>6 DEF Usable
  <2>8. ChallengeRow(Chosen(r))' \in Reserved(r)'
    BY <1>3, <2>5, <2>6 DEF Reserved
  <2>9. PickOf(r)'
    BY <1>3, <2>5, <2>6, <2>7, <2>8 DEF PickOf, FinalPoints
  <2>10. PointOf(r)'
    BY <1>3, <2>5 DEF PointOf, RequestPoints, FinalPoints
  <2>11. UserLockOf(r)'
    BY <2>5 DEF UserLockOf, FinalPoints
  <2>12. HoldsOf(r)'
    BY <2>9, <2>10, <2>11 DEF HoldsOf
  <2>13. QED
    BY <1>1, <1>3, <2>1, <2>2, <2>3, <2>12, ReadingStep
<1>7. CASE /\ Usable(r, c) /\ memo' = memo
           /\ Goto(r, "setting", <<UserRow(challenge[c].user)>>)
  <2> DEFINE u == challenge[c].user
  <2>1. u \in User /\ u # NoUser
    BY <1>5, <1>7, PasswordAssumption DEF Usable
  <2>2. Locks' /\ OthersRest(r) /\ Went(r, "judging", "setting", {UserRow(u)})
    BY <1>1, <1>7, <2>1, RowsAreLockable, WentToOne DEF IInv
  <2>3. pc'[r] = "setting" /\ held'[r] = held[r] /\ task' = task
    BY <2>2 DEF Went, OthersRest
  <2>4. pc'[r] \in ConfirmPoints \cup FinalPoints
    BY <2>3 DEF ConfirmPoints
  <2>5. PickOf(r)' /\ PointOf(r)'
    BY <1>3, <1>4, <1>7, <2>1, <2>3, <2>4, GoesOn
  <2>6. UserRow(UserOf(r))' \in Reserved(r)'
    <3>1. UserRow(UserOf(r))' = UserRow(UserOf(r))
      BY <1>4, <1>7, <2>3, SamePick
    <3>2. UserOf(r) = u
      BY <1>3 DEF UserOf
    <3>3. QED
      BY <2>2, <3>1, <3>2 DEF Went
  <2>7. UserLockOf(r)'
    BY <2>3, <2>6 DEF UserLockOf, FinalPoints
  <2>8. HoldsOf(r)'
    BY <2>5, <2>7 DEF HoldsOf
  <2>9. QED
    BY <1>1, <1>3, <1>7, <2>2, <2>8, ReadingStep
<1>8. CASE Finish(r, "failed") /\ memo' = memo
  <2>1. memo' \in [Request -> Notes] /\ \A q \in Request \ {r} : memo'[q] = memo[q]
    BY <1>8 DEF IInv, Types
  <2>2. QED
    BY <1>1, <1>8, <2>1, RefusedStep
<1> DEFINE m == [memo[r] EXCEPT !.count = challenge[c].attempts + 1]
           rows == <<UserRow(challenge[c].user)>>
<1>9. \/ Usable(r, c) /\ task[r].code # c /\ Goto(r, "counting", << >>) /\ Remember(r, m)
      \/ /\ GotoIf(Usable(r, c) /\ task[r].new \notin Weak, r, "setting", rows)
         /\ memo' = memo
  BY Zenon DEF Judge
<1>10. GotoIf(Usable(r, c) /\ task[r].new \notin Weak, r, "setting", rows) =>
         (Usable(r, c) /\ Goto(r, "setting", rows)) \/ Finish(r, "failed")
  BY Zenon DEF GotoIf
<1>11. QED
  BY <1>6, <1>7, <1>8, <1>9, <1>10, Zenon

LEMMA CloseOthersHolds ==
  ASSUME IInv, NEW r \in Request, CloseOthers(r)
  PROVE  IInv'
<1>1. At(r, "setting") /\ UNCHANGED <<tables, age, memo>>
  BY DEF CloseOthers
<1>2. PICK S \in SUBSET Challenge :
        \E rows \in Orders({ChallengeRow(c) : c \in S}) : Goto(r, "listing", rows)
  <2>1. OpenFor(task[r].phone) \ {Chosen(r)} \in SUBSET Challenge
    BY OpenChallenges
  <2>2. QED
    BY <2>1 DEF CloseOthers
<1>3. PICK rows \in Orders({ChallengeRow(c) : c \in S}) : Goto(r, "listing", rows)
  BY <1>2
<1>4. rows \in Seq(Lockable)
  BY RowsOfChallenges
<1>5. /\ Locks' /\ OthersRest(r) /\ pc[r] = "setting" /\ pc'[r] = "listing"
      /\ held'[r] = held[r] /\ Reserved(r) = held[r] /\ task' = task
  BY <1>1, <1>3, <1>4, WentBy DEF IInv, Went, OthersRest
<1>6. /\ task[r].kind = "confirm" /\ ~ Ended(r) /\ Chosen(r) \in Challenge
      /\ ChallengeRow(Chosen(r)) \in held[r] /\ Open(Chosen(r))
  BY <1>5, ConfirmHolds DEF ConfirmPoints
<1>7. /\ challenge[Chosen(r)].user # NoUser
      /\ UserRow(UserOf(r)) \in held[r]
  BY <1>5, <1>6 DEF IInv, HoldsInv, HoldsOf, PickOf, UserLockOf, ConfirmPoints
<1>8. challenge' = challenge /\ memo' = memo
  BY <1>1 DEF tables
<1>9. PickOf(r)' /\ PointOf(r)'
  <2>1. pc'[r] \in ConfirmPoints \cup FinalPoints
    BY <1>5 DEF FinalPoints
  <2>2. QED
    BY <1>5, <1>6, <1>7, <1>8, <2>1, GoesOn
<1>10. UserLockOf(r)'
  <2>1. UserRow(UserOf(r))' = UserRow(UserOf(r))
    BY <1>5, <1>8, SamePick
  <2>2. task'[r].kind # "change"
    BY <1>5, <1>6
  <2>3. QED
    BY <1>5, <1>7, <2>1, <2>2 DEF UserLockOf, FinalPoints
<1>11. HoldsOf(r)'
  BY <1>9, <1>10 DEF HoldsOf
<1>12. QED
  BY <1>1, <1>5, <1>6, <1>8, <1>11, ReadingStep

\* A request that stays with the user it names.
LEMMA NamedUser ==
  ASSUME NEW r \in Request, task[r].kind # "confirm", task' = task
  PROVE  UserOf(r) = task[r].user /\ UserRow(UserOf(r))' = UserRow(task[r].user)
  BY DEF UserOf, UserRow

\* r goes on to a point where it only has to have locked its user.
LEMMA HoldsItsUser ==
  ASSUME NEW r \in Request, task' = task,
         \/ pc'[r] = "changing" /\ task[r].kind = "change"
         \/ pc'[r] = "issuing" /\ task[r].kind = "login"
         \/ /\ pc'[r] = "saving" /\ task[r].kind = "profile"
            /\ memo'[r].secret \in Password,
         UserRow(task[r].user) \in Reserved(r)'
  PROVE  HoldsOf(r)'
<1>1. task[r].kind # "confirm"
  OBVIOUS
<1>2. UserRow(UserOf(r))' \in Reserved(r)'
  BY <1>1, NamedUser
<1>3. /\ pc'[r] \notin RequestPoints /\ pc'[r] \notin ConfirmPoints
      /\ pc'[r] \notin FinalPoints /\ pc'[r] # "counting" /\ pc'[r] # "replacing"
  BY DEF RequestPoints, ConfirmPoints, FinalPoints
<1>4. PointOf(r)' /\ PickOf(r)' /\ UserLockOf(r)'
  BY <1>2, <1>3 DEF PointOf, PickOf, UserLockOf
<1>5. QED
  BY <1>4 DEF HoldsOf

LEMMA BeginChangeHolds ==
  ASSUME IInv, NEW r \in Request, BeginChange(r)
  PROVE  IInv'
<1>1. /\ At(r, "idle") /\ task[r].kind = "change" /\ UNCHANGED <<tables, age, memo>>
      /\ Goto(r, "changing", <<UserRow(task[r].user)>>)
  BY DEF BeginChange
<1>2. task[r].user \in User
  BY <1>1, TaskFields DEF IInv, Locks
<1>3. Locks' /\ OthersRest(r) /\ Went(r, "idle", "changing", {UserRow(task[r].user)})
  BY <1>1, <1>2, RowsAreLockable, WentToOne DEF IInv
<1>4. ~ Ended(r) /\ HoldsOf(r)'
  BY <1>1, <1>3, HoldsItsUser DEF Went, OthersRest, Ended
<1>5. QED
  BY <1>1, <1>3, <1>4, ReadingStep

LEMMA LoginHolds ==
  ASSUME IInv, NEW r \in Request, Login(r)
  PROVE  IInv'
<1>1. /\ At(r, "idle") /\ task[r].kind = "login" /\ UNCHANGED <<tables, age, memo>>
      /\ \/ Goto(r, "issuing", <<UserRow(task[r].user)>>)
         \/ Finish(r, "failed")
  BY DEF Login, GotoIf
<1>2. task[r].user \in User
  BY <1>1, TaskFields DEF IInv, Locks
<1>3. CASE Goto(r, "issuing", <<UserRow(task[r].user)>>)
  <2>1. Locks' /\ OthersRest(r) /\ Went(r, "idle", "issuing", {UserRow(task[r].user)})
    BY <1>1, <1>2, <1>3, RowsAreLockable, WentToOne DEF IInv
  <2>2. ~ Ended(r) /\ HoldsOf(r)'
    BY <1>1, <2>1, HoldsItsUser DEF Went, OthersRest, Ended
  <2>3. QED
    BY <1>1, <2>1, <2>2, ReadingStep
<1>4. CASE Finish(r, "failed")
  <2>1. memo' \in [Request -> Notes] /\ \A q \in Request \ {r} : memo'[q] = memo[q]
    BY <1>1 DEF IInv, Types
  <2>2. QED
    BY <1>1, <1>4, <2>1, RefusedStep
<1>5. QED
  BY <1>1, <1>3, <1>4

LEMMA LoadProfileHolds ==
  ASSUME IInv, NEW r \in Request, LoadProfile(r)
  PROVE  IInv'
<1> DEFINE x == password[task[r].user]
           m == [memo[r] EXCEPT !.secret = x]
<1>1. /\ At(r, "idle") /\ task[r].kind = "profile" /\ UNCHANGED <<tables, age>>
      /\ Goto(r, "saving", <<UserRow(task[r].user)>>) /\ Remember(r, m)
  BY DEF LoadProfile
<1>2. task[r].user \in User
  BY <1>1, TaskFields DEF IInv, Locks
<1>3. x \in Password
  BY <1>2 DEF IInv, Types, TypeOK
<1>4. m \in Notes /\ m.secret = x
  <2> HIDE DEF x
  <2>1. QED
    BY <1>3, NotesOf, NoteFields DEF IInv
<1> HIDE DEF m
<1>5. Locks' /\ OthersRest(r) /\ Went(r, "idle", "saving", {UserRow(task[r].user)})
  BY <1>1, <1>2, RowsAreLockable, WentToOne DEF IInv
<1>6. memo'[r].secret \in Password
  BY <1>1, <1>3, <1>4, RememberEffect DEF IInv
<1>7. ~ Ended(r) /\ HoldsOf(r)'
  BY <1>1, <1>5, <1>6, HoldsItsUser DEF Went, OthersRest, Ended
<1>8. QED
  BY <1>1, <1>4, <1>5, <1>7, ReadingStep

LEMMA CheckCurrentHolds ==
  ASSUME IInv, NEW r \in Request, CheckCurrent(r)
  PROVE  IInv'
<1>1. /\ At(r, "changing") /\ UNCHANGED <<tables, age, memo>>
      /\ \/ Goto(r, "listing", << >>) /\ password[task[r].user] = task[r].current
         \/ Finish(r, "failed")
  BY DEF CheckCurrent, GotoIf
<1>2. pc[r] = "changing" /\ Reserved(r) = held[r]
  BY <1>1, AtHolds
<1>3. task[r].kind = "change" /\ UserRow(UserOf(r)) \in held[r]
  BY <1>2 DEF IInv, HoldsInv, HoldsOf, PointOf, UserLockOf
<1>4. CASE Goto(r, "listing", << >>) /\ password[task[r].user] = task[r].current
  <2>1. /\ Locks' /\ OthersRest(r) /\ pc'[r] = "listing" /\ held'[r] = held[r]
        /\ task' = task
    BY <1>1, <1>4, WentNowhere DEF IInv, Went, OthersRest
  <2>2. UserRow(UserOf(r))' \in held'[r]
    BY <1>3, <2>1, NamedUser
  <2>3. password' = password
    BY <1>1 DEF tables
  <2>4. UserLockOf(r)'
    BY <1>4, <2>1, <2>2, <2>3 DEF UserLockOf
  <2>5. PointOf(r)' /\ PickOf(r)'
    BY <1>3, <2>1 DEF PointOf, PickOf, RequestPoints, ConfirmPoints
  <2>6. HoldsOf(r)' /\ ~ Ended(r)
    BY <1>2, <2>4, <2>5 DEF HoldsOf, Ended
  <2>7. QED
    BY <1>1, <2>1, <2>6, ReadingStep
<1>5. CASE Finish(r, "failed")
  <2>1. memo' \in [Request -> Notes] /\ \A q \in Request \ {r} : memo'[q] = memo[q]
    BY <1>1 DEF IInv, Types
  <2>2. QED
    BY <1>1, <1>5, <2>1, RefusedStep
<1>6. QED
  BY <1>1, <1>4, <1>5

LEMMA ListTokensHolds ==
  ASSUME IInv, NEW r \in Request, ListTokens(r)
  PROVE  IInv'
<1> DEFINE T == TokensOf(UserOf(r))
           m == [memo[r] EXCEPT !.tokens = T]
<1>1. /\ At(r, "listing") /\ UNCHANGED <<tables, age>>
      /\ Goto(r, "replacing", << >>) /\ Remember(r, m)
  BY DEF ListTokens
<1>2. /\ pc[r] = "listing" /\ Locks' /\ OthersRest(r) /\ pc'[r] = "replacing"
      /\ held'[r] = held[r] /\ task' = task
  BY <1>1, WentNowhere DEF IInv, Went, OthersRest
<1>3. m \in Notes /\ m.pick = memo[r].pick /\ m.tokens = T
  <2>1. T \in SUBSET Token
    BY DEF TokensOf
  <2> HIDE DEF T
  <2>2. QED
    BY <2>1, NotesOf, NoteFields DEF IInv
<1> HIDE DEF m
<1>4. memo'[r].pick = memo[r].pick /\ memo'[r].tokens = T
  BY <1>1, <1>3, RememberEffect DEF IInv
<1>5. UNCHANGED <<challenge, password, issued>>
  BY <1>1 DEF tables
<1>6. PointOf(r) /\ PickOf(r) /\ UserLockOf(r)
  BY DEF IInv, HoldsInv, HoldsOf
<1>7. /\ pc[r] \in FinalPoints /\ pc'[r] \in FinalPoints /\ pc[r] # "choosing"
      /\ pc'[r] \notin RequestPoints /\ pc'[r] \notin ConfirmPoints
  BY <1>2 DEF FinalPoints, RequestPoints, ConfirmPoints
<1>8. PointOf(r)'
  BY <1>2, <1>6, <1>7 DEF PointOf
<1>9. PickOf(r)'
  <2>1. CASE task[r].kind = "confirm"
    <3>1. /\ Chosen(r) \in Challenge /\ ChallengeRow(Chosen(r)) \in held[r]
          /\ Open(Chosen(r)) /\ challenge[Chosen(r)].user # NoUser
      BY <1>6, <1>7, <2>1 DEF PickOf
    <3>2. QED
      BY <1>2, <1>4, <1>5, <1>7, <2>1, <3>1, GoesOn
  <2>2. CASE task[r].kind # "confirm"
    BY <1>2, <2>2 DEF PickOf
  <2>3. QED
    BY <2>1, <2>2
<1>10. UserLockOf(r)'
  <2>1. /\ UserRow(UserOf(r))' = UserRow(UserOf(r)) /\ UserOf(r)' = UserOf(r)
    BY <1>2, <1>4, <1>5, SamePick
  <2>2. TokensOf(UserOf(r))' = T
    BY <1>5, <2>1 DEF TokensOf
  <2>3. QED
    BY <1>2, <1>4, <1>5, <1>6, <1>7, <2>1, <2>2 DEF UserLockOf
<1>11. HoldsOf(r)' /\ ~ Ended(r)
  BY <1>2, <1>8, <1>9, <1>10 DEF HoldsOf, Ended
<1>12. QED
  BY <1>1, <1>2, <1>3, <1>11, ReadingStep

LEMMA RollbackHolds ==
  ASSUME IInv, NEW r \in Request, Rollback(r)
  PROVE  IInv'
<1>1. Finish(r, "failed") /\ UNCHANGED <<tables, age, memo>>
  BY DEF Rollback, Crash, ResolveDeadlock
<1>2. memo' \in [Request -> Notes] /\ \A q \in Request \ {r} : memo'[q] = memo[q]
  BY <1>1 DEF IInv, Types
<1>3. QED
  BY <1>1, <1>2, RefusedStep

-----------------------------------------------------------------------------
(* The steps that change rows *)

LEMMA ClosedRow ==
  ASSUME NEW x \in Row
  PROVE  /\ [x EXCEPT !.consumed = TRUE] \in Row
         /\ [x EXCEPT !.consumed = TRUE].consumed = TRUE
         /\ [x EXCEPT !.consumed = TRUE].attempts = x.attempts
         /\ [x EXCEPT !.consumed = TRUE].user = x.user
         /\ [x EXCEPT !.consumed = TRUE].phone = x.phone
         /\ [x EXCEPT !.consumed = TRUE].ip = x.ip
  BY DEF Row

\* The challenges that r holds are consumed; the others stay as they are.
LEMMA ConsumedEffect ==
  ASSUME TypeOK, NEW r \in Request, NEW c \in Challenge
  PROVE  /\ Consumed(r)[c] \in Row \cup {NoRow}
         /\ ~ Exists(c) => Consumed(r)[c] = NoRow
         /\ ChallengeRow(c) \notin held[r] \/ ~ Open(c) => Consumed(r)[c] = challenge[c]
         /\ Exists(c) => /\ Consumed(r)[c] # NoRow
                         /\ Consumed(r)[c].attempts = challenge[c].attempts
                         /\ Consumed(r)[c].phone = challenge[c].phone
                         /\ Consumed(r)[c].ip = challenge[c].ip
         /\ Exists(c) /\ ChallengeRow(c) \in held[r] => Consumed(r)[c].consumed
<1>1. challenge[c] \in Row \cup {NoRow}
  BY DEF TypeOK
<1>2. CASE ChallengeRow(c) \in held[r] /\ Open(c)
  <2> DEFINE x == challenge[c]
             y == [x EXCEPT !.consumed = TRUE]
  <2>1. Consumed(r)[c] = y
    BY <1>2 DEF Consumed
  <2>2. x \in Row
    BY <1>1, <1>2 DEF Open, Exists
  <2>3. /\ y \in Row /\ y.consumed = TRUE /\ y.attempts = x.attempts
        /\ y.phone = x.phone /\ y.ip = x.ip
    BY <2>2, ClosedRow
  <2> HIDE DEF y
  <2>4. y # NoRow
    BY <2>3, PasswordAssumption
  <2>5. QED
    BY <1>2, <2>1, <2>3, <2>4 DEF Open
<1>3. CASE ~ (ChallengeRow(c) \in held[r] /\ Open(c))
  <2>1. Consumed(r)[c] = challenge[c]
    BY <1>3 DEF Consumed
  <2>2. QED
    BY <1>1, <1>3, <2>1 DEF Open, Exists
<1>4. QED
  BY <1>2, <1>3

LEMMA WritingStep ==
  ASSUME IInv, NEW r \in Request, NEW outcome \in {"done", "failed"},
         Finish(r, outcome), memo' = memo, Frame(r), TypeOK',
         \A c \in Challenge : challenge[c] = NoRow =>
           challenge'[c] = NoRow \/ (task[r].kind = "request" /\ c = task[r].id),
         \A tok \in Token : issued[tok] = NoRow =>
           issued'[tok] = NoRow \/ (task[r].kind = "login" /\ tok = task[r].token)
  PROVE  IInv'
<1>1. Locks' /\ OthersRest(r) /\ pc'[r] = outcome
  BY EndedBy DEF IInv
<1>2. HoldsOf(r)' /\ Ended(r)'
  BY <1>1, EndedHolds
<1>3. KeyFrame(r)
  BY <1>2 DEF KeyFrame
<1>4. Alone(r) /\ Types'
  BY <1>1 DEF Alone, IInv, Types
<1>5. QED
  BY <1>1, <1>2, <1>3, <1>4, StepHolds

\* What a request inserts in the end.
LEMMA CommitRequestEffect ==
  ASSUME IInv, NEW r \in Request, CommitRequest(r)
  PROVE  /\ task[r].kind = "request" /\ task[r].id \in Challenge
         /\ ~ Exists(task[r].id) /\ Finish(r, "done")
         /\ pc[r] \in {"sent", "unsent"} /\ Reserved(r) = held[r]
         /\ UNCHANGED <<created, password, issued, blacklist, age, memo, history>>
         /\ challenge' \in [Challenge -> Row \cup {NoRow}]
         /\ challenge'[task[r].id] \in Row
         /\ challenge'[task[r].id].attempts = 0 /\ ~ challenge'[task[r].id].consumed
         /\ challenge'[task[r].id].phone = task[r].phone
         /\ challenge'[task[r].id].ip = task[r].ip
         /\ \A c \in Challenge \ {task[r].id} : challenge'[c] = Consumed(r)[c]
<1> DEFINE id == task[r].id
<1>1. /\ At(r, "sent") \/ At(r, "unsent")
      /\ Finish(r, "done")
      /\ UNCHANGED <<created, password, issued, blacklist, age, memo, history>>
  BY DEF CommitRequest
<1>2. pc[r] \in {"sent", "unsent"} /\ Reserved(r) = held[r]
  BY <1>1, AtHolds
<1>3. task[r].kind = "request" /\ ~ Ended(r)
  BY <1>2 DEF IInv, HoldsInv, HoldsOf, PointOf, RequestPoints, Ended
<1>4. id \in Challenge /\ task[r].phone \in Phone /\ task[r].ip \in Ip
  BY <1>3, TaskFields DEF IInv, Locks
<1>5. ~ Exists(id)
  BY <1>3 DEF IInv, KeyInv, Exists
<1>6. PICK u \in User \cup {NoUser} :
        challenge' =
          [Consumed(r) EXCEPT ![id] =
             [user |-> u, phone |-> task[r].phone, ip |-> task[r].ip, attempts |-> 0,
              consumed |-> FALSE, sent |-> pc[r] = "sent", born |-> memo[r].count]]
  BY DEF CommitRequest, Owner
<1> DEFINE x == [user |-> u, phone |-> task[r].phone, ip |-> task[r].ip, attempts |-> 0,
                 consumed |-> FALSE, sent |-> pc[r] = "sent", born |-> memo[r].count]
<1>7. x \in Row /\ x.attempts = 0 /\ ~ x.consumed /\ x.phone = task[r].phone /\ x.ip = task[r].ip
  <2>1. memo[r].count \in Nat
    BY NotesOf, NoteFields DEF IInv
  <2>2. 0 \in 0..MaxAttempts
    BY PasswordAssumption
  <2>3. QED
    BY <1>4, <2>1, <2>2 DEF Row
<1>8. challenge' = [Consumed(r) EXCEPT ![id] = x]
  BY <1>6
<1>9. Consumed(r) \in [Challenge -> Row \cup {NoRow}]
  <2>1. \A c \in Challenge : Consumed(r)[c] \in Row \cup {NoRow}
    BY ConsumedEffect DEF IInv, Types
  <2>2. QED
    BY <2>1 DEF Consumed
<1> HIDE DEF x
<1>10. /\ challenge' \in [Challenge -> Row \cup {NoRow}] /\ challenge'[id] = x
       /\ \A c \in Challenge \ {id} : challenge'[c] = Consumed(r)[c]
  BY <1>4, <1>7, <1>8, <1>9
<1>11. QED
  BY <1>1, <1>2, <1>3, <1>4, <1>5, <1>7, <1>10

LEMMA CommitRequestHolds ==
  ASSUME IInv, NEW r \in Request, CommitRequest(r)
  PROVE  IInv'
<1> DEFINE id == task[r].id
<1>1. /\ task[r].kind = "request" /\ id \in Challenge /\ ~ Exists(id) /\ Finish(r, "done")
      /\ UNCHANGED <<created, password, issued, blacklist, age, memo>>
      /\ challenge' \in [Challenge -> Row \cup {NoRow}] /\ challenge'[id] \in Row
      /\ \A c \in Challenge \ {id} : challenge'[c] = Consumed(r)[c]
  BY CommitRequestEffect
<1>2. TypeOK
  BY DEF IInv, Types
<1>4. TypeOK'
  BY <1>1, <1>2 DEF TypeOK
<1>5. Frame(r)
  BY <1>1, <1>2, ConsumedEffect DEF Frame
<1>6. \A c \in Challenge : challenge[c] = NoRow =>
        challenge'[c] = NoRow \/ (task[r].kind = "request" /\ c = task[r].id)
  BY <1>1, <1>2, ConsumedEffect DEF Exists
<1>7. QED
  BY <1>1, <1>4, <1>5, <1>6, WritingStep

LEMMA CountedRow ==
  ASSUME NEW x \in Row, NEW n \in 0..MaxAttempts
  PROVE  /\ [x EXCEPT !.attempts = n] \in Row
         /\ [x EXCEPT !.attempts = n].attempts = n
         /\ [x EXCEPT !.attempts = n].consumed = x.consumed
         /\ [x EXCEPT !.attempts = n].phone = x.phone
         /\ [x EXCEPT !.attempts = n].ip = x.ip
  BY DEF Row

\* A wrong code is counted in the open row that was judged.
LEMMA CountGuessEffect ==
  ASSUME IInv, NEW r \in Request, CountGuess(r)
  PROVE  /\ Chosen(r) \in Challenge /\ ChallengeRow(Chosen(r)) \in held[r]
         /\ Open(Chosen(r)) /\ Finish(r, "failed") /\ pc[r] = "counting"
         /\ UNCHANGED <<created, password, issued, blacklist, age, memo,
                        uses, crowded, excused>>
         /\ guesses' = [guesses EXCEPT ![Chosen(r)] = @ + 1]
         /\ challenge' \in [Challenge -> Row \cup {NoRow}]
         /\ \A c \in Challenge \ {Chosen(r)} : challenge'[c] = challenge[c]
         /\ challenge'[Chosen(r)] \in Row
         /\ challenge'[Chosen(r)].attempts = challenge[Chosen(r)].attempts + 1
         /\ challenge'[Chosen(r)].consumed = challenge[Chosen(r)].consumed
         /\ challenge'[Chosen(r)].phone = challenge[Chosen(r)].phone
         /\ challenge'[Chosen(r)].ip = challenge[Chosen(r)].ip
<1> DEFINE c == Chosen(r)
           n == memo[r].count
           x == challenge[c]
           y == [x EXCEPT !.attempts = n]
<1>1. /\ At(r, "counting") /\ Finish(r, "failed")
      /\ UNCHANGED <<created, password, issued, blacklist, age, memo,
                     uses, crowded, excused>>
      /\ guesses' = [guesses EXCEPT ![Chosen(r)] = @ + 1]
  BY DEF CountGuess
<1>2. challenge' = [challenge EXCEPT ![c] = y]
  BY DEF CountGuess
<1>3. pc[r] = "counting"
  BY <1>1, AtHolds
<1>4. c \in Challenge /\ ChallengeRow(c) \in held[r] /\ Open(c)
  BY <1>3, ConfirmHolds DEF ConfirmPoints
<1>5. n = x.attempts + 1 /\ x.attempts < MaxAttempts
  BY <1>3 DEF IInv, HoldsInv, HoldsOf, PickOf
<1>6. x \in Row /\ x.attempts \in Nat
  BY <1>4, RowFields DEF IInv, Types, Open
<1>7. n \in 0..MaxAttempts
  BY <1>5, <1>6, PasswordAssumption
<1>8. /\ y \in Row /\ y.attempts = n /\ y.consumed = x.consumed
      /\ y.phone = x.phone /\ y.ip = x.ip
  <2> HIDE DEF n, x
  <2>1. QED
    BY <1>6, <1>7, CountedRow
<1>9. challenge \in [Challenge -> Row \cup {NoRow}]
  BY DEF IInv, Types, TypeOK
<1>10. /\ challenge' \in [Challenge -> Row \cup {NoRow}] /\ challenge'[c] = y
       /\ \A d \in Challenge \ {c} : challenge'[d] = challenge[d]
  <2> HIDE DEF y
  <2>1. QED
    BY <1>2, <1>4, <1>8, <1>9
<1> HIDE DEF y
<1>11. QED
  BY <1>1, <1>3, <1>4, <1>5, <1>8, <1>10

LEMMA CountGuessHolds ==
  ASSUME IInv, NEW r \in Request, CountGuess(r)
  PROVE  IInv'
<1>1. /\ Chosen(r) \in Challenge /\ ChallengeRow(Chosen(r)) \in held[r]
      /\ Open(Chosen(r)) /\ Finish(r, "failed")
      /\ UNCHANGED <<created, password, issued, blacklist, age, memo>>
      /\ challenge' \in [Challenge -> Row \cup {NoRow}]
      /\ \A c \in Challenge \ {Chosen(r)} : challenge'[c] = challenge[c]
  BY CountGuessEffect
<1>2. Frame(r)
  BY <1>1 DEF Frame
<1>3. TypeOK'
  BY <1>1 DEF IInv, Types, TypeOK
<1>4. /\ \A c \in Challenge : challenge[c] = NoRow => challenge'[c] = NoRow
      /\ issued' = issued
  BY <1>1 DEF Open, Exists
<1>5. QED
  BY <1>1, <1>2, <1>3, <1>4, WritingStep

\* Whoever replaces a password holds its user, and lists the tokens to revoke.
LEMMA CommitPasswordEffect ==
  ASSUME IInv, NEW r \in Request, CommitPassword(r)
  PROVE  /\ UserOf(r) \in User /\ UserRow(UserOf(r)) \in held[r]
         /\ task[r].kind \in {"confirm", "change"} /\ task[r].new \in Password
         /\ pc[r] = "replacing" /\ Finish(r, "done")
         /\ memo[r].tokens = TokensOf(UserOf(r))
         /\ UNCHANGED <<created, issued, age, memo, guesses, crowded>>
         /\ password' = [password EXCEPT ![UserOf(r)] = task[r].new]
         /\ blacklist' = blacklist \cup memo[r].tokens
         /\ excused' = excused \cup InFlight(UserOf(r))
         /\ IF task[r].kind = "confirm"
            THEN /\ Chosen(r) \in Challenge /\ Open(Chosen(r))
                 /\ ChallengeRow(Chosen(r)) \in held[r]
                 /\ challenge' = Consumed(r)
                 /\ uses' = [uses EXCEPT ![Chosen(r)] = @ \cup {r}]
            ELSE UNCHANGED <<challenge, uses>>
         /\ challenge' \in [Challenge -> Row \cup {NoRow}]
<1>1. /\ At(r, "replacing") /\ Finish(r, "done")
      /\ UNCHANGED <<created, issued, age, memo, guesses, crowded>>
      /\ password' = [password EXCEPT ![UserOf(r)] = task[r].new]
      /\ blacklist' = blacklist \cup memo[r].tokens
      /\ excused' = excused \cup InFlight(UserOf(r))
      /\ IF task[r].kind = "confirm"
         THEN /\ challenge' = Consumed(r)
              /\ uses' = [uses EXCEPT ![Chosen(r)] = @ \cup {r}]
         ELSE UNCHANGED <<challenge, uses>>
  BY DEF CommitPassword
<1>2. pc[r] = "replacing" /\ pc[r] \in FinalPoints /\ pc[r] # "choosing"
  BY <1>1, AtHolds DEF FinalPoints
<1>3. PointOf(r) /\ PickOf(r) /\ UserLockOf(r)
  BY DEF IInv, HoldsInv, HoldsOf
<1>4. task[r].kind \in {"confirm", "change"}
  BY <1>2, <1>3 DEF PointOf
<1>5. UserRow(UserOf(r)) \in held[r] /\ memo[r].tokens = TokensOf(UserOf(r))
  BY <1>2, <1>3 DEF UserLockOf
<1>6. ASSUME task[r].kind = "confirm"
      PROVE  /\ Chosen(r) \in Challenge /\ Open(Chosen(r))
             /\ ChallengeRow(Chosen(r)) \in held[r]
             /\ challenge[Chosen(r)].user # NoUser
  BY <1>2, <1>3, <1>6 DEF PickOf
<1>7. UserOf(r) \in User
  <2>1. CASE task[r].kind = "confirm"
    <3>1. challenge[Chosen(r)].user \in User \cup {NoUser}
      BY <1>6, <2>1, RowFields DEF IInv, Types, Open
    <3>2. QED
      BY <1>6, <2>1, <3>1 DEF UserOf
  <2>2. CASE task[r].kind = "change"
    BY <2>2, TaskFields DEF UserOf, IInv, Locks
  <2>3. QED
    BY <1>4, <2>1, <2>2
<1>8. task[r].new \in Password
  BY <1>4, TaskFields DEF IInv, Locks
<1>9. challenge' \in [Challenge -> Row \cup {NoRow}]
  <2>1. challenge \in [Challenge -> Row \cup {NoRow}]
    BY DEF IInv, Types, TypeOK
  <2>2. \A c \in Challenge : Consumed(r)[c] \in Row \cup {NoRow}
    BY ConsumedEffect DEF IInv, Types
  <2>3. Consumed(r) \in [Challenge -> Row \cup {NoRow}]
    BY <2>2 DEF Consumed
  <2>4. QED
    BY <1>1, <2>1, <2>3
<1>10. QED
  BY <1>1, <1>2, <1>4, <1>5, <1>6, <1>7, <1>8, <1>9

LEMMA CommitPasswordHolds ==
  ASSUME IInv, NEW r \in Request, CommitPassword(r)
  PROVE  IInv'
<1>1. /\ UserOf(r) \in User /\ UserRow(UserOf(r)) \in held[r] /\ task[r].new \in Password
      /\ Finish(r, "done") /\ memo[r].tokens = TokensOf(UserOf(r))
      /\ UNCHANGED <<created, issued, age, memo>>
      /\ password' = [password EXCEPT ![UserOf(r)] = task[r].new]
      /\ blacklist' = blacklist \cup memo[r].tokens
      /\ challenge' \in [Challenge -> Row \cup {NoRow}]
  BY CommitPasswordEffect
<1>2. challenge' = challenge \/ challenge' = Consumed(r)
  BY CommitPasswordEffect
<1>3. TypeOK
  BY DEF IInv, Types
<1>4. memo[r].tokens \subseteq Token
  BY <1>1 DEF TokensOf
<1>5. password' \in [User -> Password]
      /\ \A u \in User \ {UserOf(r)} : password'[u] = password[u]
  BY <1>1, <1>3 DEF TypeOK
<1>6. TypeOK'
  BY <1>1, <1>3, <1>4, <1>5 DEF TypeOK
<1>7. \A c \in Challenge :
        /\ Exists(c) /\ ChallengeRow(c) \notin held[r] => challenge'[c] = challenge[c]
        /\ ~ Exists(c) => challenge'[c] = NoRow
  BY <1>2, <1>3, ConsumedEffect DEF Exists
<1>8. Frame(r)
  BY <1>1, <1>5, <1>7 DEF Frame
<1>9. /\ \A c \in Challenge : challenge[c] = NoRow => challenge'[c] = NoRow
      /\ issued' = issued
  BY <1>1, <1>7 DEF Exists
<1>10. QED
  BY <1>1, <1>6, <1>8, <1>9, WritingStep

\* A token is made for a user that is locked, under a new key.
LEMMA IssueTokenEffect ==
  ASSUME IInv, NEW r \in Request, IssueToken(r)
  PROVE  /\ task[r].kind = "login" /\ pc[r] = "issuing" /\ Finish(r, "done")
         /\ task[r].user \in User /\ UserRow(task[r].user) \in held[r]
         /\ task[r].token \in Token /\ issued[task[r].token] = NoRow
         /\ UNCHANGED <<challenge, created, password, blacklist, age, memo, history>>
         /\ issued' \in [Token -> [user: User, secret: Password] \cup {NoRow}]
         /\ issued'[task[r].token].user = task[r].user
         /\ issued'[task[r].token].secret = task[r].secret
         /\ \A tok \in Token \ {task[r].token} : issued'[tok] = issued[tok]
<1> DEFINE tok == task[r].token
           x == [user |-> task[r].user, secret |-> task[r].secret]
<1>1. /\ At(r, "issuing") /\ Finish(r, "done")
      /\ UNCHANGED <<challenge, created, password, blacklist, age, memo, history>>
      /\ issued' = [issued EXCEPT ![tok] = x]
  BY DEF IssueToken
<1>2. pc[r] = "issuing" /\ Reserved(r) = held[r]
  BY <1>1, AtHolds
<1>3. task[r].kind = "login" /\ ~ Ended(r)
  BY <1>2 DEF IInv, HoldsInv, HoldsOf, PointOf, Ended
<1>4. task[r].user \in User /\ tok \in Token /\ task[r].secret \in Password
  BY <1>3, TaskFields DEF IInv, Locks
<1>5. UserRow(task[r].user) \in held[r]
  BY <1>2, <1>3 DEF IInv, HoldsInv, HoldsOf, UserLockOf, UserOf
<1>6. issued[tok] = NoRow
  BY <1>3 DEF IInv, KeyInv
<1>7. /\ x \in [user: User, secret: Password] /\ x.user = task[r].user
      /\ x.secret = task[r].secret
  BY <1>4
<1>8. issued \in [Token -> [user: User, secret: Password] \cup {NoRow}]
  BY DEF IInv, Types, TypeOK
<1> DEFINE R == [user: User, secret: Password]
<1> HIDE DEF x, R
<1>9. /\ issued' \in [Token -> R \cup {NoRow}] /\ issued'[tok] = x
      /\ \A t \in Token \ {tok} : issued'[t] = issued[t]
  BY <1>1, <1>4, <1>7, <1>8 DEF R
<1>10. QED
  BY <1>1, <1>2, <1>3, <1>4, <1>5, <1>6, <1>7, <1>9 DEF R

LEMMA IssueTokenHolds ==
  ASSUME IInv, NEW r \in Request, IssueToken(r)
  PROVE  IInv'
<1>1. /\ task[r].kind = "login" /\ Finish(r, "done")
      /\ UserRow(task[r].user) \in held[r]
      /\ task[r].token \in Token /\ issued[task[r].token] = NoRow
      /\ UNCHANGED <<challenge, created, password, blacklist, age, memo>>
      /\ issued' \in [Token -> [user: User, secret: Password] \cup {NoRow}]
      /\ issued'[task[r].token].user = task[r].user
      /\ \A tok \in Token \ {task[r].token} : issued'[tok] = issued[tok]
  BY IssueTokenEffect
<1>2. TypeOK'
  BY <1>1 DEF IInv, Types, TypeOK
<1>3. Frame(r)
  BY <1>1 DEF Frame
<1>4. QED
  BY <1>1, <1>2, <1>3, WritingStep

LEMMA LogoutHolds ==
  ASSUME IInv, NEW r \in Request, Logout(r)
  PROVE  IInv'
<1>1. /\ task[r].kind = "logout" /\ Finish(r, "done")
      /\ UNCHANGED <<challenge, created, password, issued, age, memo>>
      /\ blacklist' \subseteq blacklist \cup {task[r].token}
  BY DEF Logout
<1>2. task[r].token \in Token
  BY <1>1, TaskFields DEF IInv, Locks
<1>3. TypeOK'
  BY <1>1, <1>2 DEF IInv, Types, TypeOK
<1>4. Frame(r)
  BY <1>1 DEF Frame
<1>5. QED
  BY <1>1, <1>3, <1>4, WritingStep

LEMMA SaveProfileHolds ==
  ASSUME IInv, NEW r \in Request, SaveProfile(r)
  PROVE  IInv'
<1> DEFINE u == task[r].user
<1>1. /\ At(r, "saving") /\ Finish(r, "done")
      /\ UNCHANGED <<challenge, created, issued, blacklist, age, memo>>
      /\ password' = [password EXCEPT ![u] = memo[r].secret]
  BY DEF SaveProfile
<1>2. pc[r] = "saving" /\ Reserved(r) = held[r]
  BY <1>1, AtHolds
<1>3. /\ task[r].kind = "profile" /\ UserRow(u) \in held[r]
      /\ memo[r].secret \in Password
  BY <1>2 DEF IInv, HoldsInv, HoldsOf, PointOf, UserLockOf, UserOf
<1>4. u \in User
  BY <1>3, TaskFields DEF IInv, Locks
<1>5. /\ password' \in [User -> Password]
      /\ \A v \in User \ {u} : password'[v] = password[v]
  BY <1>1, <1>3, <1>4 DEF IInv, Types, TypeOK
<1>6. TypeOK'
  BY <1>1, <1>5 DEF IInv, Types, TypeOK
<1>7. Frame(r)
  BY <1>1, <1>3, <1>5 DEF Frame
<1>8. QED
  BY <1>1, <1>6, <1>7, WritingStep

-----------------------------------------------------------------------------
(* Time, the start and every step *)

LEMMA GrowOlderHolds ==
  ASSUME IInv, NEW c \in Challenge, GrowOlder(c)
  PROVE  IInv'
<1>1. UNCHANGED <<transaction, challenge, created, password, issued, blacklist, memo>>
  BY DEF GrowOlder, tables
<1>2. age' \in [Challenge -> 0..2]
  <2>1. age[c] \in 0..2 /\ age[c] < 2 /\ age' = [age EXCEPT ![c] = age[c] + 1]
    BY DEF GrowOlder, IInv, Types, TypeOK
  <2>2. age[c] + 1 \in 0..2
    BY <2>1
  <2>3. QED
    BY <2>1, <2>2 DEF IInv, Types, TypeOK
<1>3. Types'
  BY <1>1, <1>2 DEF IInv, Types, TypeOK
<1>4. Locks' /\ KeyInv'
  BY <1>1 DEF transaction, IInv, Locks, LocksInv, KeyInv, Ended
<1>5. \A r \in Request : HoldsOf(r)'
  <2> SUFFICES ASSUME NEW r \in Request PROVE HoldsOf(r)'
    OBVIOUS
  <2>1. PointOf(r) /\ PickOf(r) /\ UserLockOf(r)
    BY DEF IInv, HoldsInv, HoldsOf
  <2>2. /\ UNCHANGED <<task, pc, held, plan>> /\ Reserved(r)' = Reserved(r)
    BY <1>1 DEF transaction, Reserved
  <2>3. /\ Chosen(r)' = Chosen(r) /\ UserOf(r)' = UserOf(r)
        /\ Open(Chosen(r))' = Open(Chosen(r))
        /\ ChallengeRow(Chosen(r))' = ChallengeRow(Chosen(r))
        /\ UserRow(UserOf(r))' = UserRow(UserOf(r))
    BY <1>1, <2>2, SamePick
  <2>4. TokensOf(UserOf(r))' = TokensOf(UserOf(r))
    BY <1>1, <2>3 DEF TokensOf
  <2>5. PointOf(r)'
    BY <2>1, <2>2 DEF PointOf
  <2>6. PickOf(r)'
    BY <1>1, <2>1, <2>2, <2>3 DEF PickOf
  <2>7. UserLockOf(r)'
    BY <1>1, <2>1, <2>2, <2>3, <2>4 DEF UserLockOf
  <2>8. QED
    BY <2>5, <2>6, <2>7 DEF HoldsOf
<1>6. QED
  BY <1>3, <1>4, <1>5 DEF IInv, HoldsInv

LEMMA InitHolds == Init => IInv
<1> SUFFICES ASSUME Init PROVE IInv
  OBVIOUS
<1>1. Locks /\ \A r \in Request : pc[r] = "idle"
  BY LocksInit DEF Init, Locks
<1>2. TypeOK
  <2>1. challenge \in [Challenge -> Row \cup {NoRow}]
    BY PasswordAssumption DEF Init
  <2>2. created \in Nat
    <3>1. IsFiniteSet({c \in Challenge : Exists(c)})
      BY PasswordAssumption, FS_Subset
    <3>2. QED
      BY <3>1, FS_CardinalityType DEF Init
  <2>3. age \in [Challenge -> 0..2] /\ password \in [User -> Password]
    BY PasswordAssumption DEF Init
  <2>4. /\ issued \in [Token -> [user: User, secret: Password] \cup {NoRow}]
        /\ blacklist \subseteq Token
    BY DEF Init
  <2>5. QED
    BY <2>1, <2>2, <2>3, <2>4 DEF TypeOK
<1>3. memo \in [Request -> Notes]
  <2>1. Nothing \in Notes
    BY DEF Nothing, Notes
  <2>2. QED
    BY <2>1 DEF Init
<1>4. HoldsInv
  <2> SUFFICES ASSUME NEW r \in Request PROVE HoldsOf(r)
    BY DEF HoldsInv
  <2>1. pc[r] = "idle"
    BY <1>1
  <2>2. /\ pc[r] \notin RequestPoints /\ pc[r] \notin ConfirmPoints
        /\ pc[r] \notin FinalPoints
    BY <2>1 DEF RequestPoints, ConfirmPoints, FinalPoints
  <2>3. QED
    BY <2>1, <2>2 DEF HoldsOf, PointOf, PickOf, UserLockOf
<1>5. KeyInv
  <2>1. task \in Traffic /\ challenge \in FirstChallenges
        /\ issued = [tok \in Token |-> NoRow]
    BY DEF Init, AtRest
  <2>2. \A r \in Request : task[r].kind = "request" => challenge[task[r].id] = NoRow
    BY <2>1, FreshKeys
  <2>3. \A r \in Request : task[r].kind = "login" => issued[task[r].token] = NoRow
    BY <2>1, TaskFields
  <2>4. QED
    BY <2>2, <2>3 DEF KeyInv
<1>6. QED
  BY <1>1, <1>2, <1>3, <1>4, <1>5 DEF IInv, Types

LEMMA StutterHolds ==
  ASSUME IInv, UNCHANGED vars
  PROVE  IInv'
<1>1. /\ UNCHANGED <<transaction, challenge, created, password, issued, blacklist>>
      /\ UNCHANGED <<age, memo>>
  BY DEF vars, tables
<1>2. Types'
  BY <1>1 DEF IInv, Types, TypeOK
<1>3. Locks' /\ KeyInv'
  BY <1>1 DEF transaction, IInv, Locks, LocksInv, KeyInv, Ended
<1>4. HoldsInv'
  <2>1. \A r \in Request : HoldsOf(r)' = HoldsOf(r)
    BY <1>1 DEF transaction, HoldsOf, PointOf, PickOf, UserLockOf, Reserved, Chosen,
                Open, Exists, UserOf, TokensOf, ChallengeRow, UserRow
  <2>2. QED
    BY <2>1 DEF IInv, HoldsInv
<1>5. QED
  BY <1>2, <1>3, <1>4 DEF IInv

LEMMA HandleHolds ==
  ASSUME IInv, NEW r \in Request, Handle(r)
  PROVE  IInv'
  BY AcquireHolds, CountHolds, CloseHolds, SendCodeHolds, CommitRequestHolds,
     SearchHolds, LookHolds, JudgeHolds, CountGuessHolds, CloseOthersHolds,
     BeginChangeHolds, CheckCurrentHolds, ListTokensHolds, CommitPasswordHolds,
     LoginHolds, IssueTokenHolds, LogoutHolds, LoadProfileHolds, SaveProfileHolds
     DEF Handle

LEMMA NextHolds == IInv /\ [Next]_vars => IInv'
  BY HandleHolds, RollbackHolds, GrowOlderHolds, StutterHolds DEF Next, Finished

-----------------------------------------------------------------------------
(* What the other variables may do in a step *)

LEMMA ReadersEffect ==
  ASSUME NEW r \in Request,
         \/ Acquire(r) /\ UNCHANGED <<tables, age, memo, history>>
         \/ Close(r) \/ Search(r) \/ Look(r) \/ Judge(r) \/ CloseOthers(r)
         \/ BeginChange(r) \/ CheckCurrent(r) \/ ListTokens(r)
         \/ Login(r) \/ LoadProfile(r) \/ Rollback(r)
  PROVE  UNCHANGED <<challenge, password, issued, blacklist, age,
                     guesses, uses, crowded, excused>>
<1>1. UNCHANGED <<tables, age, history>>
  BY DEF Close, Search, Look, Judge, CloseOthers, BeginChange, CheckCurrent,
         ListTokens, Login, LoadProfile, Rollback
<1>2. QED
  BY <1>1 DEF tables, history

\* The actions that change each of the tables and histories.
LEMMA WhoWrites ==
  ASSUME [Next]_vars
  PROVE  /\ \/ UNCHANGED <<challenge, guesses, uses>>
            \/ \E r \in Request : CommitRequest(r) \/ CountGuess(r) \/ CommitPassword(r)
         /\ \/ password' = password
            \/ \E r \in Request : CommitPassword(r) \/ SaveProfile(r)
         /\ issued' = issued \/ \E r \in Request : IssueToken(r)
         /\ crowded' = crowded \/ \E r \in Request : Count(r)
         /\ age' = age \/ \E c \in Challenge : GrowOlder(c)
         /\ blacklist \subseteq blacklist' /\ excused \subseteq excused'
         /\ crowded \subseteq crowded'
<1>1. CASE UNCHANGED vars
  BY <1>1 DEF vars, tables, history
<1>2. ASSUME NEW c \in Challenge, GrowOlder(c)
      PROVE  UNCHANGED <<challenge, password, issued, blacklist,
                         guesses, uses, crowded, excused>>
  BY <1>2 DEF GrowOlder, tables, history
<1>3. ASSUME NEW r \in Request, Count(r)
      PROVE  /\ UNCHANGED <<challenge, password, issued, blacklist, age,
                            guesses, uses, excused>>
             /\ crowded \subseteq crowded'
  BY <1>3 DEF Count, tables
<1>4. ASSUME NEW r \in Request, SendCode(r)
      PROVE  UNCHANGED <<challenge, password, issued, blacklist, age,
                         guesses, uses, crowded, excused>>
  BY <1>4 DEF SendCode, history
<1>5. ASSUME NEW r \in Request, CommitRequest(r)
      PROVE  UNCHANGED <<password, issued, blacklist, age,
                         guesses, uses, crowded, excused>>
  BY <1>5 DEF CommitRequest, history
<1>6. ASSUME NEW r \in Request, CountGuess(r)
      PROVE  UNCHANGED <<password, issued, blacklist, age, uses, crowded, excused>>
  BY <1>6 DEF CountGuess
<1>7. ASSUME NEW r \in Request, CommitPassword(r)
      PROVE  /\ UNCHANGED <<issued, age, guesses, crowded>>
             /\ blacklist \subseteq blacklist' /\ excused \subseteq excused'
  BY <1>7 DEF CommitPassword
<1>8. ASSUME NEW r \in Request, IssueToken(r)
      PROVE  UNCHANGED <<challenge, password, blacklist, age,
                         guesses, uses, crowded, excused>>
  BY <1>8 DEF IssueToken, history
<1>9. ASSUME NEW r \in Request, Logout(r)
      PROVE  /\ UNCHANGED <<challenge, password, issued, age,
                            guesses, uses, crowded, excused>>
             /\ blacklist \subseteq blacklist'
  BY <1>9 DEF Logout, history
<1>10. ASSUME NEW r \in Request, SaveProfile(r)
       PROVE  /\ UNCHANGED <<challenge, issued, blacklist, age, guesses, uses, crowded>>
              /\ excused \subseteq excused'
  BY <1>10 DEF SaveProfile
<1>11. ASSUME NEW r \in Request,
              \/ Acquire(r) /\ UNCHANGED <<tables, age, memo, history>>
              \/ Close(r) \/ Search(r) \/ Look(r) \/ Judge(r) \/ CloseOthers(r)
              \/ BeginChange(r) \/ CheckCurrent(r) \/ ListTokens(r)
              \/ Login(r) \/ LoadProfile(r) \/ Rollback(r)
       PROVE  UNCHANGED <<challenge, password, issued, blacklist, age,
                          guesses, uses, crowded, excused>>
  BY <1>11, ReadersEffect
<1>12. \/ UNCHANGED vars
       \/ \E c \in Challenge : GrowOlder(c)
       \/ \E r \in Request :
            \/ Count(r) \/ SendCode(r) \/ CommitRequest(r) \/ CountGuess(r)
            \/ CommitPassword(r) \/ IssueToken(r) \/ Logout(r) \/ SaveProfile(r)
            \/ Acquire(r) /\ UNCHANGED <<tables, age, memo, history>>
            \/ Close(r) \/ Search(r) \/ Look(r) \/ Judge(r) \/ CloseOthers(r)
            \/ BeginChange(r) \/ CheckCurrent(r) \/ ListTokens(r)
            \/ Login(r) \/ LoadProfile(r) \/ Rollback(r)
  BY Zenon DEF Next, Handle, Finished
<1>13. CASE \E c \in Challenge : GrowOlder(c)
  BY <1>2, <1>13
<1>14. ASSUME NEW r \in Request,
              \/ Count(r) \/ SendCode(r) \/ CommitRequest(r) \/ CountGuess(r)
              \/ CommitPassword(r) \/ IssueToken(r) \/ Logout(r) \/ SaveProfile(r)
       PROVE  /\ \/ UNCHANGED <<challenge, guesses, uses>>
                 \/ CommitRequest(r) \/ CountGuess(r) \/ CommitPassword(r)
              /\ password' = password \/ CommitPassword(r) \/ SaveProfile(r)
              /\ issued' = issued \/ IssueToken(r)
              /\ crowded' = crowded \/ Count(r)
              /\ age' = age
              /\ blacklist \subseteq blacklist' /\ excused \subseteq excused'
              /\ crowded \subseteq crowded'
  <2>1. blacklist \subseteq blacklist' /\ excused \subseteq excused'
        /\ crowded \subseteq crowded'
    BY <1>3, <1>4, <1>5, <1>6, <1>7, <1>8, <1>9, <1>10, <1>14
  <2>2. QED
    BY <1>3, <1>4, <1>5, <1>6, <1>7, <1>8, <1>9, <1>10, <1>14, <2>1
<1>15. QED
  BY <1>1, <1>11, <1>12, <1>13, <1>14

-----------------------------------------------------------------------------
(* Wrong codes are counted, and a code is used once *)

LEMMA CodeCommitRequest ==
  ASSUME IInv, CodeInv, NEW r \in Request, CommitRequest(r)
  PROVE  CodeInv'
<1> DEFINE id == task[r].id
<1>1. /\ id \in Challenge /\ ~ Exists(id) /\ guesses' = guesses /\ uses' = uses
      /\ challenge'[id] \in Row /\ challenge'[id].attempts = 0
      /\ \A c \in Challenge \ {id} : challenge'[c] = Consumed(r)[c]
  BY CommitRequestEffect DEF history
<1>2. TypeOK
  BY DEF IInv, Types
<1>3. ASSUME NEW c \in Challenge
      PROVE  /\ Exists(c)' => guesses'[c] <= challenge'[c].attempts
             /\ ~ Exists(c)' => guesses'[c] = 0
             /\ uses'[c] # {} => Exists(c)' /\ ~ Open(c)' /\ \E q \in Request : uses'[c] = {q}
  <2>1. CASE c = id
    <3>1. guesses[c] = 0 /\ uses[c] = {}
      BY <1>1, <2>1 DEF CodeInv
    <3>2. Exists(c)'
      BY <1>1, <2>1, PasswordAssumption DEF Exists
    <3>3. QED
      BY <1>1, <2>1, <3>1, <3>2
  <2>2. CASE c # id
    <3>1. challenge'[c] = Consumed(r)[c]
      BY <1>1, <2>2
    <3>2. /\ ~ Exists(c) => challenge'[c] = NoRow
          /\ ~ Open(c) => challenge'[c] = challenge[c]
          /\ Exists(c) => challenge'[c] # NoRow /\ challenge'[c].attempts = challenge[c].attempts
      BY <1>2, <3>1, ConsumedEffect
    <3>3. Exists(c) <=> Exists(c)'
      BY <3>2 DEF Exists
    <3>4. uses[c] # {} => ~ Open(c)'
      BY <3>2 DEF CodeInv, Open, Exists
    <3>5. QED
      BY <1>1, <3>2, <3>3, <3>4 DEF CodeInv
  <2>3. QED
    BY <2>1, <2>2
<1>4. QED
  BY <1>1, <1>3 DEF CodeInv

LEMMA CodeCountGuess ==
  ASSUME IInv, CodeInv, NEW r \in Request, CountGuess(r)
  PROVE  CodeInv'
<1> DEFINE d == Chosen(r)
<1>1. /\ d \in Challenge /\ Open(d) /\ uses' = uses
      /\ guesses' = [guesses EXCEPT ![d] = @ + 1]
      /\ \A c \in Challenge \ {d} : challenge'[c] = challenge[c]
      /\ challenge'[d] \in Row
      /\ challenge'[d].attempts = challenge[d].attempts + 1
  BY CountGuessEffect
<1>2. challenge[d].attempts \in Nat /\ Exists(d)
  BY <1>1, RowFields DEF IInv, Types, Open
<1> HIDE DEF d
<1>3. guesses' \in [Challenge -> Nat] /\ guesses'[d] = guesses[d] + 1
      /\ \A c \in Challenge \ {d} : guesses'[c] = guesses[c]
  BY <1>1 DEF CodeInv
<1>4. guesses[d] \in Nat /\ guesses[d] <= challenge[d].attempts /\ uses[d] = {}
  BY <1>1, <1>2 DEF CodeInv
<1>5. ASSUME NEW c \in Challenge
      PROVE  /\ Exists(c)' => guesses'[c] <= challenge'[c].attempts
             /\ ~ Exists(c)' => guesses'[c] = 0
             /\ uses'[c] # {} => Exists(c)' /\ ~ Open(c)' /\ \E q \in Request : uses'[c] = {q}
  <2>1. CASE c = d
    <3>1. Exists(c)'
      BY <1>1, <2>1, PasswordAssumption DEF Exists
    <3>2. QED
      BY <1>1, <1>2, <1>3, <1>4, <2>1, <3>1
  <2>2. CASE c # d
    BY <1>1, <1>3, <2>2 DEF CodeInv, Exists, Open
  <2>3. QED
    BY <2>1, <2>2
<1>6. QED
  BY <1>1, <1>3, <1>5 DEF CodeInv

LEMMA CodeCommitPassword ==
  ASSUME IInv, CodeInv, NEW r \in Request, CommitPassword(r)
  PROVE  CodeInv'
<1>1. guesses' = guesses /\ task[r].kind \in {"confirm", "change"}
  BY CommitPasswordEffect
<1>2. CASE task[r].kind = "confirm"
  <2> DEFINE d == Chosen(r)
  <2>1. /\ d \in Challenge /\ Open(d) /\ ChallengeRow(d) \in held[r]
        /\ challenge' = Consumed(r)
        /\ uses' = [uses EXCEPT ![d] = @ \cup {r}]
    BY <1>2, CommitPasswordEffect
  <2> HIDE DEF d
  <2>2. uses[d] = {}
    BY <2>1 DEF CodeInv
  <2>3. /\ uses' \in [Challenge -> SUBSET Request] /\ uses'[d] = {r}
        /\ \A c \in Challenge \ {d} : uses'[c] = uses[c]
    BY <2>1, <2>2 DEF CodeInv
  <2>4. ASSUME NEW c \in Challenge
        PROVE  /\ ~ Exists(c) => challenge'[c] = NoRow
               /\ ~ Open(c) => challenge'[c] = challenge[c]
               /\ Exists(c) => /\ challenge'[c] # NoRow
                                /\ challenge'[c].attempts = challenge[c].attempts
               /\ Exists(c) /\ ChallengeRow(c) \in held[r] => challenge'[c].consumed
    BY <2>1, ConsumedEffect DEF IInv, Types
  <2>5. ASSUME NEW c \in Challenge
        PROVE  /\ Exists(c)' => guesses'[c] <= challenge'[c].attempts
               /\ ~ Exists(c)' => guesses'[c] = 0
               /\ (uses'[c] # {} =>
                     Exists(c)' /\ ~ Open(c)' /\ \E q \in Request : uses'[c] = {q})
    <3>1. Exists(c) <=> Exists(c)'
      BY <2>4 DEF Exists
    <3>2. CASE c = d
      <4>1. Exists(c) /\ ~ Open(c)'
        BY <2>1, <2>4, <3>2 DEF Open
      <4>2. QED
        BY <1>1, <2>3, <2>4, <3>1, <3>2, <4>1 DEF CodeInv
    <3>3. CASE c # d
      <4>1. uses[c] # {} => ~ Open(c)'
        BY <2>4 DEF CodeInv, Open, Exists
      <4>2. QED
        BY <1>1, <2>3, <2>4, <3>1, <3>3, <4>1 DEF CodeInv
    <3>4. QED
      BY <3>2, <3>3
  <2>6. QED
    BY <1>1, <2>3, <2>5 DEF CodeInv
<1>3. CASE task[r].kind = "change"
  <2>1. UNCHANGED <<challenge, uses>>
    BY <1>3, CommitPasswordEffect
  <2>2. QED
    BY <1>1, <2>1 DEF CodeInv, Exists, Open
<1>4. QED
  BY <1>1, <1>2, <1>3

LEMMA CodeNext == IInv /\ CodeInv /\ [Next]_vars => CodeInv'
<1> SUFFICES ASSUME IInv, CodeInv, [Next]_vars PROVE CodeInv'
  OBVIOUS
<1>1. CASE UNCHANGED <<challenge, guesses, uses>>
  BY <1>1 DEF CodeInv, Exists, Open
<1>2. CASE \E r \in Request : CommitRequest(r) \/ CountGuess(r) \/ CommitPassword(r)
  BY <1>2, CodeCommitRequest, CodeCountGuess, CodeCommitPassword
<1>3. QED
  BY <1>1, <1>2, WhoWrites

LEMMA CodeInit == Init => CodeInv
<1> SUFFICES ASSUME Init PROVE CodeInv
  OBVIOUS
<1>1. TypeOK
  BY InitHolds DEF IInv, Types
<1>2. \A c \in Challenge : Exists(c) => challenge[c].attempts \in Nat
  BY <1>1, RowFields
<1>3. guesses = [c \in Challenge |-> 0] /\ uses = [c \in Challenge |-> {}]
  BY DEF Init
<1>4. QED
  BY <1>2, <1>3 DEF CodeInv

\* No more than MaxAttempts wrong codes are compared with one challenge, in
\* however many confirmations: each counts its guess while it holds the row.
THEOREM GuessesAreCounted == Spec => []GuessesBounded
<1>1. Init => IInv /\ CodeInv
  BY InitHolds, CodeInit
<1>2. IInv /\ CodeInv /\ [Next]_vars => IInv' /\ CodeInv'
  BY NextHolds, CodeNext
<1>3. IInv /\ CodeInv => GuessesBounded
  <2> SUFFICES ASSUME IInv, CodeInv, NEW c \in Challenge PROVE guesses[c] <= MaxAttempts
    BY DEF GuessesBounded
  <2>1. guesses[c] \in Nat /\ MaxAttempts \in Nat
    BY PasswordAssumption DEF CodeInv
  <2>2. CASE Exists(c)
    <3>1. challenge[c].attempts \in Nat /\ challenge[c].attempts <= MaxAttempts
      BY <2>2, RowFields DEF IInv, Types
    <3>2. guesses[c] <= challenge[c].attempts
      BY <2>2 DEF CodeInv
    <3>3. QED
      BY <2>1, <3>1, <3>2
  <2>3. CASE ~ Exists(c)
    BY <2>1, <2>3 DEF CodeInv
  <2>4. QED
    BY <2>2, <2>3
<1>4. QED
  BY <1>1, <1>2, <1>3, PTL DEF Spec

\* The tables keep their types, and a code sets one password.
THEOREM CodesAreUsedOnce == Spec => []CodesSound
<1>1. Init => IInv /\ CodeInv
  BY InitHolds, CodeInit
<1>2. IInv /\ CodeInv /\ [Next]_vars => IInv' /\ CodeInv'
  BY NextHolds, CodeNext
<1>3. IInv /\ CodeInv => CodesSound
  <2> SUFFICES ASSUME IInv, CodeInv, NEW c \in Challenge PROVE Cardinality(uses[c]) <= 1
    BY DEF CodesSound, CodeUsedOnce, IInv, Types
  <2>1. CASE uses[c] = {}
    BY <2>1, FS_EmptySet
  <2>2. CASE uses[c] # {}
    <3>1. PICK r \in Request : uses[c] = {r}
      BY <2>2 DEF CodeInv
    <3>2. Cardinality({r}) = 1
      BY FS_Singleton, Zenon
    <3>3. QED
      BY <3>1, <3>2
  <2>3. QED
    BY <2>1, <2>2
<1>4. QED
  BY <1>1, <1>2, <1>3, PTL DEF Spec

-----------------------------------------------------------------------------
(* Where a step takes a request *)

LEMMA Moved ==
  ASSUME Locks, NEW r \in Request, NEW where, NEW rows,
         Goto(r, where, rows) \/ Finish(r, where)
  PROVE  pc'[r] = where /\ OthersRest(r)
  BY DEF Goto, Finish, Locks, LocksInv, OthersRest

LEMMA MovedIf ==
  ASSUME Locks, NEW r \in Request, NEW ok, NEW where, NEW rows,
         GotoIf(ok, r, where, rows)
  PROVE  (pc'[r] = where \/ pc'[r] = "failed") /\ OthersRest(r)
  BY Moved DEF GotoIf

LEMMA RequestMoves ==
  ASSUME Locks, NEW r \in Request
  PROVE  /\ Count(r) => pc'[r] \in {"counted", "failed"} /\ OthersRest(r)
         /\ Close(r) => pc'[r] = "inserting" /\ OthersRest(r)
         /\ SendCode(r) => pc'[r] \in {"sent", "unsent"} /\ OthersRest(r)
         /\ CommitRequest(r) => pc'[r] = "done" /\ OthersRest(r)
<1>1. Count(r) => pc'[r] \in {"counted", "failed"} /\ OthersRest(r)
  BY MovedIf DEF Count
<1>2. Close(r) => pc'[r] = "inserting" /\ OthersRest(r)
  BY Moved DEF Close
<1>3. ASSUME SendCode(r) PROVE pc'[r] \in {"sent", "unsent"} /\ OthersRest(r)
  <2>1. \E where \in {"sent", "unsent"} :
          \E rows \in Orders({UserRow(u) : u \in Owner(task[r].phone)}) :
            Goto(r, where, rows)
    BY <1>3 DEF SendCode
  <2>2. QED
    BY <2>1, Moved
<1>4. CommitRequest(r) => pc'[r] = "done" /\ OthersRest(r)
  BY Moved DEF CommitRequest
<1>5. QED
  BY <1>1, <1>2, <1>3, <1>4

LEMMA ChooseMoves ==
  ASSUME Locks, NEW r \in Request, NEW seen, NEW late, Choose(r, seen, late)
  PROVE  pc'[r] \in {"choosing", "failed"} /\ OthersRest(r)
<1>1. \/ Finish(r, "failed")
      \/ \E c \in Newest(seen) : Goto(r, "choosing", <<ChallengeRow(c)>>)
  BY Zenon DEF Choose
<1>2. QED
  BY <1>1, Moved

LEMMA ConfirmMoves ==
  ASSUME Locks, NEW r \in Request
  PROVE  /\ Search(r) => pc'[r] \in {"choosing", "failed"} /\ OthersRest(r)
         /\ Look(r) => pc'[r] \in {"choosing", "judging", "failed"} /\ OthersRest(r)
         /\ Judge(r) => pc'[r] \in {"counting", "setting", "failed"} /\ OthersRest(r)
         /\ CountGuess(r) => pc'[r] = "failed" /\ OthersRest(r)
         /\ CloseOthers(r) => pc'[r] = "listing" /\ OthersRest(r)
<1>1. Search(r) => pc'[r] \in {"choosing", "failed"} /\ OthersRest(r)
  BY ChooseMoves DEF Search
<1>2. ASSUME Look(r)
      PROVE  pc'[r] \in {"choosing", "judging", "failed"} /\ OthersRest(r)
  <2>1. \/ Goto(r, "judging", << >>)
        \/ Choose(r, memo[r].seen \ {Chosen(r)}, memo[r].late)
    BY <1>2, Zenon DEF Look
  <2>2. QED
    BY <2>1, Moved, ChooseMoves
<1>3. ASSUME Judge(r)
      PROVE  pc'[r] \in {"counting", "setting", "failed"} /\ OthersRest(r)
  <2> DEFINE rows == <<UserRow(challenge[Chosen(r)].user)>>
             ok == Usable(r, Chosen(r)) /\ task[r].new \notin Weak
  <2>1. Goto(r, "counting", << >>) \/ GotoIf(ok, r, "setting", rows)
    BY <1>3, Zenon DEF Judge
  <2> HIDE DEF rows, ok
  <2>2. QED
    BY <2>1, Moved, MovedIf
<1>4. CountGuess(r) => pc'[r] = "failed" /\ OthersRest(r)
  BY Moved DEF CountGuess
<1>5. CloseOthers(r) => pc'[r] = "listing" /\ OthersRest(r)
  BY Moved DEF CloseOthers
<1>6. QED
  BY <1>1, <1>2, <1>3, <1>4, <1>5

LEMMA OtherMoves ==
  ASSUME Locks, NEW r \in Request
  PROVE  /\ BeginChange(r) => pc'[r] = "changing" /\ OthersRest(r)
         /\ CheckCurrent(r) => pc'[r] \in {"listing", "failed"} /\ OthersRest(r)
         /\ ListTokens(r) => pc'[r] = "replacing" /\ OthersRest(r)
         /\ CommitPassword(r) => pc'[r] = "done" /\ OthersRest(r)
         /\ Login(r) => pc'[r] \in {"issuing", "failed"} /\ OthersRest(r)
         /\ IssueToken(r) => pc'[r] = "done" /\ OthersRest(r)
         /\ Logout(r) => pc'[r] = "done" /\ OthersRest(r)
         /\ LoadProfile(r) => pc'[r] = "saving" /\ OthersRest(r)
         /\ SaveProfile(r) => pc'[r] = "done" /\ OthersRest(r)
         /\ Rollback(r) => pc'[r] = "failed" /\ OthersRest(r)
<1>1. BeginChange(r) => pc'[r] = "changing" /\ OthersRest(r)
  BY Moved DEF BeginChange
<1>2. CheckCurrent(r) => pc'[r] \in {"listing", "failed"} /\ OthersRest(r)
  BY MovedIf DEF CheckCurrent
<1>3. ListTokens(r) => pc'[r] = "replacing" /\ OthersRest(r)
  BY Moved DEF ListTokens
<1>4. CommitPassword(r) => pc'[r] = "done" /\ OthersRest(r)
  BY Moved DEF CommitPassword
<1>5. Login(r) => pc'[r] \in {"issuing", "failed"} /\ OthersRest(r)
  BY MovedIf DEF Login
<1>6. IssueToken(r) => pc'[r] = "done" /\ OthersRest(r)
  BY Moved DEF IssueToken
<1>7. Logout(r) => pc'[r] = "done" /\ OthersRest(r)
  BY Moved DEF Logout
<1>8. LoadProfile(r) => pc'[r] = "saving" /\ OthersRest(r)
  BY Moved DEF LoadProfile
<1>9. SaveProfile(r) => pc'[r] = "done" /\ OthersRest(r)
  BY Moved DEF SaveProfile
<1>10. Rollback(r) => pc'[r] = "failed" /\ OthersRest(r)
  BY Moved DEF Rollback, Crash, ResolveDeadlock
<1>11. QED
  BY <1>1, <1>2, <1>3, <1>4, <1>5, <1>6, <1>7, <1>8, <1>9, <1>10

\* The actions that take a request to the points that the invariants name.
LEMMA WhoMoves ==
  ASSUME Locks, NEW r \in Request, Handle(r) \/ Rollback(r)
  PROVE  /\ OthersRest(r)
         /\ pc'[r] = "issuing" => Login(r) \/ pc[r] = "issuing"
         /\ pc'[r] \in RequestPoints =>
              Count(r) \/ Close(r) \/ SendCode(r)
                \/ (Acquire(r) /\ UNCHANGED <<tables, age, memo, history>>)
         /\ pc'[r] = "done" =>
              \/ CommitRequest(r) \/ CommitPassword(r) \/ IssueToken(r)
              \/ Logout(r) \/ SaveProfile(r) \/ pc[r] = "done"
<1>1. Acquire(r) => pc'[r] = pc[r] /\ OthersRest(r)
  BY AcquireEffect DEF Locks
<1>2. CASE Acquire(r) /\ UNCHANGED <<tables, age, memo, history>>
  BY <1>1, <1>2
<1>3. CASE Count(r) \/ Close(r) \/ SendCode(r) \/ CommitRequest(r)
  BY <1>3, RequestMoves DEF RequestPoints
<1>4. CASE Search(r) \/ Look(r) \/ Judge(r) \/ CountGuess(r) \/ CloseOthers(r)
  BY <1>4, ConfirmMoves DEF RequestPoints
<1>5. CASE \/ BeginChange(r) \/ CheckCurrent(r) \/ ListTokens(r) \/ CommitPassword(r)
           \/ Login(r) \/ IssueToken(r) \/ Logout(r) \/ LoadProfile(r)
           \/ SaveProfile(r) \/ Rollback(r)
  BY <1>5, OtherMoves DEF RequestPoints
<1>6. \/ Acquire(r) /\ UNCHANGED <<tables, age, memo, history>>
      \/ Count(r) \/ Close(r) \/ SendCode(r) \/ CommitRequest(r)
      \/ Search(r) \/ Look(r) \/ Judge(r) \/ CountGuess(r) \/ CloseOthers(r)
      \/ BeginChange(r) \/ CheckCurrent(r) \/ ListTokens(r) \/ CommitPassword(r)
      \/ Login(r) \/ IssueToken(r) \/ Logout(r) \/ LoadProfile(r)
      \/ SaveProfile(r) \/ Rollback(r)
  BY Zenon DEF Handle
<1>7. QED
  BY <1>2, <1>3, <1>4, <1>5, <1>6, Zenon

LEMMA StepOf ==
  ASSUME [Next]_vars
  PROVE  \/ UNCHANGED transaction
         \/ \E r \in Request : Handle(r) \/ Rollback(r)
  BY DEF Next, GrowOlder, Finished, vars

-----------------------------------------------------------------------------
(* Tokens of a password that was replaced *)

LEMMA PasswordKept ==
  ASSUME IInv, [Next]_vars, NEW u \in User
  PROVE  \/ password'[u] = password[u]
         \/ u \in excused'
         \/ /\ InFlight(u) \subseteq excused'
            /\ TokensOf(u) \subseteq blacklist'
<1>1. CASE password' = password
  BY <1>1
<1>2. ASSUME NEW r \in Request, CommitPassword(r)
      PROVE  \/ password'[u] = password[u]
             \/ InFlight(u) \subseteq excused' /\ TokensOf(u) \subseteq blacklist'
  <2>1. /\ password' = [password EXCEPT ![UserOf(r)] = task[r].new]
        /\ excused' = excused \cup InFlight(UserOf(r))
        /\ blacklist' = blacklist \cup memo[r].tokens
        /\ memo[r].tokens = TokensOf(UserOf(r))
    BY <1>2, CommitPasswordEffect
  <2>2. CASE u = UserOf(r)
    BY <2>1, <2>2
  <2>3. CASE u # UserOf(r)
    BY <2>1, <2>3 DEF IInv, Types, TypeOK
  <2>4. QED
    BY <2>2, <2>3
<1>3. ASSUME NEW r \in Request, SaveProfile(r)
      PROVE  password'[u] = password[u] \/ u \in excused'
  <2>1. /\ password' = [password EXCEPT ![task[r].user] = memo[r].secret]
        /\ excused' = excused \cup {v \in {task[r].user} : password[v] # memo[r].secret}
    BY <1>3 DEF SaveProfile
  <2>2. QED
    BY <2>1 DEF IInv, Types, TypeOK
<1>4. QED
  BY <1>1, <1>2, <1>3, WhoWrites

LEMMA LoginNext == IInv /\ LoginInv /\ [Next]_vars => LoginInv'
<1> SUFFICES ASSUME IInv, LoginInv, [Next]_vars, NEW q \in Request, pc'[q] = "issuing"
             PROVE  /\ task' = task
                    /\ \/ password'[task[q].user] = task[q].secret
                       \/ task[q].token \in excused' \/ task[q].user \in excused'
  BY DEF LoginInv
<1>1. Locks
  BY DEF IInv
<1>2. /\ task' = task
      /\ pc[q] = "issuing" \/ Login(q)
  BY <1>1, StepOf, WhoMoves DEF transaction, OthersRest
<1>3. CASE pc[q] = "issuing"
  <2>1. task[q].kind = "login"
    BY <1>3 DEF IInv, HoldsInv, HoldsOf, PointOf
  <2>2. task[q].user \in User
    BY <1>1, <2>1, TaskFields DEF Locks
  <2>3. task[q].token \in InFlight(task[q].user)
    BY <1>3, <2>1 DEF InFlight
  <2>4. \/ password[task[q].user] = task[q].secret
        \/ task[q].token \in excused \/ task[q].user \in excused
    BY <1>3 DEF LoginInv
  <2>5. excused \subseteq excused'
    BY WhoWrites
  <2>6. QED
    BY <1>2, <2>2, <2>3, <2>4, <2>5, PasswordKept
<1>4. CASE Login(q)
  <2>1. password' = password
    BY <1>4 DEF Login, tables
  <2>2. password[task[q].user] = task[q].secret \/ Finish(q, "failed")
    BY <1>4 DEF Login, GotoIf
  <2>3. Finish(q, "failed") => pc'[q] = "failed"
    BY <1>1, Moved
  <2>4. QED
    BY <1>2, <2>1, <2>2, <2>3
<1>5. QED
  BY <1>2, <1>3, <1>4

LEMMA RevokedNext == IInv /\ LoginInv /\ OldTokensAreBlacklisted /\ [Next]_vars
                       => OldTokensAreBlacklisted'
<1> SUFFICES ASSUME IInv, LoginInv, OldTokensAreBlacklisted, [Next]_vars,
                    NEW tok \in Token,
                    issued'[tok] # NoRow, tok \notin blacklist', tok \notin excused'
             PROVE  \/ issued'[tok].secret = password'[issued'[tok].user]
                    \/ issued'[tok].user \in excused'
  BY DEF OldTokensAreBlacklisted
<1>1. blacklist \subseteq blacklist' /\ excused \subseteq excused'
  BY WhoWrites
<1>2. CASE issued'[tok] = issued[tok]
  <2> DEFINE u == issued[tok].user
  <2>1. issued[tok] \in [user: User, secret: Password]
    BY <1>2 DEF IInv, Types, TypeOK
  <2>2. u \in User
    BY <2>1
  <2>3. tok \in TokensOf(u)
    BY <1>2 DEF TokensOf
  <2>4. issued[tok].secret = password[u] \/ u \in excused
    BY <1>1, <1>2 DEF OldTokensAreBlacklisted
  <2> HIDE DEF u
  <2>5. password'[u] = password[u] \/ u \in excused' \/ TokensOf(u) \subseteq blacklist'
    BY <2>2, PasswordKept
  <2>6. issued'[tok].secret = password'[u] \/ u \in excused'
    BY <1>1, <1>2, <2>3, <2>4, <2>5
  <2>7. QED
    BY <1>2, <2>6 DEF u
<1>3. CASE issued'[tok] # issued[tok]
  <2>1. PICK r \in Request : IssueToken(r)
    BY <1>3, WhoWrites
  <2>2. /\ pc[r] = "issuing" /\ password' = password /\ excused' = excused
        /\ issued'[task[r].token].user = task[r].user
        /\ issued'[task[r].token].secret = task[r].secret
        /\ \A t \in Token \ {task[r].token} : issued'[t] = issued[t]
    BY <2>1, IssueTokenEffect DEF history
  <2>3. tok = task[r].token
    BY <1>3, <2>2
  <2>4. \/ password[task[r].user] = task[r].secret
        \/ task[r].token \in excused \/ task[r].user \in excused
    BY <2>2 DEF LoginInv
  <2>5. QED
    BY <2>2, <2>3, <2>4
<1>4. QED
  BY <1>2, <1>3

\* A token of a password that is no longer the user's is blacklisted, unless
\* its login overlapped the change or a profile was saved over it: whoever
\* replaces a password lists the tokens while he holds the user, and a token
\* is inserted by who holds the user too.
THEOREM TokensAreRevoked == Spec => []OldTokensAreBlacklisted
<1>1. Init => IInv
  BY InitHolds
<1>2. Init => LoginInv /\ OldTokensAreBlacklisted
  <2>1. Init => \A r \in Request : pc[r] = "idle"
    BY LocksInit DEF Init
  <2>2. Init => \A tok \in Token : issued[tok] = NoRow
    BY DEF Init
  <2>3. QED
    BY <2>1, <2>2 DEF LoginInv, OldTokensAreBlacklisted
<1>3. /\ IInv /\ LoginInv /\ OldTokensAreBlacklisted /\ [Next]_vars
           => IInv' /\ LoginInv' /\ OldTokensAreBlacklisted'
  BY NextHolds, LoginNext, RevokedNext
<1>4. QED
  BY <1>1, <1>2, <1>3, PTL DEF Spec

LEMMA DoneByReplacing ==
  ASSUME IInv, [Next]_vars, NEW r \in Request,
         task[r].kind = "change", pc[r] # "done", pc'[r] = "done"
  PROVE  password[task[r].user] = task[r].current
<1>1. Locks
  BY DEF IInv
<1>2. PICK q \in Request : Handle(q) \/ Rollback(q)
  BY StepOf DEF transaction
<1>3. q = r
  BY <1>1, <1>2, WhoMoves DEF OthersRest
<1>4. \/ CommitRequest(r) \/ CommitPassword(r) \/ IssueToken(r)
      \/ Logout(r) \/ SaveProfile(r)
  BY <1>1, <1>2, <1>3, WhoMoves
<1>5. ~ CommitRequest(r) /\ ~ IssueToken(r)
  BY CommitRequestEffect, IssueTokenEffect
<1>6. ~ Logout(r)
  BY DEF Logout
<1>7. ~ SaveProfile(r)
  <2>1. SaveProfile(r) => pc[r] = "saving"
    BY DEF SaveProfile, At
  <2>2. pc[r] = "saving" => task[r].kind = "profile"
    BY DEF IInv, HoldsInv, HoldsOf, PointOf
  <2>3. QED
    BY <2>1, <2>2
<1>8. pc[r] = "replacing"
  BY <1>4, <1>5, <1>6, <1>7, CommitPasswordEffect
<1>9. QED
  BY <1>8 DEF IInv, HoldsInv, HoldsOf, UserLockOf, FinalPoints

\* Nobody changes a password without the one that it replaces, whatever else
\* replaces or saves the password of that user at the same time.
THEOREM ChangesKnowThePassword == Spec => ChangeNeedsCurrent
<1>1. Init => IInv
  BY InitHolds
<1>2. IInv /\ [Next]_vars => IInv'
  BY NextHolds
<1>3. IInv /\ [Next]_vars
        => [\A r \in Request :
              task[r].kind = "change" /\ pc[r] # "done" /\ pc'[r] = "done"
                => password[task[r].user] = task[r].current]_vars
  BY DoneByReplacing
<1>4. QED
  BY <1>1, <1>2, <1>3, PTL DEF Spec, ChangeNeedsCurrent

-----------------------------------------------------------------------------
(* The limits of those who are not crowded *)

LEMMA Fewer ==
  ASSUME NEW S \in SUBSET Challenge, NEW T \in SUBSET S
  PROVE  /\ Cardinality(S) \in Nat /\ Cardinality(T) \in Nat
         /\ Cardinality(T) <= Cardinality(S)
  BY PasswordAssumption, FS_Subset, FS_CardinalityType

LEMMA OneMore ==
  ASSUME NEW S \in SUBSET Challenge, NEW T, NEW id, T \subseteq S \cup {id}
  PROVE  Cardinality(T) \in Nat /\ Cardinality(T) <= Cardinality(S) + 1
<1>1. IsFiniteSet(S) /\ Cardinality(S) \in Nat
  BY PasswordAssumption, FS_Subset, FS_CardinalityType
<1>2. /\ IsFiniteSet(S \cup {id}) /\ Cardinality(S \cup {id}) \in Nat
      /\ Cardinality(S \cup {id}) <= Cardinality(S) + 1
  BY <1>1, FS_AddElement, FS_CardinalityType
<1>3. IsFiniteSet(T) /\ Cardinality(T) <= Cardinality(S \cup {id}) /\ Cardinality(T) \in Nat
  BY <1>2, FS_Subset, FS_CardinalityType
<1>4. QED
  BY <1>1, <1>2, <1>3

LEMMA AtMostOne ==
  ASSUME NEW T, NEW id, T \subseteq {id}
  PROVE  Cardinality(T) \in Nat /\ Cardinality(T) <= 1
<1> DEFINE one == {id}
<1>1. IsFiniteSet(one) /\ Cardinality(one) = 1 /\ T \in SUBSET one
  BY FS_Singleton
<1> HIDE DEF one
<1>2. IsFiniteSet(T) /\ Cardinality(T) <= 1
  BY <1>1, FS_Subset
<1>3. QED
  BY <1>2, FS_CardinalityType

\* A challenge is not reopened, does not grow younger, and keeps its number
\* and its address.
Kept(c) ==
  /\ ~ Exists(c) => challenge'[c] = NoRow
  /\ Exists(c) => /\ challenge'[c].phone = challenge[c].phone
                  /\ challenge'[c].ip = challenge[c].ip
                  /\ challenge[c].consumed => challenge'[c].consumed
  /\ age'[c] < 2 => age[c] < 2

LEMMA KeptEffect ==
  ASSUME NEW c \in Challenge, Kept(c), NEW x
  PROVE  /\ c \in RecentOf(x)' => c \in RecentOf(x)
         /\ c \in OpenFor(x)' => c \in OpenFor(x)
<1>1. c \in RecentOf(x)' => Exists(c) /\ age[c] < 2 /\ x \in {challenge[c].phone, challenge[c].ip}
  BY DEF RecentOf, Recent, Kept, Exists
<1>2. c \in OpenFor(x)' => Open(c) /\ challenge[c].phone = x
  BY DEF OpenFor, Open, Kept, Exists
<1>3. QED
  BY <1>1, <1>2 DEF RecentOf, Recent, OpenFor

LEMMA ConsumedKept ==
  ASSUME IInv, NEW r \in Request, NEW c \in Challenge, challenge'[c] = Consumed(r)[c],
         age' = age
  PROVE  Kept(c)
<1>1. /\ ~ Exists(c) => challenge'[c] = NoRow
      /\ Exists(c) => /\ challenge'[c].phone = challenge[c].phone
                      /\ challenge'[c].ip = challenge[c].ip
      /\ ~ Open(c) => challenge'[c] = challenge[c]
  BY ConsumedEffect DEF IInv, Types
<1>2. Exists(c) /\ challenge[c].consumed => challenge'[c].consumed
  BY <1>1 DEF Open
<1>3. QED
  BY <1>1, <1>2 DEF Kept

LEMMA RowsKept ==
  ASSUME IInv, [Next]_vars, NEW c \in Challenge,
         \A r \in Request : CommitRequest(r) => c # task[r].id
  PROVE  Kept(c)
<1>1. CASE UNCHANGED <<challenge, guesses, uses>>
  <2>1. age'[c] < 2 => age[c] < 2
    <3>1. CASE age' = age
      BY <3>1
    <3>2. ASSUME NEW d \in Challenge, GrowOlder(d)
          PROVE  age'[c] < 2 => age[c] < 2
      <4>1. age \in [Challenge -> 0..2]
        BY DEF IInv, Types, TypeOK
      <4>2. age' = [age EXCEPT ![d] = age[d] + 1] /\ age[d] < 2
        BY <3>2, <4>1 DEF GrowOlder
      <4>3. QED
        BY <4>1, <4>2
    <3>3. QED
      BY <3>1, <3>2, WhoWrites
  <2>2. QED
    BY <1>1, <2>1 DEF Kept, Exists
<1>2. ASSUME NEW r \in Request, CommitRequest(r)
      PROVE  Kept(c)
  <2>1. age' = age /\ challenge'[c] = Consumed(r)[c]
    BY <1>2, CommitRequestEffect
  <2>2. QED
    BY <2>1, ConsumedKept
<1>3. ASSUME NEW r \in Request, CountGuess(r)
      PROVE  Kept(c)
  <2>1. /\ age' = age /\ Open(Chosen(r))
        /\ \A d \in Challenge \ {Chosen(r)} : challenge'[d] = challenge[d]
        /\ challenge'[Chosen(r)].consumed = challenge[Chosen(r)].consumed
        /\ challenge'[Chosen(r)].phone = challenge[Chosen(r)].phone
        /\ challenge'[Chosen(r)].ip = challenge[Chosen(r)].ip
    BY <1>3, CountGuessEffect
  <2>2. CASE c = Chosen(r)
    BY <2>1, <2>2 DEF Kept, Open
  <2>3. CASE c # Chosen(r)
    BY <2>1, <2>3 DEF Kept, Exists
  <2>4. QED
    BY <2>2, <2>3
<1>4. ASSUME NEW r \in Request, CommitPassword(r)
      PROVE  Kept(c)
  <2>1. age' = age /\ (challenge' = Consumed(r) \/ challenge' = challenge)
    BY <1>4, CommitPasswordEffect
  <2>2. CASE challenge' = Consumed(r)
    BY <2>1, <2>2, ConsumedKept
  <2>3. CASE challenge' = challenge
    BY <2>1, <2>3 DEF Kept, Exists
  <2>4. QED
    BY <2>1, <2>2, <2>3
<1>5. QED
  BY <1>1, <1>2, <1>3, <1>4, WhoWrites

\* A number, or an address, has a new challenge only from who asked for it.
LEMMA RecentGrows ==
  ASSUME IInv, [Next]_vars, NEW x
  PROVE  \/ RecentOf(x)' \subseteq RecentOf(x)
         \/ \E r \in Request : /\ CommitRequest(r) /\ x \in AskedBy(r)
                               /\ RecentOf(x)' \subseteq RecentOf(x) \cup {task[r].id}
<1>1. RecentOf(x)' \subseteq Challenge
  BY DEF RecentOf, Recent
<1>2. CASE \A r \in Request : ~ CommitRequest(r)
  BY <1>1, <1>2, RowsKept, KeptEffect
<1>3. ASSUME NEW r \in Request, CommitRequest(r)
      PROVE  \/ RecentOf(x)' \subseteq RecentOf(x)
             \/ /\ x \in AskedBy(r)
                /\ RecentOf(x)' \subseteq RecentOf(x) \cup {task[r].id}
  <2>1. /\ challenge'[task[r].id].phone = task[r].phone
        /\ challenge'[task[r].id].ip = task[r].ip
    BY <1>3, CommitRequestEffect
  <2>2. \A c \in Challenge \ {task[r].id} : c \in RecentOf(x)' => c \in RecentOf(x)
    <3>1. \A c \in Challenge \ {task[r].id} : Kept(c)
      <4>1. \A c \in Challenge \ {task[r].id} :
              age' = age /\ challenge'[c] = Consumed(r)[c]
        BY <1>3, CommitRequestEffect
      <4>2. QED
        BY <4>1, ConsumedKept
    <3>2. QED
      BY <3>1, KeptEffect
  <2>3. task[r].id \in RecentOf(x)' => x \in AskedBy(r)
    BY <2>1 DEF RecentOf, AskedBy
  <2>4. QED
    BY <1>1, <2>2, <2>3
<1>4. QED
  BY <1>2, <1>3

LEMMA OpenGrows ==
  ASSUME IInv, [Next]_vars, NEW x
  PROVE  \/ OpenFor(x)' \subseteq OpenFor(x)
         \/ \E r \in Request : CommitRequest(r) /\ x = task[r].phone
<1>1. OpenFor(x)' \subseteq Challenge
  BY DEF OpenFor
<1>2. CASE \A r \in Request : ~ CommitRequest(r)
  BY <1>1, <1>2, RowsKept, KeptEffect
<1>3. ASSUME NEW r \in Request, CommitRequest(r), x # task[r].phone
      PROVE  OpenFor(x)' \subseteq OpenFor(x)
  <2>1. challenge'[task[r].id].phone = task[r].phone
    BY <1>3, CommitRequestEffect
  <2>2. \A c \in Challenge \ {task[r].id} : c \in OpenFor(x)' => c \in OpenFor(x)
    <3>1. \A c \in Challenge \ {task[r].id} : Kept(c)
      <4>1. \A c \in Challenge \ {task[r].id} :
              age' = age /\ challenge'[c] = Consumed(r)[c]
        BY <1>3, CommitRequestEffect
      <4>2. QED
        BY <4>1, ConsumedKept
    <3>2. QED
      BY <3>1, KeptEffect
  <2>3. task[r].id \notin OpenFor(x)'
    BY <1>3, <2>1 DEF OpenFor
  <2>4. QED
    BY <1>1, <2>2, <2>3
<1>4. QED
  BY <1>2, <1>3

\* When a request ends, its number has no open challenge but the new one.
LEMMA OthersClosed ==
  ASSUME IInv, LimitInv, NEW r \in Request, CommitRequest(r), task[r].phone \notin crowded
  PROVE  OpenFor(task[r].phone)' \subseteq {task[r].id}
<1> DEFINE ph == task[r].phone
<1>1. /\ pc[r] \in {"sent", "unsent"} /\ Reserved(r) = held[r] /\ age' = age
      /\ \A c \in Challenge \ {task[r].id} : challenge'[c] = Consumed(r)[c]
  BY CommitRequestEffect
<1>2. \A c \in OpenFor(ph) : ChallengeRow(c) \in held[r]
  BY <1>1 DEF LimitInv, LimitOf, RequestPoints
<1>3. task' = task
  BY RequestMoves DEF IInv, OthersRest
<1>4. ASSUME NEW c \in Challenge \ {task[r].id}, Open(c)', challenge'[c].phone = ph
      PROVE  FALSE
  <2>1. Kept(c)
    BY <1>1, ConsumedKept
  <2>2. c \in OpenFor(ph)
    BY <1>4, <2>1 DEF Kept, OpenFor, Open, Exists
  <2>3. Exists(c) /\ ChallengeRow(c) \in held[r]
    BY <1>2, <2>2 DEF OpenFor, Open
  <2>4. Consumed(r)[c].consumed
    BY <2>3, ConsumedEffect DEF IInv, Types
  <2>5. QED
    BY <1>1, <1>4, <2>4 DEF Open
<1>5. \A c \in OpenFor(task[r].phone)' : c \in Challenge /\ Open(c)' /\ challenge'[c].phone = ph
  BY <1>3 DEF OpenFor
<1>6. QED
  BY <1>4, <1>5

\* A request is under way since it was counted, and keeps its locks.
LEMMA UnderWay ==
  ASSUME IInv, [Next]_vars, NEW q \in Request, pc'[q] \in RequestPoints
  PROVE  /\ task' = task /\ task[q].kind = "request"
         /\ pc[q] \in RequestPoints
              \/ (Count(q) /\ OthersRest(q) /\ pc'[q] = "counted")
         /\ pc'[q] # "counted" =>
              \/ Close(q)
              \/ /\ pc[q] \in RequestPoints \ {"counted"}
                 /\ Reserved(q) \subseteq Reserved(q)'
<1>1. Locks /\ PointOf(q)
  BY DEF IInv, HoldsInv, HoldsOf
<1>2. CASE UNCHANGED transaction
  BY <1>1, <1>2 DEF transaction, PointOf, Reserved
<1>3. ASSUME NEW r \in Request, Handle(r) \/ Rollback(r), r # q
      PROVE  /\ task' = task /\ pc[q] \in RequestPoints
             /\ (pc'[q] # "counted" => pc[q] \in RequestPoints \ {"counted"})
             /\ Reserved(q)' = Reserved(q)
  <2>1. OthersRest(r)
    BY <1>1, <1>3, WhoMoves
  <2>2. QED
    BY <1>3, <2>1 DEF OthersRest, Reserved
<1>4. ASSUME Handle(q) \/ Rollback(q)
      PROVE  /\ OthersRest(q)
             /\ Count(q) \/ Close(q) \/ SendCode(q) \/ Acquire(q)
  BY <1>1, <1>4, WhoMoves
<1>5. ASSUME Count(q)
      PROVE  task[q].kind = "request" /\ OthersRest(q) /\ pc'[q] = "counted"
  <2>1. pc'[q] \in {"counted", "failed"} /\ OthersRest(q) /\ task[q].kind = "request"
    BY <1>1, <1>5, RequestMoves DEF Count
  <2>2. QED
    BY <2>1 DEF RequestPoints
<1>6. ASSUME Close(q)
      PROVE  pc[q] \in RequestPoints
  BY <1>6 DEF Close, At, RequestPoints
<1>7. ASSUME SendCode(q)
      PROVE  pc[q] \in RequestPoints \ {"counted"} /\ Reserved(q) \subseteq Reserved(q)'
  <2>1. At(q, "inserting") /\ held' = held
    BY <1>7 DEF SendCode, Goto
  <2>2. pc[q] = "inserting" /\ Reserved(q) = held[q]
    BY <2>1, AtHolds
  <2>3. held[q] \subseteq Reserved(q)'
    BY <2>1 DEF Reserved
  <2>4. QED
    BY <2>2, <2>3 DEF RequestPoints
<1>8. ASSUME Acquire(q)
      PROVE  pc'[q] = pc[q] /\ Reserved(q)' = Reserved(q)
  BY <1>1, <1>8, AcquireEffect DEF Locks
<1>9. CASE Handle(q) \/ Rollback(q)
  BY <1>1, <1>4, <1>5, <1>6, <1>7, <1>8, <1>9 DEF PointOf, OthersRest
<1>10. CASE \E r \in Request : (Handle(r) \/ Rollback(r)) /\ r # q
  <2>1. task[q].kind = "request"
    BY <1>1, <1>3, <1>10 DEF PointOf
  <2>2. QED
    BY <1>3, <1>10, <2>1
<1>11. QED
  BY <1>2, <1>9, <1>10, StepOf

LEMMA AloneNext == IInv /\ AloneInv /\ [Next]_vars => AloneInv'
<1> SUFFICES ASSUME IInv, AloneInv, [Next]_vars,
                    NEW q \in Request, NEW r \in Request, q # r,
                    pc'[q] \in RequestPoints, pc'[r] \in RequestPoints,
                    NEW x \in AskedBy(q) \cap AskedBy(r)
             PROVE  task' = task /\ x \in crowded'
  BY DEF AloneInv, AskedBy
<1>1. task' = task
  BY UnderWay
<1>2. crowded \subseteq crowded'
  BY WhoWrites
<1>3. ASSUME NEW a \in Request, NEW b \in Request, a # b, pc[b] \in RequestPoints,
             Count(a), x \in AskedBy(a), x \in AskedBy(b)
      PROVE  x \in crowded'
  <2>1. task[b].kind = "request"
    BY <1>3 DEF IInv, HoldsInv, HoldsOf, PointOf
  <2>2. Running(b)
    BY <1>3 DEF Running, Ended, RequestPoints
  <2>3. b \in Side(x)
    BY <1>3, <2>1, <2>2 DEF Side, AskedBy
  <2>4. crowded' = crowded \cup {y \in {task[a].phone, task[a].ip} : Side(y) # {}}
    BY <1>3 DEF Count
  <2>5. QED
    BY <1>3, <2>3, <2>4 DEF AskedBy
<1>4. /\ pc[q] \in RequestPoints \/ (Count(q) /\ pc'[r] = pc[r])
      /\ pc[r] \in RequestPoints \/ (Count(r) /\ pc'[q] = pc[q])
  BY UnderWay DEF OthersRest
<1>5. CASE pc[q] \in RequestPoints /\ pc[r] \in RequestPoints
  BY <1>1, <1>2, <1>5 DEF AloneInv
<1>6. CASE pc[q] \notin RequestPoints
  BY <1>1, <1>3, <1>4, <1>6
<1>7. CASE pc[r] \notin RequestPoints
  BY <1>1, <1>3, <1>4, <1>7
<1>8. QED
  BY <1>5, <1>6, <1>7

\* Who is about to insert a challenge for x, when nobody crowds x.
LEMMA AboutToInsert ==
  ASSUME IInv, LimitInv, NEW r \in Request, CommitRequest(r)
  PROVE  /\ task[r].phone \in Phone /\ task[r].ip \in Ip
         /\ task[r].phone \notin crowded =>
              Cardinality(RecentOf(task[r].phone)) < PhoneLimit
         /\ task[r].ip \notin crowded =>
              Cardinality(RecentOf(task[r].ip)) < IpLimit
<1>1. task[r].kind = "request" /\ pc[r] \in RequestPoints
  BY CommitRequestEffect DEF RequestPoints
<1>2. task[r].phone \in Phone /\ task[r].ip \in Ip
  BY <1>1, TaskFields DEF IInv, Locks
<1>3. QED
  BY <1>1, <1>2 DEF LimitInv, LimitOf

\* One more challenge is within a limit that was not reached.
LEMMA WithinLimit ==
  ASSUME IInv, [Next]_vars, NEW x, NEW limit \in Nat,
         Cardinality(RecentOf(x)) <= limit,
         \A r \in Request : CommitRequest(r) /\ x \in AskedBy(r)
           => Cardinality(RecentOf(x)) < limit
  PROVE  Cardinality(RecentOf(x)') <= limit
<1>1. RecentOf(x) \in SUBSET Challenge
  BY DEF RecentOf, Recent
<1> DEFINE S == RecentOf(x)
           T == RecentOf(x)'
<1>2. \/ T \subseteq S
      \/ \E r \in Request : /\ CommitRequest(r) /\ x \in AskedBy(r)
                            /\ T \subseteq S \cup {task[r].id}
  BY RecentGrows
<1>3. S \in SUBSET Challenge
  BY <1>1
<1>4. Cardinality(S) <= limit
  OBVIOUS
<1>5. \A r \in Request : CommitRequest(r) /\ x \in AskedBy(r) => Cardinality(S) < limit
  OBVIOUS
<1> HIDE DEF S, T
<1>6. CASE T \subseteq S
  <2>1. /\ Cardinality(S) \in Nat /\ Cardinality(T) \in Nat
        /\ Cardinality(T) <= Cardinality(S)
    BY <1>3, <1>6, Fewer
  <2>2. QED
    BY <1>4, <2>1 DEF T
<1>7. ASSUME NEW r \in Request, CommitRequest(r), x \in AskedBy(r),
             T \subseteq S \cup {task[r].id}
      PROVE  Cardinality(T) <= limit
  <2>1. Cardinality(T) \in Nat /\ Cardinality(T) <= Cardinality(S) + 1
    BY <1>3, <1>7, OneMore
  <2>2. Cardinality(S) \in Nat
    BY <1>3, Fewer
  <2>3. Cardinality(S) < limit
    BY <1>5, <1>7
  <2>4. QED
    BY <2>1, <2>2, <2>3
<1>8. QED
  BY <1>2, <1>6, <1>7 DEF T

LEMMA LimitsNext ==
  IInv /\ LimitInv /\ [Next]_vars => LimitsHoldUnlessCrowded'
<1> SUFFICES ASSUME IInv, LimitInv, [Next]_vars PROVE LimitsHoldUnlessCrowded'
  OBVIOUS
<1>1. crowded \subseteq crowded' /\ PhoneLimit \in Nat /\ IpLimit \in Nat
  BY WhoWrites, PasswordAssumption
<1>2. ASSUME NEW ph \in Phone, ph \notin crowded
      PROVE  Cardinality(RecentOf(ph)') <= PhoneLimit
  <2>1. Cardinality(RecentOf(ph)) <= PhoneLimit
    BY <1>2 DEF LimitInv, LimitsHoldUnlessCrowded
  <2>2. \A r \in Request : CommitRequest(r) /\ ph \in AskedBy(r) => ph = task[r].phone
    BY AboutToInsert, PasswordAssumption DEF AskedBy
  <2>3. \A r \in Request : CommitRequest(r) /\ ph \in AskedBy(r)
          => Cardinality(RecentOf(ph)) < PhoneLimit
    BY <1>2, <2>2, AboutToInsert
  <2>4. QED
    BY <1>1, <2>1, <2>3, WithinLimit
<1>3. ASSUME NEW ip \in Ip, ip \notin crowded
      PROVE  Cardinality(RecentOf(ip)') <= IpLimit
  <2>1. Cardinality(RecentOf(ip)) <= IpLimit
    BY <1>3 DEF LimitInv, LimitsHoldUnlessCrowded
  <2>2. \A r \in Request : CommitRequest(r) /\ ip \in AskedBy(r) => ip = task[r].ip
    BY AboutToInsert, PasswordAssumption DEF AskedBy
  <2>3. \A r \in Request : CommitRequest(r) /\ ip \in AskedBy(r)
          => Cardinality(RecentOf(ip)) < IpLimit
    BY <1>3, <2>2, AboutToInsert
  <2>4. QED
    BY <1>1, <2>1, <2>3, WithinLimit
<1>4. ASSUME NEW ph \in Phone, ph \notin crowded
      PROVE  Cardinality(OpenFor(ph)') <= 1
  <2>1. CASE OpenFor(ph)' \subseteq OpenFor(ph)
    <3> DEFINE S == OpenFor(ph)
               T == OpenFor(ph)'
    <3>1. S \in SUBSET Challenge /\ T \in SUBSET S /\ Cardinality(S) <= 1
      BY <1>4, <2>1, OpenChallenges DEF LimitInv, LimitsHoldUnlessCrowded
    <3> HIDE DEF S, T
    <3>2. /\ Cardinality(S) \in Nat /\ Cardinality(T) \in Nat
          /\ Cardinality(T) <= Cardinality(S)
      BY <3>1, Fewer
    <3>3. Cardinality(T) <= 1
      BY <3>1, <3>2
    <3>4. QED
      BY <3>3 DEF T
  <2>2. ASSUME NEW r \in Request, CommitRequest(r), ph = task[r].phone
        PROVE  Cardinality(OpenFor(ph)') <= 1
    <3> DEFINE T == OpenFor(ph)'
    <3>1. task' = task
      BY <2>2, RequestMoves DEF IInv, OthersRest
    <3>2. OpenFor(task[r].phone)' \subseteq {task[r].id}
      BY <1>4, <2>2, OthersClosed
    <3>3. T \subseteq {task[r].id}
      BY <2>2, <3>1, <3>2 DEF OpenFor
    <3> HIDE DEF T
    <3>4. Cardinality(T) <= 1
      BY <3>3, AtMostOne
    <3>5. QED
      BY <3>4 DEF T
  <2>3. QED
    BY <2>1, <2>2, OpenGrows
<1>5. QED
  BY <1>1, <1>2, <1>3, <1>4 DEF LimitsHoldUnlessCrowded

\* Nobody else inserts what a request has counted, unless they crowd.
LEMMA NobodyElseInserts ==
  ASSUME IInv, AloneInv, NEW q \in Request, pc[q] \in RequestPoints,
         pc'[q] \in RequestPoints, NEW x \in AskedBy(q), x \notin crowded,
         NEW r \in Request, CommitRequest(r)
  PROVE  x \notin AskedBy(r)
<1>1. pc'[r] = "done" /\ pc[r] \in RequestPoints
  BY RequestMoves, CommitRequestEffect DEF IInv, RequestPoints
<1>2. q # r
  BY <1>1 DEF RequestPoints
<1>3. QED
  BY <1>1, <1>2 DEF AloneInv

LEMMA RecentStays ==
  ASSUME IInv, AloneInv, [Next]_vars, NEW q \in Request,
         pc'[q] \in RequestPoints, NEW x \in AskedBy(q), x \notin crowded, NEW limit \in Nat,
         pc[q] \in RequestPoints => Cardinality(RecentOf(x)) < limit,
         Count(q) => Cardinality(RecentOf(x)) < limit
  PROVE  Cardinality(RecentOf(x)') < limit
<1> DEFINE S == RecentOf(x)
           T == RecentOf(x)'
<1>1. S \in SUBSET Challenge /\ Cardinality(S) < limit
  BY UnderWay DEF RecentOf, Recent
<1>2. T \subseteq S
  <2>1. CASE pc[q] \in RequestPoints
    BY <2>1, NobodyElseInserts, RecentGrows
  <2>2. CASE Count(q)
    <3>1. UNCHANGED <<challenge, age>>
      BY <2>2 DEF Count, tables
    <3>2. QED
      BY <3>1 DEF RecentOf, Recent, Exists
  <2>3. QED
    BY <2>1, <2>2, UnderWay
<1> HIDE DEF S, T
<1>3. /\ Cardinality(S) \in Nat /\ Cardinality(T) \in Nat
      /\ Cardinality(T) <= Cardinality(S)
  BY <1>1, <1>2, Fewer
<1>4. Cardinality(T) < limit
  BY <1>1, <1>3
<1>5. QED
  BY <1>4 DEF T

LEMMA LimitOfNext ==
  ASSUME IInv, LimitInv, [Next]_vars, NEW q \in Request
  PROVE  LimitOf(q)'
<1> SUFFICES ASSUME pc'[q] \in RequestPoints PROVE LimitOf(q)'
  BY DEF LimitOf
<1> DEFINE ph == task[q].phone
           ip == task[q].ip
<1>1. task' = task /\ crowded \subseteq crowded' /\ AloneInv
  BY UnderWay, WhoWrites DEF LimitInv
<1>2. PhoneLimit \in Nat /\ IpLimit \in Nat /\ ph \in AskedBy(q) /\ ip \in AskedBy(q)
  BY PasswordAssumption DEF AskedBy
<1>3. Count(q) => Cardinality(RecentOf(ph)) < PhoneLimit /\ Cardinality(RecentOf(ip)) < IpLimit
  <2>1. Count(q) => WithinLimits(ph, ip) \/ Finish(q, "failed")
    BY DEF Count, GotoIf
  <2>2. ~ Finish(q, "failed")
    <3>1. Finish(q, "failed") => pc'[q] = "failed"
      BY Moved DEF IInv
    <3>2. QED
      BY <3>1 DEF RequestPoints
  <2>3. QED
    BY <2>1, <2>2 DEF WithinLimits
<1>4. pc[q] \in RequestPoints =>
        /\ ph \notin crowded => Cardinality(RecentOf(ph)) < PhoneLimit
        /\ ip \notin crowded => Cardinality(RecentOf(ip)) < IpLimit
  BY DEF LimitInv, LimitOf
<1>5. ph \notin crowded' => Cardinality(RecentOf(ph)') < PhoneLimit
  BY <1>1, <1>2, <1>3, <1>4, RecentStays
<1>6. ip \notin crowded' => Cardinality(RecentOf(ip)') < IpLimit
  BY <1>1, <1>2, <1>3, <1>4, RecentStays
<1>7. ASSUME pc'[q] # "counted", ph \notin crowded', NEW c \in OpenFor(ph)'
      PROVE  ChallengeRow(c) \in Reserved(q)'
  <2>1. CASE Close(q)
    <3>1. At(q, "counted") /\ challenge' = challenge
      BY <2>1 DEF Close, tables
    <3>2. PICK rows \in Orders({ChallengeRow(d) : d \in OpenFor(ph)}) :
            Goto(q, "inserting", rows)
      BY <2>1 DEF Close
    <3>3. OpenFor(ph)' = OpenFor(ph)
      BY <3>1, <1>1 DEF OpenFor, Open, Exists
    <3>4. /\ rows \in Seq(Lockable)
          /\ {rows[i] : i \in DOMAIN rows} = {ChallengeRow(d) : d \in OpenFor(ph)}
      BY OpenChallenges, RowsOfChallenges
    <3>5. Reserved(q)' = held[q] \cup {rows[i] : i \in DOMAIN rows}
      BY <3>1, <3>2, <3>4, WentBy DEF IInv, Went
    <3>6. QED
      BY <1>7, <3>3, <3>4, <3>5
  <2>2. CASE pc[q] \in RequestPoints \ {"counted"} /\ Reserved(q) \subseteq Reserved(q)'
    <3>1. ASSUME NEW r \in Request, CommitRequest(r)
          PROVE  ph # task[r].phone
      <4>1. ph \notin crowded /\ pc[q] \in RequestPoints
        BY <1>1, <1>7, <2>2
      <4>2. ph \notin AskedBy(r)
        BY <1>1, <1>2, <3>1, <4>1, NobodyElseInserts
      <4>3. QED
        BY <4>2 DEF AskedBy
    <3>2. c \in OpenFor(ph)
      <4>1. c \in {d \in Challenge : Open(d)' /\ challenge'[d].phone = ph}
        BY <1>1, <1>7 DEF OpenFor
      <4>2. PICK x : x = ph
        OBVIOUS
      <4>3. c \in OpenFor(x)'
        BY <4>1, <4>2 DEF OpenFor
      <4>4. \A r \in Request : CommitRequest(r) => x # task[r].phone
        BY <3>1, <4>2
      <4>5. OpenFor(x)' \subseteq OpenFor(x)
        BY <4>4, OpenGrows
      <4>6. QED
        BY <4>2, <4>3, <4>5
    <3>3. ChallengeRow(c) \in Reserved(q)
      BY <1>1, <1>7, <2>2, <3>2 DEF LimitInv, LimitOf
    <3>4. QED
      BY <2>2, <3>3
  <2>3. QED
    BY <1>7, <2>1, <2>2, UnderWay
<1>8. QED
  BY <1>1, <1>5, <1>6, <1>7 DEF LimitOf, RecentOf, OpenFor, ChallengeRow

LEMMA LimitNext == IInv /\ LimitInv /\ [Next]_vars => LimitInv'
<1>1. IInv /\ LimitInv /\ [Next]_vars => AloneInv'
  BY AloneNext DEF LimitInv
<1>2. IInv /\ LimitInv /\ [Next]_vars => LimitsHoldUnlessCrowded'
  BY LimitsNext
<1>3. IInv /\ LimitInv /\ [Next]_vars => \A r \in Request : LimitOf(r)'
  BY LimitOfNext
<1>4. QED
  BY <1>1, <1>2, <1>3 DEF LimitInv

LEMMA LimitInit == Init => LimitInv
<1> SUFFICES ASSUME Init PROVE LimitInv
  OBVIOUS
<1>1. \A r \in Request : pc[r] = "idle"
  BY LocksInit DEF Init
<1>2. AloneInv /\ \A r \in Request : LimitOf(r)
  BY <1>1 DEF AloneInv, LimitOf, RequestPoints
<1>3. ASSUME NEW x
      PROVE  Cardinality(RecentOf(x)) \in Nat /\ Cardinality(OpenFor(x)) \in Nat
  <2>1. RecentOf(x) \in SUBSET Challenge /\ OpenFor(x) \in SUBSET Challenge
    BY OpenChallenges DEF RecentOf, Recent
  <2>2. QED
    BY <2>1, Fewer
<1>4. \A ph \in Phone \ crowded : /\ ~ (Cardinality(RecentOf(ph)) > PhoneLimit)
                                  /\ ~ (Cardinality(OpenFor(ph)) > 1)
  BY DEF Init
<1>5. \A ip \in Ip \ crowded : ~ (Cardinality(RecentOf(ip)) > IpLimit)
  BY DEF Init
<1>6. LimitsHoldUnlessCrowded
  BY <1>3, <1>4, <1>5, PasswordAssumption DEF LimitsHoldUnlessCrowded
<1>7. QED
  BY <1>2, <1>6 DEF LimitInv

\* Rate limits hold, and a phone number has one open code, for whoever does
\* not ask side by side: between its count and its commit a request that
\* nobody crowds is the only one that inserts for its number and address.
THEOREM LimitsAreKept == Spec => []LimitsHoldUnlessCrowded
<1>1. Init => IInv /\ LimitInv
  BY InitHolds, LimitInit
<1>2. IInv /\ LimitInv /\ [Next]_vars => IInv' /\ LimitInv'
  BY NextHolds, LimitNext
<1>3. LimitInv => LimitsHoldUnlessCrowded
  BY DEF LimitInv
<1>4. QED
  BY <1>1, <1>2, <1>3, PTL DEF Spec
=============================================================================
