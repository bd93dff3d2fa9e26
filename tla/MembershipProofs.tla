-------------------------- MODULE MembershipProofs --------------------------
(***************************************************************************)
(* Why every store with members keeps a manager, why nothing that others   *)
(* refer to is removed, and why the services implement StoreRoster, for    *)
(* any number of stores, users, invitations and overlapping requests.  A   *)
(* handler decides on rows that it has locked, and nobody else changes     *)
(* them before it commits; what the views have read without a lock is used *)
(* for nothing that can become false.                                      *)
(***************************************************************************)
EXTENDS Membership, RowLocksProofs, FiniteSetTheorems

Lockable ==
       ({"store"} \X Store) \cup ({"member"} \X Key) \cup ({"offer"} \X Token)
  \cup (({"user", "place"}) \X User) \cup ({"number"} \X Phone)

Locks == LocksInv(Lockable) /\ task \in Traffic

\* Who has not arrived or has ended waits for no lock.
RestInv ==
  \A r \in Request : pc[r] \in {"idle", "done", "failed"} => plan[r] = << >>

\* Each kind of request has its own points.
PointsInv ==
  \A r \in Request :
    /\ pc[r] = "permitted" => task[r].kind \in ByManager
    /\ pc[r] \in {"claimed", "identified"} => Joins(r)
    /\ pc[r] \in {"inserting", "committing"} => task[r].kind \in Hiring
    /\ pc[r] = "inviting" => task[r].kind = "invite"
    /\ pc[r] = "saving" => task[r].kind \in {"role", "remove"}
    /\ pc[r] \in {"invite", "revoke", "role", "remove", "grant", "ungrant",
                  "profile", "sell"} => task[r].kind = pc[r]

\* The acting membership has been read where a service uses it.
ActorInv ==
  \A r \in Request :
    /\ pc[r] \in {"invite", "inviting", "revoke", "role", "remove", "saving",
                  "grant", "ungrant"} => actor[r] # NoRow
    /\ pc[r] \in {"inserting", "committing"} /\ task[r].kind = "add"
         => actor[r] # NoRow

\* The rows that a handler has locked, or is locking, by the point it is at.
HoldsInv ==
  \A r \in Request :
    /\ pc[r] \in {"idle", "permitted"} => Reserved(r) = {}
    /\ pc[r] = "inserting" => Place(task[r].user) \in Reserved(r)
    /\ pc[r] = "committing" => Place(task[r].user) \in held[r]
    /\ pc[r] = "claimed" => OfferRow(task[r].token) \in Reserved(r)
    /\ Joins(r) /\ pc[r] \in {"identified", "inserting", "committing"}
         => OfferRow(task[r].token) \in held[r]
    /\ pc[r] = "invite" => /\ StoreRow(actor[r].store) \in Reserved(r)
                           /\ \A tok \in Token : OfferRow(tok) \notin Reserved(r)
    /\ pc[r] = "inviting" => StoreRow(actor[r].store) \in held[r]
    /\ pc[r] = "revoke" => OfferRow(task[r].token) \in Reserved(r)
    /\ pc[r] \in {"role", "remove"} =>
         /\ StoreRow(actor[r].store) \in Reserved(r)
         /\ MemberRow(task[r].key) \in Reserved(r)
    /\ pc[r] = "saving" => /\ StoreRow(actor[r].store) \in held[r]
                           /\ MemberRow(task[r].key) \in held[r]
    /\ pc[r] = "sell" => MemberRow(task[r].key) \in Reserved(r)
-----------------------------------------------------------------------------
(* What requests ask for *)

LEMMA RowsDiffer ==
  /\ \A a, b : /\ StoreRow(a) = StoreRow(b) => a = b
               /\ OfferRow(a) = OfferRow(b) => a = b
               /\ MemberRow(a) = MemberRow(b) => a = b
               /\ Place(a) = Place(b) => a = b
  /\ \A a, b : /\ OfferRow(a) # StoreRow(b) /\ OfferRow(a) # MemberRow(b)
               /\ OfferRow(a) # Place(b)
  BY DEF StoreRow, OfferRow, MemberRow, Place

LEMMA RowsAreLockable ==
  /\ \A st \in Store : StoreRow(st) \in Lockable
  /\ \A k \in Key : MemberRow(k) \in Lockable
  /\ \A tok \in Token : OfferRow(tok) \in Lockable
  /\ \A u \in User : UserRow(u) \in Lockable /\ Place(u) \in Lockable
  /\ \A ph \in Phone : Number(ph) \in Lockable
  BY DEF Lockable, StoreRow, MemberRow, OfferRow, UserRow, Place, Number

LEMMA TaskFields ==
  ASSUME task \in Traffic, NEW r \in Request
  PROVE  /\ task[r].kind \in Hiring =>
              /\ task[r].user \in User /\ task[r].key \in Key
         /\ task[r].kind = "found" => task[r].store \in Store
         /\ Joins(r) => /\ task[r].token \in Token
                        /\ task[r].user \in User /\ task[r].key \in Key
         /\ task[r].kind \in {"add", "role", "invite"} => task[r].role \in Role
         /\ task[r].kind = "invite" =>
              task[r].phone \in Phone /\ task[r].token \in Token
         /\ task[r].kind = "revoke" => task[r].token \in Token
         /\ task[r].kind \in {"role", "remove", "grant", "ungrant", "sell"} =>
              task[r].key \in Key
         /\ task[r].kind \in {"grant", "ungrant"} => task[r].code \in Code
         /\ task[r].kind = "profile" =>
              task[r].user \in User /\ task[r].phone \in Phone
         /\ Joins(r) <=> task[r].kind \in {"accept", "register"}
         /\ task[r].kind \in {"found", "add", "accept", "register"}
              \cup {"profile", "invite", "revoke", "role", "remove"}
              \cup {"grant", "ungrant", "sell"}
<1>1. task[r] \in Operation
  BY MembershipAssumption
<1>2. Joins(r) <=> task[r].kind \in {"accept", "register"}
  BY DEF Joins
<1>3. QED
  BY <1>1, <1>2 DEF Operation, Hiring

LEMMA Absent == NoRow \notin Membership /\ NoRow \notin Invitation
  BY MembershipAssumption

LEMMA RowFields ==
  ASSUME TypeOK
  PROVE  /\ \A k \in Keys : member[k] \in Membership
         /\ \A tok \in Token : invitation[tok] # NoRow => invitation[tok] \in Invitation
         /\ \A r \in Request : actor[r] # NoRow => actor[r] \in Membership
  BY DEF TypeOK, Keys

-----------------------------------------------------------------------------
(* Steps *)

\* The steps of a transaction that change no table.
Walks(r) ==
  \/ Permit(r) \/ Load(r) \/ Found(r) \/ Claim(r) \/ Validate(r) \/ Identify(r)
  \/ Insert(r) \/ Supersede(r) \/ Decide(r) \/ Arrive(r)

\* Those that end it.
Commits(r) ==
  \/ CommitMember(r) \/ CommitOffer(r) \/ CommitRevoke(r) \/ CommitChange(r)
  \/ CommitCode(r) \/ CommitProfile(r) \/ CommitSale(r)

Waits(r) == Acquire(r) /\ UNCHANGED <<tables, expired, actor>>

Moves(r) == Waits(r) \/ Walks(r) \/ Commits(r) \/ Rollback(r)

LEMMA Steps ==
  ASSUME [Next]_vars
  PROVE  \/ \E r \in Request : Moves(r)
         \/ \E tok \in Token : Expire(tok)
         \/ UNCHANGED vars
  BY DEF Next, Handle, Finished, Moves, Waits, Walks, Commits

\* A step that goes no further.
Fails(r) == Finish(r, "failed") /\ UNCHANGED <<tables, expired>>

\* A step that goes on from one point to another by a statement that locks
\* some rows.
Goes(r, from, where, rows) ==
  /\ At(r, from) /\ Goto(r, where, rows) /\ UNCHANGED <<tables, expired>>

LEMMA RollbackFails ==
  ASSUME NEW r \in Request, Rollback(r)
  PROVE  Fails(r) /\ actor' = actor
  BY DEF Rollback, Crash, ResolveDeadlock, Fails

LEMMA WaitEffect ==
  ASSUME Locks, NEW r \in Request, Waits(r)
  PROVE  /\ Locks' /\ OthersRest(r) /\ UNCHANGED <<tables, expired, actor>>
         /\ pc'[r] = pc[r] /\ held[r] \subseteq held'[r]
         /\ Reserved(r)' = Reserved(r)
  BY AcquireEffect DEF Locks, Waits, OthersRest

LEMMA FailEffect ==
  ASSUME Locks, NEW r \in Request, Fails(r)
  PROVE  /\ Locks' /\ OthersRest(r) /\ UNCHANGED <<tables, expired>>
         /\ pc'[r] = "failed" /\ plan'[r] = << >>
<1>1. Finish(r, "failed")
  BY DEF Fails
<1>2. QED
  BY <1>1, FinishEffect DEF Locks, Fails, OthersRest

LEMMA GoesEffect ==
  ASSUME Locks, NEW r \in Request, NEW from, NEW where, NEW rows \in Seq(Lockable),
         Goes(r, from, where, rows)
  PROVE  /\ Locks' /\ OthersRest(r) /\ UNCHANGED <<tables, expired>>
         /\ pc[r] = from /\ pc'[r] = where /\ plan'[r] = rows
         /\ Reserved(r) = held[r] /\ held'[r] = held[r]
<1>1. Goto(r, where, rows) /\ At(r, from)
  BY DEF Goes
<1>2. QED
  BY <1>1, GotoEffect, AtHolds DEF Locks, Goes, OthersRest

\* The locks that a request has by then: what it had, and those of its statement.
LEMMA Reserves ==
  ASSUME NEW r \in Request, NEW rows, plan'[r] = rows, held'[r] = held[r],
         Reserved(r) = held[r]
  PROVE  Reserved(r)' = held[r] \cup {rows[i] : i \in DOMAIN rows}
  BY DEF Reserved

LEMMA OneRow ==
  ASSUME NEW x \in Lockable
  PROVE  <<x>> \in Seq(Lockable) /\ {<<x>>[i] : i \in DOMAIN <<x>>} = {x}
<1>1. DOMAIN <<x>> = {1} /\ <<x>>[1] = x
  OBVIOUS
<1>2. QED
  BY <1>1

LEMMA TwoRows ==
  ASSUME NEW x \in Lockable, NEW y \in Lockable
  PROVE  /\ <<x, y>> \in Seq(Lockable)
         /\ {<<x, y>>[i] : i \in DOMAIN <<x, y>>} = {x, y}
<1>1. DOMAIN <<x, y>> = {1, 2} /\ <<x, y>>[1] = x /\ <<x, y>>[2] = y
  OBVIOUS
<1>2. <<x, y>> \in Seq(Lockable)
  OBVIOUS
<1>3. QED
  BY <1>1, <1>2

LEMMA NoRows == << >> \in Seq(Lockable) /\ {<< >>[i] : i \in DOMAIN << >>} = {}
  OBVIOUS

-----------------------------------------------------------------------------
(* What each step on the way does *)

LEMMA PermitEffect ==
  ASSUME NEW r \in Request, Permit(r)
  PROVE  /\ actor' = actor
         /\ \/ Fails(r)
            \/ /\ Goes(r, "idle", "permitted", << >>) /\ task[r].kind \in ByManager
  BY DEF Permit, GotoIf, Fails, Goes

\* The acting membership "me" and what is done for it.
Serves(r, me) ==
  /\ actor' = [actor EXCEPT ![r] = me] /\ MayAct(task[r], me)
  /\ Goes(r, "permitted", IF task[r].kind = "add" THEN "inserting" ELSE task[r].kind,
          FirstLocks(task[r], me))

LEMMA LoadEffect ==
  ASSUME NEW r \in Request, Load(r)
  PROVE  \/ Fails(r) /\ actor' = actor
         \/ \E k \in Keys : /\ \/ Fails(r) /\ actor' = [actor EXCEPT ![r] = member[k]]
                               \/ Serves(r, member[k])
                            /\ pc[r] = "permitted"
  BY DEF Load, GotoIf, Fails, Goes, Serves, Of, At

LEMMA FoundEffect ==
  ASSUME NEW r \in Request, Found(r)
  PROVE  /\ actor' = actor
         /\ \/ Fails(r)
            \/ /\ Goes(r, "idle", "inserting", <<Place(task[r].user)>>)
               /\ task[r].kind = "found"
  BY DEF Found, GotoIf, Fails, Goes

LEMMA ClaimEffect ==
  ASSUME NEW r \in Request, Claim(r)
  PROVE  /\ actor' = actor
         /\ \/ Fails(r)
            \/ /\ Goes(r, "idle", "claimed",
                       <<OfferRow(task[r].token),
                         StoreRow(invitation[task[r].token].store)>>)
               /\ Joins(r) /\ invitation[task[r].token] # NoRow
  BY DEF Claim, Fails, Goes, Joins

LEMMA ValidateEffect ==
  ASSUME NEW r \in Request, Validate(r)
  PROVE  /\ actor' = actor
         /\ \/ Fails(r)
            \/ /\ Goes(r, "claimed", "identified",
                       IF task[r].kind = "accept" THEN <<UserRow(task[r].user)>>
                       ELSE <<Number(invitation[task[r].token].phone)>>)
               /\ Valid(task[r].token)
  BY DEF Validate, GotoIf, Fails, Goes

LEMMA IdentifyEffect ==
  ASSUME NEW r \in Request, Identify(r)
  PROVE  /\ actor' = actor
         /\ \/ Fails(r)
            \/ Goes(r, "identified", "inserting", <<Place(task[r].user)>>)
  BY DEF Identify, GotoIf, Fails, Goes

LEMMA InsertEffect ==
  ASSUME NEW r \in Request, Insert(r)
  PROVE  /\ actor' = actor
         /\ \/ Fails(r)
            \/ /\ Goes(r, "inserting", "committing",
                       <<StoreRow(Hires(r).store), UserRow(Hires(r).user)>>)
               /\ Of(Hires(r).user) = {}
  BY DEF Insert, GotoIf, Fails, Goes

LEMMA SupersedeEffect ==
  ASSUME NEW r \in Request, Supersede(r)
  PROVE  /\ actor' = actor
         /\ \E rows \in Orders({OfferRow(tok) : tok \in Superseded(r)}) :
              Goes(r, "invite", "inviting", rows)
  BY DEF Supersede, Goes

LEMMA DecideEffect ==
  ASSUME NEW r \in Request, Decide(r)
  PROVE  /\ actor' = actor
         /\ \/ Fails(r)
            \/ /\ Goes(r, task[r].kind, "saving", << >>)
               /\ task[r].kind \in {"role", "remove"} /\ task[r].key \in Keys
               /\ LastManager(task[r].key) =>
                    task[r].kind = "role" /\ task[r].role = "manager"
               /\ task[r].kind = "remove" => task[r].key \notin sellers
  BY DEF Decide, GotoIf, Fails, Goes

LEMMA ArriveEffect ==
  ASSUME NEW r \in Request, Arrive(r)
  PROVE  /\ actor' = actor /\ task[r].kind \in {"profile", "sell"}
         /\ Goes(r, "idle", task[r].kind,
                 IF task[r].kind = "sell" THEN <<MemberRow(task[r].key)>>
                 ELSE <<UserRow(task[r].user), Number(task[r].phone)>>)
  BY DEF Arrive, Goes

-----------------------------------------------------------------------------
(* Types and rows on the way *)

\* The invitation that a request is about to consume.
JoinInv ==
  \A r \in Request : Joins(r) =>
    /\ pc[r] \in {"claimed", "identified", "inserting", "committing"}
         => invitation[task[r].token] # NoRow
    /\ pc[r] \in {"identified", "inserting", "committing"}
         => Pending(task[r].token)

LEMMA HiresFields ==
  ASSUME task \in Traffic, TypeOK, NEW r \in Request, task[r].kind \in Hiring,
         task[r].kind = "add" => actor[r] # NoRow,
         Joins(r) => invitation[task[r].token] # NoRow
  PROVE  /\ Hires(r) \in Membership /\ Hires(r).user = task[r].user
         /\ task[r].kind = "found" => Hires(r).role = "manager"
         /\ task[r].kind = "add" => Hires(r).store = actor[r].store
         /\ Joins(r) => /\ Hires(r).store = invitation[task[r].token].store
                        /\ Hires(r).role = invitation[task[r].token].role
<1> DEFINE t == task[r]
<1>1. /\ t.user \in User /\ t.kind \in {"found", "add", "accept", "register"}
      /\ t.kind = "found" => t.store \in Store
      /\ t.kind = "add" => t.role \in Role
      /\ Joins(r) => t.token \in Token
      /\ Joins(r) <=> t.kind \in {"accept", "register"}
  BY TaskFields DEF Hiring
<1>2. CASE t.kind = "found"
  <2>1. Hires(r) = [user |-> t.user, store |-> t.store, role |-> "manager"]
    BY <1>2 DEF Hires
  <2>2. QED
    BY <1>1, <1>2, <2>1 DEF Membership, Role
<1>3. CASE t.kind = "add"
  <2>1. Hires(r) = [user |-> t.user, store |-> actor[r].store, role |-> t.role]
    BY <1>3 DEF Hires
  <2>2. actor[r].store \in Store
    BY <1>3, RowFields DEF Membership
  <2>3. QED
    BY <1>1, <1>3, <2>1, <2>2 DEF Membership
<1>4. CASE Joins(r)
  <2>1. Hires(r) = [user |-> t.user, store |-> invitation[t.token].store,
                    role |-> invitation[t.token].role]
    BY <1>1, <1>4 DEF Hires
  <2>2. invitation[t.token].store \in Store /\ invitation[t.token].role \in Role
    BY <1>1, <1>4, RowFields DEF Invitation
  <2>3. QED
    BY <1>1, <1>4, <2>1, <2>2 DEF Membership
<1>5. QED
  BY <1>1, <1>2, <1>3, <1>4

\* The member of a request that is about to hire one.
LEMMA HiresNow ==
  ASSUME Locks, TypeOK, PointsInv, ActorInv, JoinInv, NEW r \in Request,
         pc[r] \in {"inserting", "committing"}
  PROVE  /\ Hires(r) \in Membership /\ Hires(r).user = task[r].user
         /\ task[r].kind = "found" => Hires(r).role = "manager"
         /\ task[r].kind = "add" => /\ Hires(r).store = actor[r].store
                                    /\ actor[r] # NoRow
         /\ Joins(r) => /\ Hires(r).store = invitation[task[r].token].store
                        /\ Hires(r).role = invitation[task[r].token].role
                        /\ invitation[task[r].token] # NoRow
         /\ task[r].user \in User /\ task[r].key \in Key
         /\ task[r].kind \in Hiring
<1>1. /\ task[r].kind \in Hiring /\ task \in Traffic
      /\ task[r].kind = "add" => actor[r] # NoRow
      /\ Joins(r) => invitation[task[r].token] # NoRow
  BY DEF PointsInv, ActorInv, JoinInv, Locks
<1>2. QED
  BY <1>1, HiresFields, TaskFields

LEMMA FirstLocksAreRows ==
  ASSUME task \in Traffic, NEW r \in Request, task[r].kind \in ByManager,
         NEW me \in Membership
  PROVE  FirstLocks(task[r], me) \in Seq(Lockable)
<1> DEFINE t == task[r]
<1>1. me.store \in Store /\ t.kind \in ByManager
  BY DEF Membership
<1>2. CASE t.kind = "add"
  <2>1. FirstLocks(t, me) = <<Place(t.user)>>
    BY <1>2 DEF FirstLocks
  <2>2. Place(t.user) \in Lockable
    BY <1>2, TaskFields, RowsAreLockable DEF Hiring
  <2>3. QED
    BY <2>1, <2>2, OneRow
<1>3. CASE t.kind = "invite"
  <2>1. FirstLocks(t, me) = <<StoreRow(me.store)>>
    BY <1>3 DEF FirstLocks
  <2>2. StoreRow(me.store) \in Lockable
    BY <1>1, RowsAreLockable
  <2>3. QED
    BY <2>1, <2>2, OneRow
<1>4. CASE t.kind = "revoke"
  <2>1. FirstLocks(t, me) = <<OfferRow(t.token)>>
    BY <1>4 DEF FirstLocks
  <2>2. OfferRow(t.token) \in Lockable
    BY <1>4, TaskFields, RowsAreLockable
  <2>3. QED
    BY <2>1, <2>2, OneRow
<1>5. CASE t.kind \in {"role", "remove"}
  <2>1. FirstLocks(t, me) = <<StoreRow(me.store), MemberRow(t.key)>>
    BY <1>5 DEF FirstLocks
  <2>2. StoreRow(me.store) \in Lockable /\ MemberRow(t.key) \in Lockable
    BY <1>1, <1>5, TaskFields, RowsAreLockable
  <2>3. QED
    BY <2>1, <2>2, TwoRows
<1>6. CASE t.kind = "grant"
  <2>1. FirstLocks(t, me) = <<MemberRow(t.key)>>
    BY <1>6 DEF FirstLocks
  <2>2. MemberRow(t.key) \in Lockable
    BY <1>6, TaskFields, RowsAreLockable
  <2>3. QED
    BY <2>1, <2>2, OneRow
<1>7. CASE t.kind = "ungrant"
  BY <1>7 DEF FirstLocks
<1>8. QED
  BY <1>1, <1>2, <1>3, <1>4, <1>5, <1>6, <1>7 DEF ByManager

\* The invitations that a new one replaces, in some order.
LEMMA SupersededRows ==
  ASSUME NEW r \in Request,
         NEW rows \in Orders({OfferRow(tok) : tok \in Superseded(r)})
  PROVE  /\ rows \in Seq(Lockable)
         /\ {rows[i] : i \in DOMAIN rows} = {OfferRow(tok) : tok \in Superseded(r)}
<1> DEFINE S == {OfferRow(tok) : tok \in Superseded(r)}
           f == [tok \in Superseded(r) |-> OfferRow(tok)]
<1>1. Superseded(r) \in SUBSET Token
  BY DEF Superseded
<1>2. IsFiniteSet(Superseded(r))
  BY <1>1, MembershipAssumption, FS_Subset
<1>3. f \in Surjection(Superseded(r), S)
  BY DEF Surjection
<1>4. S \in SUBSET Lockable
  BY <1>1, RowsAreLockable
<1>5. rows \in Orders(S)
  OBVIOUS
<1> HIDE DEF S, f
<1>6. Cardinality(S) \in Nat
  BY <1>2, <1>3, FS_Surjection, FS_CardinalityType
<1>7. rows \in Seq(Lockable) /\ {rows[i] : i \in DOMAIN rows} = S
  BY <1>4, <1>5, <1>6, OrdersAreSequences
<1>8. QED
  BY <1>7 DEF S

\* A step on the way leaves the tables and the other requests alone.
LEMMA WalkEffect ==
  ASSUME Locks, TypeOK, PointsInv, ActorInv, JoinInv, NEW r \in Request, Walks(r)
  PROVE  /\ Locks' /\ OthersRest(r) /\ UNCHANGED <<tables, expired>>
         /\ pc'[r] \notin {"idle", "done"}
         /\ pc'[r] = "failed" => plan'[r] = << >>
         /\ \/ actor' = actor
            \/ \E k \in Keys : actor' = [actor EXCEPT ![r] = member[k]]
<1> DEFINE t == task[r]
           Good == /\ Locks' /\ OthersRest(r) /\ UNCHANGED <<tables, expired>>
                   /\ pc'[r] \notin {"idle", "done"}
                   /\ pc'[r] = "failed" => plan'[r] = << >>
<1>1. task \in Traffic
  BY DEF Locks
<1>2. ASSUME Fails(r)
      PROVE  Good
  BY <1>2, FailEffect
<1>3. ASSUME NEW from, NEW where \in {"permitted", "inserting", "claimed",
                                      "identified", "committing", "inviting",
                                      "saving", "profile", "sell"} \cup ByManager,
             NEW rows \in Seq(Lockable), Goes(r, from, where, rows)
      PROVE  Good
  <2>1. where \notin {"idle", "done", "failed"}
    BY DEF ByManager
  <2>2. QED
    BY <1>3, <2>1, GoesEffect
<1>4. CASE Permit(r)
  BY <1>2, <1>3, <1>4, PermitEffect, NoRows
<1>5. CASE Load(r)
  <2>1. CASE Fails(r) /\ actor' = actor
    BY <1>2, <2>1
  <2>2. ASSUME NEW k \in Keys, pc[r] = "permitted",
               \/ Fails(r) /\ actor' = [actor EXCEPT ![r] = member[k]]
               \/ Serves(r, member[k])
        PROVE  Good /\ actor' = [actor EXCEPT ![r] = member[k]]
    <3>1. member[k] \in Membership /\ t.kind \in ByManager
      BY <2>2, RowFields DEF PointsInv
    <3>2. FirstLocks(t, member[k]) \in Seq(Lockable)
      BY <1>1, <3>1, FirstLocksAreRows
    <3>3. CASE Serves(r, member[k])
      BY <1>3, <3>1, <3>2, <3>3 DEF Serves
    <3>4. QED
      BY <1>2, <2>2, <3>3 DEF Serves
  <2>3. QED
    BY <1>5, <2>1, <2>2, LoadEffect
<1>6. CASE Found(r)
  <2>1. t.kind = "found" => <<Place(t.user)>> \in Seq(Lockable)
    BY <1>1, TaskFields, RowsAreLockable, OneRow DEF Hiring
  <2>2. QED
    BY <1>2, <1>3, <1>6, <2>1, FoundEffect
<1>7. CASE Claim(r)
  <2>1. Joins(r) /\ invitation[t.token] # NoRow =>
          <<OfferRow(t.token), StoreRow(invitation[t.token].store)>> \in Seq(Lockable)
    <3>1. ASSUME Joins(r), invitation[t.token] # NoRow
          PROVE  t.token \in Token /\ invitation[t.token].store \in Store
      BY <1>1, <3>1, TaskFields, RowFields DEF Invitation
    <3>2. QED
      BY <3>1, RowsAreLockable, TwoRows
  <2>2. QED
    BY <1>2, <1>3, <1>7, <2>1, ClaimEffect
<1>8. CASE Validate(r)
  <2>1. CASE Fails(r)
    BY <1>2, <1>8, <2>1, ValidateEffect
  <2>2. CASE ~ Fails(r)
    <3> DEFINE rows == IF t.kind = "accept" THEN <<UserRow(t.user)>>
                       ELSE <<Number(invitation[t.token].phone)>>
    <3>1. Goes(r, "claimed", "identified", rows)
      BY <1>8, <2>2, ValidateEffect
    <3>2. pc[r] = "claimed"
      BY <3>1 DEF Goes, At
    <3>3. t.user \in User /\ t.token \in Token /\ invitation[t.token] # NoRow
      BY <1>1, <3>2, TaskFields DEF PointsInv, JoinInv
    <3>4. invitation[t.token].phone \in Phone
      BY <3>3, RowFields DEF Invitation
    <3>5. UserRow(t.user) \in Lockable /\ Number(invitation[t.token].phone) \in Lockable
      BY <3>3, <3>4, RowsAreLockable
    <3>6. rows \in Seq(Lockable)
      BY <3>5, OneRow
    <3> HIDE DEF rows
    <3>7. QED
      BY <1>3, <1>8, <3>1, <3>6, ValidateEffect
  <2>3. QED
    BY <2>1, <2>2
<1>9. CASE Identify(r)
  <2>1. CASE Fails(r)
    BY <1>2, <1>9, <2>1, IdentifyEffect
  <2>2. CASE ~ Fails(r)
    <3>1. Goes(r, "identified", "inserting", <<Place(t.user)>>)
      BY <1>9, <2>2, IdentifyEffect
    <3>2. pc[r] = "identified"
      BY <3>1 DEF Goes, At
    <3>3. Place(t.user) \in Lockable
      BY <1>1, <3>2, TaskFields, RowsAreLockable DEF PointsInv
    <3>4. QED
      BY <1>3, <1>9, <3>1, <3>3, OneRow, IdentifyEffect
  <2>3. QED
    BY <2>1, <2>2
<1>10. CASE Insert(r)
  <2>1. CASE Fails(r)
    BY <1>2, <1>10, <2>1, InsertEffect
  <2>2. CASE ~ Fails(r)
    <3>1. Goes(r, "inserting", "committing",
               <<StoreRow(Hires(r).store), UserRow(Hires(r).user)>>)
      BY <1>10, <2>2, InsertEffect
    <3>2. pc[r] = "inserting"
      BY <3>1 DEF Goes, At
    <3>3. Hires(r).store \in Store /\ Hires(r).user \in User
      BY <3>2, HiresNow DEF Membership
    <3>4. StoreRow(Hires(r).store) \in Lockable /\ UserRow(Hires(r).user) \in Lockable
      BY <3>3, RowsAreLockable
    <3>5. QED
      BY <1>3, <1>10, <3>1, <3>4, TwoRows, InsertEffect
  <2>3. QED
    BY <2>1, <2>2
<1>11. CASE Supersede(r)
  BY <1>3, <1>11, SupersedeEffect, SupersededRows
<1>12. CASE Decide(r)
  BY <1>2, <1>3, <1>12, DecideEffect, NoRows
<1>13. CASE Arrive(r)
  <2>1. t.kind \in {"profile", "sell"} /\ actor' = actor
    BY <1>13, ArriveEffect
  <2>2. CASE t.kind = "sell"
    <3>1. MemberRow(t.key) \in Lockable
      BY <1>1, <2>2, TaskFields, RowsAreLockable
    <3>2. Goes(r, "idle", "sell", <<MemberRow(t.key)>>)
      BY <1>13, <2>2, ArriveEffect
    <3>3. QED
      BY <1>3, <2>1, <3>1, <3>2, OneRow
  <2>3. CASE t.kind = "profile"
    <3>1. UserRow(t.user) \in Lockable /\ Number(t.phone) \in Lockable
      BY <1>1, <2>3, TaskFields, RowsAreLockable
    <3>2. Goes(r, "idle", "profile", <<UserRow(t.user), Number(t.phone)>>)
      BY <1>13, <2>3, ArriveEffect
    <3>3. QED
      BY <1>3, <2>1, <3>1, <3>2, TwoRows
  <2>4. QED
    BY <2>1, <2>2, <2>3
<1>14. QED
  BY <1>4, <1>5, <1>6, <1>7, <1>8, <1>9, <1>10, <1>11, <1>12, <1>13 DEF Walks

-----------------------------------------------------------------------------
(* What the last step of each kind of request does *)

LEMMA DefaultCodes ==
  ASSUME NEW role \in Role
  PROVE  Defaults(role) \subseteq Code
  BY DEF Role, Defaults, Code

\* Rows with a field changed.
WithRole(m, role) == [m EXCEPT !.role = role]
Accepted(o, u) == [o EXCEPT !.status = "accepted", !.by = u]
Revoked(o) == [o EXCEPT !.status = "revoked"]

LEMMA ChangedRows ==
  /\ \A m \in Membership, role \in Role :
       /\ WithRole(m, role) \in Membership
       /\ WithRole(m, role).user = m.user
       /\ WithRole(m, role).store = m.store
       /\ WithRole(m, role).role = role
  /\ \A o \in Invitation, u \in User :
       /\ Accepted(o, u) \in Invitation
       /\ Accepted(o, u).store = o.store
       /\ Accepted(o, u).phone = o.phone
       /\ Accepted(o, u).role = o.role
       /\ Accepted(o, u).status = "accepted"
       /\ Accepted(o, u).by = u
  /\ \A o \in Invitation :
       /\ Revoked(o) \in Invitation
       /\ Revoked(o).store = o.store
       /\ Revoked(o).phone = o.phone
       /\ Revoked(o).role = o.role
       /\ Revoked(o).status = "revoked"
       /\ Revoked(o).by = o.by
  BY DEF Membership, Invitation, WithRole, Accepted, Revoked

LEMMA HireEffect ==
  ASSUME Locks, TypeOK, PointsInv, ActorInv, JoinInv, NEW r \in Request,
         CommitMember(r)
  PROVE  /\ pc[r] = "committing" /\ Reserved(r) = held[r] /\ Finish(r, "done")
         /\ task[r].key \in Key /\ task[r].kind \in Hiring
         /\ \A k \in Key :
              /\ member'[k] = IF k = task[r].key THEN Hires(r) ELSE member[k]
              /\ codes'[k] = IF k = task[r].key THEN Defaults(Hires(r).role)
                             ELSE codes[k]
         /\ \A tok \in Token :
              invitation'[tok] =
                IF Joins(r) /\ tok = task[r].token
                THEN Accepted(invitation[tok], task[r].user)
                ELSE invitation[tok]
         /\ Joins(r) => task[r].token \in Token
         /\ TypeOK' /\ UNCHANGED <<sellers, expired, actor>>
<1>1. /\ pc[r] = "committing" /\ Reserved(r) = held[r] /\ Finish(r, "done")
      /\ UNCHANGED <<sellers, expired, actor>>
  BY AtHolds DEF CommitMember
<1>2. /\ Hires(r) \in Membership /\ task[r].key \in Key /\ task[r].kind \in Hiring
      /\ Joins(r) => task[r].token \in Token
      /\ task[r].user \in User
      /\ Joins(r) => invitation[task[r].token] \in Invitation
  BY <1>1, HiresNow, TaskFields, RowFields DEF Locks
<1>3. /\ member' \in [Key -> Membership \cup {NoRow}]
      /\ \A k \in Key :
           member'[k] = IF k = task[r].key THEN Hires(r) ELSE member[k]
  BY <1>2 DEF CommitMember, TypeOK
<1>4. /\ codes' \in [Key -> SUBSET Code]
      /\ \A k \in Key : codes'[k] = IF k = task[r].key THEN Defaults(Hires(r).role)
                                    ELSE codes[k]
  <2>1. Defaults(Hires(r).role) \in SUBSET Code
    BY <1>2, DefaultCodes DEF Membership
  <2>2. QED
    BY <1>2, <2>1 DEF CommitMember, TypeOK
<1>5. /\ invitation' \in [Token -> Invitation \cup {NoRow}]
      /\ \A tok \in Token :
           invitation'[tok] =
             IF Joins(r) /\ tok = task[r].token
             THEN Accepted(invitation[tok], task[r].user)
             ELSE invitation[tok]
  <2>1. CASE Joins(r)
    <3>1. invitation' = [invitation EXCEPT ![task[r].token] =
                           Accepted(invitation[task[r].token], task[r].user)]
      BY <1>2, <2>1 DEF CommitMember, TypeOK, Accepted
    <3>2. Accepted(invitation[task[r].token], task[r].user)
            \in Invitation
      BY <1>2, <2>1, ChangedRows
    <3>3. QED
      BY <1>2, <2>1, <3>1, <3>2 DEF TypeOK
  <2>2. CASE ~ Joins(r)
    BY <2>2 DEF CommitMember, TypeOK
  <2>3. QED
    BY <2>1, <2>2
<1>6. phone' \in [User -> Phone \cup {NoPhone}]
  <2>1. CASE task[r].kind = "register"
    <3>1. Joins(r)
      BY <2>1, TaskFields DEF Locks
    <3>2. invitation[task[r].token].phone \in Phone
      BY <1>2, <3>1 DEF Invitation
    <3>3. phone' = [phone EXCEPT ![task[r].user] = invitation[task[r].token].phone]
      BY <2>1 DEF CommitMember
    <3>4. QED
      BY <3>2, <3>3 DEF TypeOK
  <2>2. CASE task[r].kind # "register"
    BY <2>2 DEF CommitMember, TypeOK
  <2>3. QED
    BY <2>1, <2>2
<1>7. TypeOK'
  BY <1>1, <1>3, <1>4, <1>5, <1>6 DEF TypeOK
<1>8. QED
  BY <1>1, <1>2, <1>3, <1>4, <1>5, <1>7

LEMMA OfferEffect ==
  ASSUME Locks, TypeOK, PointsInv, ActorInv, NEW r \in Request, CommitOffer(r)
  PROVE  /\ pc[r] = "inviting" /\ Reserved(r) = held[r] /\ Finish(r, "done")
         /\ task[r].token \in Token /\ task[r].kind = "invite"
         /\ actor[r] \in Membership
         /\ \A tok \in Token :
              /\ tok = task[r].token =>
                   invitation'[tok] =
                     [store |-> actor[r].store, phone |-> task[r].phone,
                      role |-> task[r].role, status |-> "pending", by |-> NoUser]
              /\ tok # task[r].token /\ Pending(tok) /\ OfferRow(tok) \in held[r]
                   => invitation'[tok] = Revoked(invitation[tok])
              /\ tok # task[r].token /\ ~ (Pending(tok) /\ OfferRow(tok) \in held[r])
                   => invitation'[tok] = invitation[tok]
         /\ TypeOK' /\ UNCHANGED <<member, codes, phone, sellers, expired, actor>>
<1> DEFINE new == [store |-> actor[r].store, phone |-> task[r].phone,
                   role |-> task[r].role, status |-> "pending", by |-> NoUser]
<1>1. /\ pc[r] = "inviting" /\ Reserved(r) = held[r] /\ Finish(r, "done")
      /\ UNCHANGED <<member, codes, phone, sellers, expired, actor>>
  BY AtHolds DEF CommitOffer
<1>2. /\ task[r].token \in Token /\ task[r].kind = "invite"
      /\ actor[r] \in Membership /\ task[r].phone \in Phone /\ task[r].role \in Role
  BY <1>1, TaskFields, RowFields DEF PointsInv, ActorInv, Locks
<1>3. new \in Invitation
  BY <1>2 DEF Membership, Invitation
<1>4. \A tok \in Token : Pending(tok) =>
        Revoked(invitation[tok]) \in Invitation
  BY ChangedRows, RowFields DEF Pending
<1>5. invitation' =
        [tok \in Token |->
           IF tok = task[r].token THEN new
           ELSE IF Pending(tok) /\ OfferRow(tok) \in held[r]
           THEN Revoked(invitation[tok])
           ELSE invitation[tok]]
  BY DEF CommitOffer, Revoked
<1>6. /\ \A tok \in Token :
           /\ tok = task[r].token => invitation'[tok] = new
           /\ tok # task[r].token /\ Pending(tok) /\ OfferRow(tok) \in held[r]
                => invitation'[tok] = Revoked(invitation[tok])
           /\ tok # task[r].token /\ ~ (Pending(tok) /\ OfferRow(tok) \in held[r])
                => invitation'[tok] = invitation[tok]
  <2> HIDE DEF new
  <2>1. QED
    BY <1>5
<1>7. invitation' \in [Token -> Invitation \cup {NoRow}]
  <2>1. \A tok \in Token : invitation'[tok] \in Invitation \cup {NoRow}
    <3>1. \A tok \in Token : invitation[tok] \in Invitation \cup {NoRow}
      BY DEF TypeOK
    <3> HIDE DEF new
    <3>2. QED
      BY <1>3, <1>4, <1>6, <3>1
  <2>2. invitation' = [tok \in Token |-> invitation'[tok]]
    <3> HIDE DEF new
    <3>1. QED
      BY <1>5
  <2>3. QED
    BY <2>1, <2>2
<1>8. TypeOK'
  BY <1>1, <1>7 DEF TypeOK
<1>9. QED
  BY <1>1, <1>2, <1>6, <1>8

LEMMA RevokeEffect ==
  ASSUME Locks, TypeOK, PointsInv, NEW r \in Request, CommitRevoke(r), ~ Fails(r)
  PROVE  /\ pc[r] = "revoke" /\ Reserved(r) = held[r] /\ Finish(r, "done")
         /\ task[r].token \in Token /\ Pending(task[r].token)
         /\ \A tok \in Token :
              invitation'[tok] = IF tok = task[r].token
                                 THEN Revoked(invitation[tok])
                                 ELSE invitation[tok]
         /\ TypeOK' /\ UNCHANGED <<member, codes, phone, sellers, expired, actor>>
<1> DEFINE tok0 == task[r].token
<1>1. /\ pc[r] = "revoke" /\ Reserved(r) = held[r]
      /\ UNCHANGED <<member, codes, phone, sellers, expired, actor>>
  BY AtHolds DEF CommitRevoke
<1>2. /\ Pending(tok0) /\ Finish(r, "done")
      /\ invitation' = [invitation EXCEPT ![tok0].status = "revoked"]
  BY <1>1 DEF CommitRevoke, Fails, tables
<1>3. tok0 \in Token
  BY <1>1, TaskFields DEF PointsInv, Locks
<1>4. invitation[tok0] \in Invitation
  BY <1>2, <1>3, RowFields DEF Pending
<1>5. invitation' = [invitation EXCEPT ![tok0] =
                       Revoked(invitation[tok0])]
  BY <1>2, <1>3 DEF TypeOK, Revoked
<1>6. Revoked(invitation[tok0]) \in Invitation
  BY <1>4, ChangedRows
<1>7. /\ invitation' \in [Token -> Invitation \cup {NoRow}]
      /\ \A tok \in Token :
           invitation'[tok] = IF tok = tok0
                              THEN Revoked(invitation[tok])
                              ELSE invitation[tok]
  BY <1>3, <1>5, <1>6 DEF TypeOK
<1>8. TypeOK'
  BY <1>1, <1>7 DEF TypeOK
<1>9. QED
  BY <1>1, <1>2, <1>3, <1>7, <1>8

\* What a change of role or a removal finds when it commits.
SavingInv ==
  \A r \in Request : pc[r] = "saving" =>
    /\ task[r].key \in Keys /\ member[task[r].key].store = actor[r].store
    /\ LastManager(task[r].key) => task[r].kind = "role" /\ task[r].role = "manager"
    /\ task[r].kind = "remove" => task[r].key \notin sellers

LEMMA ChangeEffect ==
  ASSUME Locks, TypeOK, PointsInv, SavingInv, NEW r \in Request, CommitChange(r)
  PROVE  /\ pc[r] = "saving" /\ Reserved(r) = held[r] /\ Finish(r, "done")
         /\ task[r].key \in Keys /\ task[r].kind \in {"role", "remove"}
         /\ \A k \in Key \ {task[r].key} : member'[k] = member[k] /\ codes'[k] = codes[k]
         /\ task[r].kind = "role" =>
              /\ member'[task[r].key] = WithRole(member[task[r].key], task[r].role)
              /\ task[r].role \in Role
         /\ task[r].kind = "remove" =>
              member'[task[r].key] = NoRow /\ codes'[task[r].key] = {}
         /\ TypeOK' /\ UNCHANGED <<invitation, phone, sellers, expired, actor>>
<1> DEFINE k0 == task[r].key
<1>1. /\ pc[r] = "saving" /\ Reserved(r) = held[r] /\ Finish(r, "done")
      /\ UNCHANGED <<invitation, phone, sellers, expired, actor>>
  BY AtHolds DEF CommitChange
<1>2. /\ k0 \in Keys /\ k0 \in Key /\ task[r].kind \in {"role", "remove"}
      /\ task[r].kind = "role" => task[r].role \in Role
      /\ member[k0] \in Membership
  BY <1>1, TaskFields, RowFields DEF PointsInv, SavingInv, Locks, Keys
<1>3. CASE task[r].kind = "role"
  <2>1. member' = [member EXCEPT ![k0] = WithRole(member[k0], task[r].role)]
    BY <1>2, <1>3 DEF CommitChange, TypeOK, WithRole
  <2>2. WithRole(member[k0], task[r].role) \in Membership
    BY <1>2, <1>3, ChangedRows
  <2>3. /\ member' \in [Key -> Membership \cup {NoRow}]
        /\ \A k \in Key \ {k0} : member'[k] = member[k]
        /\ member'[k0] = WithRole(member[k0], task[r].role)
    BY <1>2, <2>1, <2>2 DEF TypeOK
  <2>4. Defaults(task[r].role) \in SUBSET Code
    BY <1>2, <1>3, DefaultCodes
  <2>5. /\ codes' \in [Key -> SUBSET Code]
        /\ \A k \in Key \ {k0} : codes'[k] = codes[k]
    BY <1>2, <1>3, <2>4 DEF CommitChange, TypeOK
  <2>6. TypeOK'
    BY <1>1, <2>3, <2>5 DEF TypeOK
  <2>7. QED
    BY <1>1, <1>2, <1>3, <2>3, <2>5, <2>6
<1>4. CASE task[r].kind = "remove"
  <2>1. /\ member' = [member EXCEPT ![k0] = NoRow]
        /\ codes' = [codes EXCEPT ![k0] = {}]
    BY <1>4 DEF CommitChange
  <2>2. TypeOK'
    BY <1>1, <2>1 DEF TypeOK
  <2>3. QED
    BY <1>1, <1>2, <1>4, <2>1, <2>2 DEF TypeOK
<1>5. QED
  BY <1>2, <1>3, <1>4

LEMMA CodeEffect ==
  ASSUME Locks, TypeOK, PointsInv, NEW r \in Request, CommitCode(r), ~ Fails(r)
  PROVE  /\ Finish(r, "done")
         /\ \A k \in Key : codes'[k] # {} => codes[k] # {} \/ k \in Keys
         /\ TypeOK' /\ UNCHANGED <<member, invitation, phone, sellers, expired, actor>>
<1> DEFINE k0 == task[r].key
<1>1. /\ task[r].kind \in {"grant", "ungrant"}
      /\ UNCHANGED <<member, invitation, phone, sellers, expired, actor>>
  BY DEF CommitCode
<1>2. /\ Finish(r, "done")
      /\ \/ codes' = [codes EXCEPT ![k0] = @ \cup {task[r].code}] /\ k0 \in Keys
         \/ codes' = [codes EXCEPT ![k0] = @ \ {task[r].code}]
  BY <1>1 DEF CommitCode, Fails, tables
<1>3. task[r].code \in Code
  BY <1>1, TaskFields DEF Locks
<1>4. /\ codes' \in [Key -> SUBSET Code]
      /\ \A k \in Key : codes'[k] # {} => codes[k] # {} \/ k \in Keys
  BY <1>2, <1>3 DEF TypeOK
<1>5. TypeOK'
  BY <1>1, <1>4 DEF TypeOK
<1>6. QED
  BY <1>1, <1>2, <1>4, <1>5

LEMMA ProfileEffect ==
  ASSUME Locks, TypeOK, PointsInv, NEW r \in Request, CommitProfile(r), ~ Fails(r)
  PROVE  /\ Finish(r, "done")
         /\ TypeOK' /\ UNCHANGED <<member, codes, invitation, sellers, expired, actor>>
<1>1. /\ pc[r] = "profile"
      /\ UNCHANGED <<member, codes, invitation, sellers, expired, actor>>
  BY AtHolds DEF CommitProfile
<1>2. /\ Finish(r, "done")
      /\ phone' = [phone EXCEPT ![task[r].user] = task[r].phone]
  BY <1>1 DEF CommitProfile, Fails, tables
<1>3. task[r].phone \in Phone
  BY <1>1, TaskFields DEF PointsInv, Locks
<1>4. TypeOK'
  BY <1>1, <1>2, <1>3 DEF TypeOK
<1>5. QED
  BY <1>1, <1>2, <1>4

LEMMA SaleEffect ==
  ASSUME Locks, TypeOK, PointsInv, NEW r \in Request, CommitSale(r), ~ Fails(r)
  PROVE  /\ pc[r] = "sell" /\ Reserved(r) = held[r] /\ Finish(r, "done")
         /\ task[r].key \in Keys /\ sellers' = sellers \cup {task[r].key}
         /\ TypeOK' /\ UNCHANGED <<member, codes, invitation, phone, expired, actor>>
<1>1. /\ pc[r] = "sell" /\ Reserved(r) = held[r]
      /\ UNCHANGED <<member, codes, invitation, phone, expired, actor>>
  BY AtHolds DEF CommitSale
<1>2. /\ Finish(r, "done") /\ task[r].key \in Keys
      /\ sellers' = sellers \cup {task[r].key}
  BY <1>1 DEF CommitSale, Fails, tables
<1>3. TypeOK'
  BY <1>1, <1>2 DEF TypeOK, Keys
<1>4. QED
  BY <1>1, <1>2, <1>3

-----------------------------------------------------------------------------
(* Points and locks *)

LEMMA CommitEffect ==
  ASSUME Locks, TypeOK, PointsInv, ActorInv, JoinInv, SavingInv,
         NEW r \in Request, Commits(r)
  PROVE  /\ Locks' /\ OthersRest(r) /\ TypeOK' /\ UNCHANGED <<expired, actor>>
         /\ pc'[r] \in {"done", "failed"} /\ plan'[r] = << >>
<1>1. ASSUME Finish(r, "done")
      PROVE  /\ Locks' /\ OthersRest(r)
             /\ pc'[r] \in {"done", "failed"} /\ plan'[r] = << >>
  BY <1>1, FinishEffect DEF Locks, OthersRest
<1>2. CASE Fails(r)
  <2>1. actor' = actor
    BY DEF Commits, CommitMember, CommitOffer, CommitRevoke, CommitChange,
      CommitCode, CommitProfile, CommitSale
  <2>2. /\ Locks' /\ OthersRest(r) /\ UNCHANGED <<tables, expired>>
        /\ pc'[r] = "failed" /\ plan'[r] = << >>
    BY <1>2, FailEffect
  <2>3. QED
    BY <2>1, <2>2 DEF TypeOK, tables
<1>3. CASE ~ Fails(r)
  BY <1>1, <1>3, HireEffect, OfferEffect, RevokeEffect, ChangeEffect, CodeEffect,
    ProfileEffect, SaleEffect DEF Commits
<1>4. QED
  BY <1>2, <1>3

\* What every step of a request does to it and to the others.
LEMMA MoveEffect ==
  ASSUME Locks, RestInv, TypeOK, PointsInv, ActorInv, JoinInv, SavingInv,
         NEW r \in Request, Moves(r)
  PROVE  /\ Locks' /\ OthersRest(r) /\ TypeOK' /\ expired' = expired
         /\ pc[r] \notin {"done", "failed"} /\ pc'[r] # "idle"
         /\ pc'[r] \in {"idle", "done", "failed"} => plan'[r] = << >>
         /\ \/ actor' = actor
            \/ \E k \in Keys : actor' = [actor EXCEPT ![r] = member[k]]
<1>1. CASE Waits(r)
  <2>1. plan[r] # << >>
    BY <1>1 DEF Waits, Acquire
  <2>2. pc[r] \notin {"idle", "done", "failed"}
    BY <2>1 DEF RestInv
  <2>3. QED
    BY <1>1, <2>2, WaitEffect DEF TypeOK, tables
<1>2. CASE Walks(r)
  <2>1. /\ Locks' /\ OthersRest(r) /\ UNCHANGED <<tables, expired>>
        /\ pc'[r] \in {"idle", "done", "failed"} => plan'[r] = << >>
        /\ pc'[r] # "idle"
        /\ \/ actor' = actor
           \/ \E k \in Keys : actor' = [actor EXCEPT ![r] = member[k]]
    BY <1>2, WalkEffect
  <2>2. actor' \in [Request -> Membership \cup {NoRow}]
    <3>1. \A k \in Keys : member[k] \in Membership
      BY RowFields
    <3>2. QED
      BY <2>1, <3>1 DEF TypeOK
  <2>3. pc[r] \notin {"done", "failed"}
    <3>1. task[r].kind \notin {"done", "failed"}
      BY TaskFields DEF Locks
    <3>2. QED
      BY <1>2, <3>1 DEF Walks, At, Permit, Load, Found, Claim, Validate,
        Identify, Insert, Supersede, Decide, Arrive
  <2>4. QED
    BY <2>1, <2>2, <2>3 DEF TypeOK, tables
<1>3. CASE Commits(r)
  <2>1. pc[r] \notin {"done", "failed"}
    <3>1. task[r].kind \notin {"done", "failed"}
      BY TaskFields DEF Locks
    <3>2. QED
      BY <1>3, <3>1 DEF Commits, At, CommitMember, CommitOffer, CommitRevoke,
        CommitChange, CommitCode, CommitProfile, CommitSale
  <2>2. QED
    BY <1>3, <2>1, CommitEffect
<1>4. CASE Rollback(r)
  <2>1. pc[r] \notin {"done", "failed"}
    <3>1. CASE Crash(r)
      BY <3>1 DEF Crash, Running, Ended
    <3>2. CASE ResolveDeadlock(r)
      <4>1. WaitsFor(r) # {}
        BY <3>2 DEF ResolveDeadlock, Deadlocked
      <4>2. plan[r] # << >>
        BY <4>1 DEF WaitsFor
      <4>3. QED
        BY <4>2 DEF RestInv
    <3>3. QED
      BY <1>4, <3>1, <3>2 DEF Rollback
  <2>2. QED
    BY <1>4, <2>1, RollbackFails, FailEffect DEF TypeOK, tables
<1>5. QED
  BY <1>1, <1>2, <1>3, <1>4 DEF Moves

LEMMA RestStep ==
  ASSUME Locks, RestInv, TypeOK, PointsInv, ActorInv, JoinInv, SavingInv,
         NEW r \in Request, Moves(r)
  PROVE  RestInv'
  BY MoveEffect DEF RestInv, OthersRest

\* Who is somewhere else than before has walked there.
LEMMA ComesBy ==
  ASSUME Locks, RestInv, TypeOK, PointsInv, ActorInv, JoinInv, SavingInv,
         NEW r \in Request, Moves(r), pc'[r] \notin {"idle", "done", "failed"}
  PROVE  Waits(r) \/ (Walks(r) /\ ~ Fails(r))
  BY CommitEffect, RollbackFails, FailEffect DEF Moves

\* The points a request may come to, and by which step.
LEMMA Arrivals ==
  ASSUME Locks, NEW r \in Request, Walks(r), ~ Fails(r)
  PROVE  \/ Goes(r, "idle", "permitted", << >>)
            /\ Permit(r) /\ task[r].kind \in ByManager /\ actor' = actor
         \/ \E k \in Keys : Serves(r, member[k]) /\ pc[r] = "permitted"
         \/ Goes(r, "idle", "inserting", <<Place(task[r].user)>>)
            /\ task[r].kind = "found" /\ actor' = actor
         \/ Goes(r, "idle", "claimed",
                 <<OfferRow(task[r].token), StoreRow(invitation[task[r].token].store)>>)
            /\ Joins(r) /\ invitation[task[r].token] # NoRow /\ actor' = actor
         \/ Goes(r, "claimed", "identified",
                 IF task[r].kind = "accept" THEN <<UserRow(task[r].user)>>
                 ELSE <<Number(invitation[task[r].token].phone)>>)
            /\ Valid(task[r].token) /\ actor' = actor
         \/ Goes(r, "identified", "inserting", <<Place(task[r].user)>>)
            /\ actor' = actor
         \/ Goes(r, "inserting", "committing",
                 <<StoreRow(Hires(r).store), UserRow(Hires(r).user)>>)
            /\ Of(Hires(r).user) = {} /\ actor' = actor
         \/ (\E rows \in Orders({OfferRow(tok) : tok \in Superseded(r)}) :
               Goes(r, "invite", "inviting", rows)) /\ actor' = actor
         \/ Goes(r, task[r].kind, "saving", << >>)
            /\ Decide(r) /\ actor' = actor
         \/ Goes(r, "idle", task[r].kind,
                 IF task[r].kind = "sell" THEN <<MemberRow(task[r].key)>>
                 ELSE <<UserRow(task[r].user), Number(task[r].phone)>>)
            /\ task[r].kind \in {"profile", "sell"} /\ actor' = actor
  BY PermitEffect, LoadEffect, FoundEffect, ClaimEffect, ValidateEffect,
    IdentifyEffect, InsertEffect, SupersedeEffect, DecideEffect, ArriveEffect
  DEF Walks

\* By which step a request comes to the points that matter most.
LEMMA Ways ==
  ASSUME Locks, PointsInv, NEW r \in Request, Walks(r), ~ Fails(r)
  PROVE  /\ pc'[r] \in {"role", "remove"} =>
              \E k \in Keys : Serves(r, member[k]) /\ pc[r] = "permitted"
         /\ pc'[r] = "committing" =>
              /\ Goes(r, "inserting", "committing",
                      <<StoreRow(Hires(r).store), UserRow(Hires(r).user)>>)
              /\ Of(Hires(r).user) = {} /\ actor' = actor
         /\ pc'[r] = "inviting" =>
              /\ \E rows \in Orders({OfferRow(tok) : tok \in Superseded(r)}) :
                   Goes(r, "invite", "inviting", rows)
              /\ actor' = actor
         /\ pc'[r] = "saving" =>
              Goes(r, task[r].kind, "saving", << >>) /\ Decide(r) /\ actor' = actor
<1> DEFINE new == pc'[r]
<1>1. ASSUME NEW from, NEW where, NEW rows, Goes(r, from, where, rows)
      PROVE  new = where
  BY <1>1 DEF Goes, Goto, Locks, LocksInv
<1>2. ASSUME NEW k \in Keys, Serves(r, member[k]), pc[r] = "permitted"
      PROVE  new = "inserting" \/ new \in ByManager
  <2>1. task[r].kind \in ByManager
    BY <1>2 DEF PointsInv
  <2>2. new = IF task[r].kind = "add" THEN "inserting" ELSE task[r].kind
    BY <1>1, <1>2 DEF Serves
  <2>3. QED
    BY <2>1, <2>2
<1> HIDE DEF new
<1>3. \/ new = "permitted"
      \/ \E k \in Keys : Serves(r, member[k]) /\ pc[r] = "permitted"
      \/ new \in {"inserting", "claimed", "identified"}
      \/ /\ new = "committing"
         /\ Goes(r, "inserting", "committing",
                 <<StoreRow(Hires(r).store), UserRow(Hires(r).user)>>)
         /\ Of(Hires(r).user) = {} /\ actor' = actor
      \/ /\ new = "inviting"
         /\ \E rows \in Orders({OfferRow(tok) : tok \in Superseded(r)}) :
              Goes(r, "invite", "inviting", rows)
         /\ actor' = actor
      \/ /\ new = "saving"
         /\ Goes(r, task[r].kind, "saving", << >>) /\ Decide(r) /\ actor' = actor
      \/ new \in {"profile", "sell"}
  BY <1>1, Arrivals
<1>4. QED
  BY <1>2, <1>3 DEF new, ByManager

\* Where a request comes to, it is one of the requests that come there, ...
LEMMA PointsOfWalk ==
  ASSUME Locks, RestInv, TypeOK, PointsInv, ActorInv, JoinInv, SavingInv, HoldsInv,
         NEW r \in Request, Walks(r), ~ Fails(r)
  PROVE  /\ pc'[r] = "permitted" => task[r].kind \in ByManager
         /\ pc'[r] \in {"claimed", "identified"} => Joins(r)
         /\ pc'[r] \in {"inserting", "committing"} => task[r].kind \in Hiring
         /\ pc'[r] = "inviting" => task[r].kind = "invite"
         /\ pc'[r] = "saving" => task[r].kind \in {"role", "remove"}
         /\ pc'[r] \in {"invite", "revoke", "role", "remove", "grant", "ungrant",
                        "profile", "sell"} => task[r].kind = pc'[r]
<1>1. task \in Traffic
  BY DEF Locks
<1>2. ASSUME NEW from, NEW where, NEW rows, Goes(r, from, where, rows)
      PROVE  pc[r] = from /\ pc'[r] = where
  BY <1>2 DEF Goes, At, Goto, Locks, LocksInv
<1>3. \A k \in Keys : Serves(r, member[k]) =>
        pc'[r] = IF task[r].kind = "add" THEN "inserting" ELSE task[r].kind
  BY <1>2 DEF Serves
<1>4. CASE pc[r] = "permitted"
  <2>1. task[r].kind \in ByManager
    BY <1>4 DEF PointsInv
  <2>2. pc'[r] = IF task[r].kind = "add" THEN "inserting" ELSE task[r].kind
    BY <1>1, <1>2, <1>3, <1>4, <2>1, Arrivals, TaskFields DEF ByManager
  <2>3. QED
    BY <2>1, <2>2 DEF ByManager, Hiring
<1>5. CASE pc[r] = "idle"
  <2>1. \/ pc'[r] = "permitted" /\ task[r].kind \in ByManager
        \/ pc'[r] = "inserting" /\ task[r].kind = "found"
        \/ pc'[r] = "claimed" /\ Joins(r)
        \/ pc'[r] = task[r].kind /\ task[r].kind \in {"profile", "sell"}
    BY <1>1, <1>2, <1>5, Arrivals, TaskFields DEF Serves
  <2>2. QED
    BY <2>1 DEF Hiring
<1>6. CASE pc[r] \notin {"idle", "permitted"}
  <2>1. \/ pc[r] = "claimed" /\ pc'[r] = "identified"
        \/ pc[r] = "identified" /\ pc'[r] = "inserting"
        \/ pc[r] = "inserting" /\ pc'[r] = "committing"
        \/ pc[r] = "invite" /\ pc'[r] = "inviting"
        \/ pc[r] = task[r].kind /\ pc'[r] = "saving" /\ Decide(r)
    BY <1>1, <1>2, <1>6, Arrivals DEF Serves
  <2>2. Joins(r) => task[r].kind \in Hiring
    BY DEF Joins, Hiring
  <2>3. Decide(r) => task[r].kind \in {"role", "remove"}
    BY DEF Decide
  <2>4. QED
    BY <2>1, <2>2, <2>3 DEF PointsInv
<1>7. QED
  BY <1>4, <1>5, <1>6

\* ... it has read the acting membership ...
LEMMA ActorOfWalk ==
  ASSUME Locks, RestInv, TypeOK, PointsInv, ActorInv, JoinInv, SavingInv, HoldsInv,
         NEW r \in Request, Walks(r), ~ Fails(r)
  PROVE  /\ pc'[r] \in {"invite", "inviting", "revoke", "role", "remove", "saving",
                        "grant", "ungrant"} => actor'[r] # NoRow
         /\ pc'[r] \in {"inserting", "committing"} /\ task[r].kind = "add"
              => actor'[r] # NoRow
<1>1. \A k \in Keys : Serves(r, member[k]) => actor'[r] # NoRow
  BY DEF Serves, Keys, TypeOK
<1>2. ASSUME NEW from, NEW where, NEW rows, Goes(r, from, where, rows)
      PROVE  pc[r] = from /\ pc'[r] = where
  BY <1>2 DEF Goes, At, Goto, Locks, LocksInv
<1>3. CASE actor'[r] # NoRow
  BY <1>3
<1>4. CASE actor'[r] = NoRow
  <2>1. /\ actor' = actor
        /\ \/ pc'[r] \in {"permitted", "claimed", "identified", "profile", "sell"}
           \/ pc'[r] = "inserting" /\ (task[r].kind = "found" \/ pc[r] = "identified")
           \/ pc[r] = "inserting" /\ pc'[r] = "committing"
           \/ pc[r] = "invite" /\ pc'[r] = "inviting"
           \/ pc[r] \in {"role", "remove"} /\ pc'[r] = "saving"
    BY <1>1, <1>2, <1>4, Arrivals DEF Decide
  <2>2. pc[r] = "identified" => task[r].kind # "add"
    BY DEF PointsInv, Joins
  <2>3. QED
    BY <1>4, <2>1, <2>2 DEF ActorInv
<1>5. QED
  BY <1>3, <1>4

\* ... and it has, or is taking, the locks that it needs there.
LEMMA HoldsOfWalk ==
  ASSUME Locks, RestInv, TypeOK, PointsInv, ActorInv, JoinInv, SavingInv, HoldsInv,
         NEW r \in Request, Walks(r), ~ Fails(r)
  PROVE  /\ pc'[r] \in {"idle", "permitted"} => Reserved(r)' = {}
         /\ pc'[r] = "inserting" => Place(task[r].user) \in Reserved(r)'
         /\ pc'[r] = "committing" => Place(task[r].user) \in held'[r]
         /\ pc'[r] = "claimed" => OfferRow(task[r].token) \in Reserved(r)'
         /\ Joins(r) /\ pc'[r] \in {"identified", "inserting", "committing"}
              => OfferRow(task[r].token) \in held'[r]
         /\ pc'[r] = "invite" => /\ StoreRow(actor'[r].store) \in Reserved(r)'
                                 /\ \A tok \in Token : OfferRow(tok) \notin Reserved(r)'
         /\ pc'[r] = "inviting" => StoreRow(actor'[r].store) \in held'[r]
         /\ pc'[r] = "revoke" => OfferRow(task[r].token) \in Reserved(r)'
         /\ pc'[r] \in {"role", "remove"} =>
              /\ StoreRow(actor'[r].store) \in Reserved(r)'
              /\ MemberRow(task[r].key) \in Reserved(r)'
         /\ pc'[r] = "saving" => /\ StoreRow(actor'[r].store) \in held'[r]
                                 /\ MemberRow(task[r].key) \in held'[r]
         /\ pc'[r] = "sell" => MemberRow(task[r].key) \in Reserved(r)'
<1> DEFINE t == task[r]
<1>1. /\ task \in Traffic
      /\ Joins(r) => t.kind \notin {"found", "add"}
      /\ t.kind \notin {"permitted", "inserting", "committing", "claimed",
                        "identified", "inviting", "saving"}
  BY TaskFields DEF Locks, Joins
<1>2. ASSUME NEW from, NEW where, NEW rows \in Seq(Lockable), Goes(r, from, where, rows)
      PROVE  /\ pc[r] = from /\ pc'[r] = where /\ held'[r] = held[r]
             /\ Reserved(r) = held[r]
             /\ Reserved(r)' = held[r] \cup {rows[i] : i \in DOMAIN rows}
  <2>1. /\ pc[r] = from /\ pc'[r] = where /\ plan'[r] = rows
        /\ held'[r] = held[r] /\ Reserved(r) = held[r]
    BY <1>2, GoesEffect
  <2>2. QED
    BY <2>1, Reserves
<1>3. CASE \E k \in Keys : Serves(r, member[k]) /\ pc[r] = "permitted"
  <2>1. PICK k \in Keys : Serves(r, member[k])
    BY <1>3
  <2> DEFINE me == member[k]
  <2>2. me \in Membership /\ t.kind \in ByManager
    BY <1>3, RowFields DEF PointsInv
  <2>3. FirstLocks(t, me) \in Seq(Lockable)
    BY <1>1, <2>2, FirstLocksAreRows
  <2>4. /\ pc'[r] = IF t.kind = "add" THEN "inserting" ELSE t.kind
        /\ Reserved(r)' = held[r] \cup
             {FirstLocks(t, me)[i] : i \in DOMAIN FirstLocks(t, me)}
    BY <1>2, <2>1, <2>3 DEF Serves
  <2>5. actor'[r] = me
    BY <2>1 DEF Serves, TypeOK
  <2>6. CASE t.kind = "add"
    <3>1. FirstLocks(t, me) = <<Place(t.user)>>
      BY <2>6 DEF FirstLocks
    <3>2. Place(t.user) \in Lockable
      BY <1>1, <2>6, TaskFields, RowsAreLockable DEF Hiring
    <3>3. Place(t.user) \in Reserved(r)' /\ pc'[r] = "inserting"
      BY <2>4, <2>6, <3>1, <3>2, OneRow
    <3>4. QED
      BY <1>1, <2>6, <3>3
  <2>7. CASE t.kind = "invite"
    <3>1. FirstLocks(t, me) = <<StoreRow(me.store)>>
      BY <2>7 DEF FirstLocks
    <3>2. StoreRow(me.store) \in Lockable
      BY <2>2, RowsAreLockable DEF Membership
    <3>3. Reserved(r)' = held[r] \cup {StoreRow(me.store)} /\ pc'[r] = "invite"
      BY <2>4, <2>7, <3>1, <3>2, OneRow
    <3>4. \A tok \in Token : OfferRow(tok) \notin held[r]
      BY <1>3 DEF HoldsInv, Reserved
    <3>5. \A tok \in Token : OfferRow(tok) # StoreRow(me.store)
      BY RowsDiffer
    <3>6. QED
      BY <2>5, <3>3, <3>4, <3>5
  <2>8. CASE t.kind = "revoke"
    <3>1. FirstLocks(t, me) = <<OfferRow(t.token)>>
      BY <2>8 DEF FirstLocks
    <3>2. OfferRow(t.token) \in Lockable
      BY <1>1, <2>8, TaskFields, RowsAreLockable
    <3>3. OfferRow(t.token) \in Reserved(r)' /\ pc'[r] = "revoke"
      BY <2>4, <2>8, <3>1, <3>2, OneRow
    <3>4. QED
      BY <3>3
  <2>9. CASE t.kind \in {"role", "remove"}
    <3>1. FirstLocks(t, me) = <<StoreRow(me.store), MemberRow(t.key)>>
      BY <2>9 DEF FirstLocks
    <3>2. StoreRow(me.store) \in Lockable /\ MemberRow(t.key) \in Lockable
      BY <1>1, <2>2, <2>9, TaskFields, RowsAreLockable DEF Membership
    <3>3. /\ StoreRow(me.store) \in Reserved(r)'
          /\ MemberRow(t.key) \in Reserved(r)' /\ pc'[r] \in {"role", "remove"}
      BY <2>4, <2>9, <3>1, <3>2, TwoRows
    <3>4. QED
      BY <2>5, <3>3
  <2>10. CASE t.kind \in {"grant", "ungrant"}
    BY <2>4, <2>10
  <2>11. QED
    BY <2>2, <2>6, <2>7, <2>8, <2>9, <2>10 DEF ByManager
<1>4. CASE /\ \/ Goes(r, "idle", "inserting", <<Place(t.user)>>) /\ t.kind = "found"
              \/ Goes(r, "identified", "inserting", <<Place(t.user)>>)
  <2>1. Place(t.user) \in Lockable
    <3>1. CASE t.kind = "found"
      BY <1>1, <3>1, TaskFields, RowsAreLockable DEF Hiring
    <3>2. CASE Goes(r, "identified", "inserting", <<Place(t.user)>>)
      <4>1. Joins(r)
        BY <3>2 DEF Goes, At, PointsInv
      <4>2. QED
        BY <1>1, <4>1, TaskFields, RowsAreLockable
    <3>3. QED
      BY <1>4, <3>1, <3>2
  <2>2. /\ pc'[r] = "inserting" /\ held'[r] = held[r] /\ Place(t.user) \in Reserved(r)'
        /\ t.kind = "found" \/ pc[r] = "identified"
    <3>1. <<Place(t.user)>> \in Seq(Lockable)
      BY <2>1, OneRow
    <3>2. PICK from \in {"idle", "identified"} :
            /\ Goes(r, from, "inserting", <<Place(t.user)>>)
            /\ t.kind = "found" \/ from = "identified"
      BY <1>4
    <3>3. /\ pc[r] = from /\ pc'[r] = "inserting" /\ held'[r] = held[r]
          /\ Reserved(r)' = held[r] \cup
               {<<Place(t.user)>>[i] : i \in DOMAIN <<Place(t.user)>>}
      BY <1>2, <3>1, <3>2
    <3>4. QED
      BY <2>1, <3>2, <3>3, OneRow
  <2>3. Joins(r) => OfferRow(t.token) \in held[r]
    BY <1>1, <2>2 DEF HoldsInv
  <2>4. QED
    BY <2>2, <2>3
<1>5. CASE /\ Goes(r, "idle", "claimed",
                   <<OfferRow(t.token), StoreRow(invitation[t.token].store)>>)
           /\ Joins(r) /\ invitation[t.token] # NoRow
  <2>1. t.token \in Token /\ invitation[t.token].store \in Store
    BY <1>1, <1>5, TaskFields, RowFields DEF Invitation
  <2>2. pc'[r] = "claimed" /\ OfferRow(t.token) \in Reserved(r)'
    <3> DEFINE x == OfferRow(t.token)
               y == StoreRow(invitation[t.token].store)
    <3>1. x \in Lockable /\ y \in Lockable /\ Goes(r, "idle", "claimed", <<x, y>>)
      BY <1>5, <2>1, RowsAreLockable
    <3> HIDE DEF x, y
    <3>2. /\ <<x, y>> \in Seq(Lockable)
          /\ {<<x, y>>[i] : i \in DOMAIN <<x, y>>} = {x, y}
      BY <3>1, TwoRows
    <3>3. pc'[r] = "claimed" /\ x \in Reserved(r)'
      BY <1>2, <3>1, <3>2
    <3>4. QED
      BY <3>3 DEF x
  <2>3. QED
    BY <2>2
<1>6. CASE Goes(r, "claimed", "identified",
                IF t.kind = "accept" THEN <<UserRow(t.user)>>
                ELSE <<Number(invitation[t.token].phone)>>)
  <2>1. /\ pc[r] = "claimed" /\ pc'[r] = "identified" /\ held'[r] = held[r]
        /\ Reserved(r) = held[r]
    BY <1>6, AtHolds DEF Goes, Goto, Locks, LocksInv
  <2>2. OfferRow(t.token) \in held[r]
    BY <2>1 DEF HoldsInv
  <2>3. QED
    BY <2>1, <2>2
<1>7. CASE Goes(r, "inserting", "committing",
                <<StoreRow(Hires(r).store), UserRow(Hires(r).user)>>)
  <2>1. /\ pc[r] = "inserting" /\ pc'[r] = "committing" /\ held'[r] = held[r]
        /\ Reserved(r) = held[r]
    BY <1>7, AtHolds DEF Goes, Goto, Locks, LocksInv
  <2>2. /\ Place(t.user) \in held[r]
        /\ Joins(r) => OfferRow(t.token) \in held[r]
    BY <2>1 DEF HoldsInv
  <2>3. QED
    BY <2>1, <2>2
<1>8. CASE /\ \E rows \in Orders({OfferRow(tok) : tok \in Superseded(r)}) :
                Goes(r, "invite", "inviting", rows)
           /\ actor' = actor
  <2>1. /\ pc[r] = "invite" /\ pc'[r] = "inviting" /\ held'[r] = held[r]
        /\ Reserved(r) = held[r]
    BY <1>8, AtHolds DEF Goes, Goto, Locks, LocksInv
  <2>2. StoreRow(actor[r].store) \in held[r]
    BY <2>1 DEF HoldsInv
  <2>3. QED
    BY <1>8, <2>1, <2>2
<1>9. CASE Goes(r, t.kind, "saving", << >>) /\ Decide(r) /\ actor' = actor
  <2>1. /\ pc[r] = t.kind /\ pc'[r] = "saving" /\ held'[r] = held[r]
        /\ Reserved(r) = held[r] /\ t.kind \in {"role", "remove"}
    BY <1>9, AtHolds DEF Goes, Goto, Locks, LocksInv, Decide
  <2>2. StoreRow(actor[r].store) \in held[r] /\ MemberRow(t.key) \in held[r]
    BY <2>1 DEF HoldsInv
  <2>3. QED
    BY <1>9, <2>1, <2>2
<1>10. CASE /\ Goes(r, "idle", t.kind,
                    IF t.kind = "sell" THEN <<MemberRow(t.key)>>
                    ELSE <<UserRow(t.user), Number(t.phone)>>)
            /\ t.kind \in {"profile", "sell"}
  <2>1. CASE t.kind = "profile"
    <3>1. pc'[r] = "profile"
      BY <1>10, <2>1 DEF Goes, Goto, Locks, LocksInv
    <3>2. QED
      BY <3>1
  <2>2. CASE t.kind = "sell"
    <3>1. MemberRow(t.key) \in Lockable
      BY <1>1, <2>2, TaskFields, RowsAreLockable
    <3>2. Goes(r, "idle", "sell", <<MemberRow(t.key)>>)
      BY <1>10, <2>2
    <3>3. pc'[r] = "sell" /\ MemberRow(t.key) \in Reserved(r)'
      <4> DEFINE x == MemberRow(t.key)
      <4>1. <<x>> \in Seq(Lockable) /\ {<<x>>[i] : i \in DOMAIN <<x>>} = {x}
        BY <3>1, OneRow
      <4> HIDE DEF x
      <4>2. Goes(r, "idle", "sell", <<x>>)
        BY <3>2 DEF x
      <4>3. pc'[r] = "sell" /\ x \in Reserved(r)'
        BY <1>2, <4>1, <4>2
      <4>4. QED
        BY <4>3 DEF x
    <3>4. QED
      BY <3>3
  <2>3. QED
    BY <1>10, <2>1, <2>2
<1>11. CASE Goes(r, "idle", "permitted", << >>)
  <2>1. pc'[r] = "permitted" /\ pc[r] = "idle" /\ Reserved(r) = held[r]
    BY <1>11, AtHolds DEF Goes, Goto, Locks, LocksInv
  <2>2. Reserved(r)' = held[r]
    BY <1>2, <1>11, NoRows
  <2>3. QED
    BY <2>1, <2>2 DEF HoldsInv
<1>12. QED
  BY <1>3, <1>4, <1>5, <1>6, <1>7, <1>8, <1>9, <1>10, <1>11, Arrivals

LEMMA PointsStep ==
  ASSUME Locks, RestInv, TypeOK, PointsInv, ActorInv, JoinInv, SavingInv, HoldsInv,
         NEW r \in Request, Moves(r)
  PROVE  PointsInv'
<1>1. task' = task
  BY MoveEffect DEF OthersRest
<1>2. ASSUME NEW q \in Request
      PROVE  /\ pc'[q] = "permitted" => task[q].kind \in ByManager
             /\ pc'[q] \in {"claimed", "identified"} => Joins(q)
             /\ pc'[q] \in {"inserting", "committing"} => task[q].kind \in Hiring
             /\ pc'[q] = "inviting" => task[q].kind = "invite"
             /\ pc'[q] = "saving" => task[q].kind \in {"role", "remove"}
             /\ pc'[q] \in {"invite", "revoke", "role", "remove", "grant", "ungrant",
                            "profile", "sell"} => task[q].kind = pc'[q]
  <2>1. CASE q # r
    <3>1. /\ pc'[q] = pc[q] /\ held'[q] = held[q] /\ plan'[q] = plan[q]
          /\ actor'[q] = actor[q]
      BY <2>1, MoveEffect DEF OthersRest, TypeOK
    <3>2. Reserved(q)' = Reserved(q)
      BY <3>1 DEF Reserved
    <3>3. QED
      BY <3>1, <3>2 DEF PointsInv
  <2>2. CASE q = r /\ pc'[r] \in {"idle", "done", "failed"}
    BY <2>2
  <2>3. CASE q = r /\ Waits(r)
    <3>1. /\ pc'[r] = pc[r] /\ held[r] \subseteq held'[r] /\ actor' = actor
          /\ Reserved(r)' = Reserved(r)
      BY <2>3, WaitEffect
    <3>2. QED
      BY <2>3, <3>1 DEF PointsInv
  <2>4. CASE q = r /\ Walks(r) /\ ~ Fails(r)
    BY <2>4, PointsOfWalk
  <2>5. QED
    BY <2>1, <2>2, <2>3, <2>4, ComesBy
<1>3. QED
  BY <1>1, <1>2 DEF PointsInv, Joins

LEMMA ActorStep ==
  ASSUME Locks, RestInv, TypeOK, PointsInv, ActorInv, JoinInv, SavingInv, HoldsInv,
         NEW r \in Request, Moves(r)
  PROVE  ActorInv'
<1>1. task' = task
  BY MoveEffect DEF OthersRest
<1>2. ASSUME NEW q \in Request
      PROVE  /\ pc'[q] \in {"invite", "inviting", "revoke", "role", "remove", "saving",
                            "grant", "ungrant"} => actor'[q] # NoRow
             /\ pc'[q] \in {"inserting", "committing"} /\ task[q].kind = "add"
                  => actor'[q] # NoRow
  <2>1. CASE q # r
    <3>1. /\ pc'[q] = pc[q] /\ held'[q] = held[q] /\ plan'[q] = plan[q]
          /\ actor'[q] = actor[q]
      BY <2>1, MoveEffect DEF OthersRest, TypeOK
    <3>2. Reserved(q)' = Reserved(q)
      BY <3>1 DEF Reserved
    <3>3. QED
      BY <3>1, <3>2 DEF ActorInv
  <2>2. CASE q = r /\ pc'[r] \in {"idle", "done", "failed"}
    BY <2>2
  <2>3. CASE q = r /\ Waits(r)
    <3>1. /\ pc'[r] = pc[r] /\ held[r] \subseteq held'[r] /\ actor' = actor
          /\ Reserved(r)' = Reserved(r)
      BY <2>3, WaitEffect
    <3>2. QED
      BY <2>3, <3>1 DEF ActorInv
  <2>4. CASE q = r /\ Walks(r) /\ ~ Fails(r)
    BY <2>4, ActorOfWalk
  <2>5. QED
    BY <2>1, <2>2, <2>3, <2>4, ComesBy
<1>3. QED
  BY <1>1, <1>2 DEF ActorInv

LEMMA HoldsStep ==
  ASSUME Locks, RestInv, TypeOK, PointsInv, ActorInv, JoinInv, SavingInv, HoldsInv,
         NEW r \in Request, Moves(r)
  PROVE  HoldsInv'
<1>1. task' = task
  BY MoveEffect DEF OthersRest
<1>2. ASSUME NEW q \in Request
      PROVE  /\ pc'[q] \in {"idle", "permitted"} => Reserved(q)' = {}
             /\ pc'[q] = "inserting" => Place(task[q].user) \in Reserved(q)'
             /\ pc'[q] = "committing" => Place(task[q].user) \in held'[q]
             /\ pc'[q] = "claimed" => OfferRow(task[q].token) \in Reserved(q)'
             /\ Joins(q) /\ pc'[q] \in {"identified", "inserting", "committing"}
                  => OfferRow(task[q].token) \in held'[q]
             /\ pc'[q] = "invite" => /\ StoreRow(actor'[q].store) \in Reserved(q)'
                                     /\ \A tok \in Token : OfferRow(tok) \notin Reserved(q)'
             /\ pc'[q] = "inviting" => StoreRow(actor'[q].store) \in held'[q]
             /\ pc'[q] = "revoke" => OfferRow(task[q].token) \in Reserved(q)'
             /\ pc'[q] \in {"role", "remove"} =>
                  /\ StoreRow(actor'[q].store) \in Reserved(q)'
                  /\ MemberRow(task[q].key) \in Reserved(q)'
             /\ pc'[q] = "saving" => /\ StoreRow(actor'[q].store) \in held'[q]
                                     /\ MemberRow(task[q].key) \in held'[q]
             /\ pc'[q] = "sell" => MemberRow(task[q].key) \in Reserved(q)'
  <2>1. CASE q # r
    <3>1. /\ pc'[q] = pc[q] /\ held'[q] = held[q] /\ plan'[q] = plan[q]
          /\ actor'[q] = actor[q]
      BY <2>1, MoveEffect DEF OthersRest, TypeOK
    <3>2. Reserved(q)' = Reserved(q)
      BY <3>1 DEF Reserved
    <3>3. QED
      BY <3>1, <3>2 DEF HoldsInv
  <2>2. CASE q = r /\ pc'[r] \in {"idle", "done", "failed"}
    BY <2>2, MoveEffect
  <2>3. CASE q = r /\ Waits(r)
    <3>1. /\ pc'[r] = pc[r] /\ held[r] \subseteq held'[r] /\ actor' = actor
          /\ Reserved(r)' = Reserved(r)
      BY <2>3, WaitEffect
    <3>2. QED
      BY <2>3, <3>1 DEF HoldsInv
  <2>4. CASE q = r /\ Walks(r) /\ ~ Fails(r)
    BY <2>4, HoldsOfWalk
  <2>5. QED
    BY <2>1, <2>2, <2>3, <2>4, ComesBy
<1>3. QED
  BY <1>1, <1>2 DEF HoldsInv, Joins

-----------------------------------------------------------------------------
(* Keys, tokens and the rows that handlers have read *)

\* The keys and the tokens that have been given.
Made == {k \in Key : \/ FirstMember[k] # NoRow
                     \/ \E q \in Request : /\ task[q].kind \in Hiring
                                           /\ task[q].key = k /\ pc[q] = "done"}

Offered == {tok \in Token : \/ FirstOffer[tok] # NoRow
                            \/ \E q \in Request : /\ task[q].kind = "invite"
                                                  /\ task[q].token = tok
                                                  /\ pc[q] = "done"}

KeyInv ==
  /\ Keys \subseteq Made
  /\ \A tok \in Token : invitation[tok] # NoRow => tok \in Offered
  /\ \A r \in Request : pc[r] \in {"role", "remove", "saving"} =>
       /\ task[r].key \in Made
       /\ task[r].key \in Keys => member[task[r].key].store = actor[r].store

\* A new membership keeps its store where it is.
HiringInv ==
  \A r \in Request :
    pc[r] = "committing" => StoreRow(Hires(r).store) \in Reserved(r)

\* What the inductive steps start from.
Basics == /\ Locks /\ RestInv /\ TypeOK /\ PointsInv /\ ActorInv /\ JoinInv
          /\ SavingInv /\ HoldsInv /\ KeyInv /\ HiringInv

LEMMA NotBoth ==
  ASSUME Locks, NEW q \in Request, NEW r \in Request, q # r, NEW row \in held[q]
  PROVE  row \notin held[r]
  BY DEF Locks, LocksInv

\* Who may change which table.
LEMMA MemberChanges ==
  ASSUME NEW r \in Request, Moves(r)
  PROVE  /\ member' = member \/ CommitMember(r) \/ CommitChange(r)
         /\ invitation' = invitation \/ CommitMember(r) \/ CommitOffer(r)
              \/ (CommitRevoke(r) /\ ~ Fails(r))
         /\ sellers' = sellers \/ (CommitSale(r) /\ ~ Fails(r))
<1>1. CASE Fails(r)
  BY <1>1 DEF Fails, tables
<1>2. CASE Waits(r)
  BY <1>2 DEF Waits, tables
<1>3. CASE Walks(r)
  BY <1>3 DEF Walks, Permit, Load, Found, Claim, Validate, Identify, Insert,
    Supersede, Decide, Arrive, tables
<1>4. CASE Rollback(r)
  BY <1>4 DEF Rollback, tables
<1>5. CASE Commits(r) /\ ~ Fails(r)
  BY <1>5 DEF Commits, CommitMember, CommitOffer, CommitRevoke, CommitChange,
    CommitCode, CommitProfile, CommitSale
<1>6. QED
  BY <1>1, <1>2, <1>3, <1>4, <1>5 DEF Moves

\* What is given now has not been given before.
LEMMA HireFresh ==
  ASSUME Basics, NEW r \in Request, CommitMember(r)
  PROVE  task[r].key \notin Made /\ task[r].key \notin Keys
<1>1. pc[r] = "committing" /\ task[r].kind \in Hiring /\ task \in Traffic
  BY HireEffect DEF Basics, Locks
<1>2. task[r].key \notin Made
  <2>1. FirstMember[task[r].key] = NoRow
    BY <1>1, FreshKeys
  <2>2. ASSUME NEW q \in Request, task[q].kind \in Hiring,
               task[q].key = task[r].key, pc[q] = "done"
        PROVE  FALSE
    BY <1>1, <2>2, FreshKeys
  <2>3. QED
    BY <2>1, <2>2 DEF Made
<1>3. QED
  BY <1>2 DEF Basics, KeyInv

LEMMA OfferFresh ==
  ASSUME Basics, NEW r \in Request, CommitOffer(r)
  PROVE  invitation[task[r].token] = NoRow
<1>1. /\ pc[r] = "inviting" /\ task[r].kind = "invite" /\ task \in Traffic
      /\ task[r].token \in Token
  BY OfferEffect DEF Basics, Locks
<1>2. task[r].token \notin Offered
  <2>1. FirstOffer[task[r].token] = NoRow
    BY <1>1, FreshKeys
  <2>2. ASSUME NEW q \in Request, task[q].kind = "invite",
               task[q].token = task[r].token, pc[q] = "done"
        PROVE  FALSE
    BY <1>1, <2>2, FreshKeys
  <2>3. QED
    BY <2>1, <2>2 DEF Offered
<1>3. QED
  BY <1>1, <1>2 DEF Basics, KeyInv

\* An invitation stays one, of the same store, phone number and role.
LEMMA OfferStays ==
  ASSUME Basics, NEW r \in Request, Moves(r), NEW tok \in Token,
         invitation[tok] # NoRow
  PROVE  /\ invitation'[tok] # NoRow
         /\ invitation'[tok].store = invitation[tok].store
         /\ invitation'[tok].phone = invitation[tok].phone
         /\ invitation'[tok].role = invitation[tok].role
<1>1. invitation[tok] \in Invitation
  BY RowFields DEF Basics
<1>2. ASSUME invitation'[tok] \in
               {invitation[tok], Revoked(invitation[tok])}
      PROVE  /\ invitation'[tok] # NoRow
             /\ invitation'[tok].store = invitation[tok].store
             /\ invitation'[tok].phone = invitation[tok].phone
             /\ invitation'[tok].role = invitation[tok].role
  BY <1>1, <1>2, ChangedRows, Absent
<1>3. CASE CommitMember(r)
  <2>1. /\ invitation'[tok] =
             IF Joins(r) /\ tok = task[r].token
             THEN Accepted(invitation[tok], task[r].user)
             ELSE invitation[tok]
        /\ task[r].kind \in Hiring
    BY <1>3, HireEffect DEF Basics
  <2>2. task[r].user \in User
    BY <2>1, TaskFields DEF Basics, Locks
  <2>3. QED
    BY <1>1, <1>2, <2>1, <2>2, ChangedRows, Absent
<1>4. CASE CommitOffer(r)
  <2>1. tok # task[r].token
    BY <1>4, OfferFresh
  <2>2. QED
    BY <1>2, <1>4, <2>1, OfferEffect DEF Basics
<1>5. CASE CommitRevoke(r) /\ ~ Fails(r)
  BY <1>2, <1>5, RevokeEffect DEF Basics
<1>6. QED
  BY <1>2, <1>3, <1>4, <1>5, MemberChanges

\* A pending invitation that a request has locked stays pending until it ends.
LEMMA PendingStays ==
  ASSUME Basics, NEW r \in Request, Moves(r), NEW q \in Request \ {r},
         NEW tok \in Token, Pending(tok), OfferRow(tok) \in held[q]
  PROVE  invitation'[tok] = invitation[tok]
<1>1. OfferRow(tok) \notin held[r]
  BY NotBoth DEF Basics
<1>2. CASE CommitMember(r)
  <2>1. Joins(r) => OfferRow(task[r].token) \in held[r]
    BY <1>2, HireEffect DEF Basics, HoldsInv
  <2>2. QED
    BY <1>1, <1>2, <2>1, HireEffect DEF Basics
<1>3. CASE CommitOffer(r)
  <2>1. tok # task[r].token
    BY <1>3, OfferFresh DEF Pending
  <2>2. QED
    BY <1>1, <1>3, <2>1, OfferEffect DEF Basics
<1>4. CASE CommitRevoke(r) /\ ~ Fails(r)
  <2>1. OfferRow(task[r].token) \in held[r]
    BY <1>4, RevokeEffect DEF Basics, HoldsInv
  <2>2. QED
    BY <1>1, <1>4, <2>1, RevokeEffect DEF Basics
<1>5. QED
  BY <1>2, <1>3, <1>4, MemberChanges

LEMMA JoinStep ==
  ASSUME Basics, NEW r \in Request, Moves(r)
  PROVE  JoinInv'
<1>1. task' = task /\ task \in Traffic
  BY MoveEffect DEF OthersRest, Basics, Locks
<1>2. ASSUME NEW q \in Request, Joins(q)
      PROVE  /\ pc'[q] \in {"claimed", "identified", "inserting", "committing"}
                  => invitation'[task[q].token] # NoRow
             /\ pc'[q] \in {"identified", "inserting", "committing"}
                  => /\ invitation'[task[q].token] # NoRow
                     /\ invitation'[task[q].token].status = "pending"
  <2> DEFINE tok == task[q].token
  <2>1. tok \in Token
    BY <1>1, <1>2, TaskFields
  <2>2. /\ pc[q] \in {"claimed", "identified", "inserting", "committing"}
             => invitation[tok] # NoRow
        /\ pc[q] \in {"identified", "inserting", "committing"}
             => Pending(tok) /\ OfferRow(tok) \in held[q]
    BY <1>2 DEF Basics, JoinInv, HoldsInv
  <2>3. CASE q # r
    <3>1. pc'[q] = pc[q]
      BY <2>3, MoveEffect DEF Basics, OthersRest
    <3>2. QED
      BY <2>1, <2>2, <2>3, <3>1, OfferStays, PendingStays DEF Pending
  <2>4. CASE q = r /\ pc'[r] \in {"idle", "done", "failed"}
    BY <2>4
  <2>5. CASE q = r /\ Waits(r)
    <3>1. pc'[r] = pc[r] /\ invitation' = invitation
      BY <2>5, WaitEffect DEF Basics, tables
    <3>2. QED
      BY <2>2, <2>5, <3>1 DEF Pending
  <2>6. CASE q = r /\ Walks(r) /\ ~ Fails(r)
    <3>1. invitation' = invitation
      BY <2>6, WalkEffect DEF Basics, tables
    <3>2. ASSUME NEW from, NEW where, NEW rows, Goes(r, from, where, rows)
          PROVE  pc[r] = from /\ pc'[r] = where
      BY <3>2 DEF Goes, At, Goto, Basics, Locks, LocksInv
    <3>3. task[r].kind \in {"accept", "register"}
      BY <1>2, <2>6 DEF Joins
    <3>4. pc[r] # "permitted"
      BY <3>3 DEF Basics, PointsInv, ByManager
    <3>5. \/ pc'[r] = "claimed" /\ invitation[tok] # NoRow
          \/ pc[r] = "claimed" /\ pc'[r] = "identified" /\ Valid(tok)
          \/ pc[r] = "identified" /\ pc'[r] = "inserting"
          \/ pc[r] = "inserting" /\ pc'[r] = "committing"
          \/ pc'[r] \in {"permitted", "inviting", "saving"}
      BY <2>6, <3>2, <3>3, <3>4, Arrivals DEF Basics
    <3>6. QED
      BY <2>2, <2>6, <3>1, <3>5 DEF Valid, Pending
  <2>7. QED
    BY <2>3, <2>4, <2>5, <2>6, ComesBy DEF Basics
<1>3. QED
  BY <1>1, <1>2 DEF JoinInv, Joins, Pending

\* What the table of memberships comes to in a step.
LEMMA MemberStays ==
  ASSUME Basics, NEW r \in Request, Moves(r), NEW k \in Key
  PROVE  /\ k \in Keys /\ member'[k] # NoRow =>
              /\ member'[k].store = member[k].store
              /\ member'[k].user = member[k].user
         /\ k \in Keys /\ member'[k] # member[k] =>
              CommitChange(r) /\ k = task[r].key
         /\ k \notin Keys /\ member'[k] # NoRow =>
              CommitMember(r) /\ k = task[r].key /\ member'[k] = Hires(r)
<1>1. CASE member' = member
  BY <1>1 DEF Keys
<1>2. CASE CommitMember(r)
  <2>1. /\ task[r].key \notin Keys
        /\ member'[k] = IF k = task[r].key THEN Hires(r) ELSE member[k]
    BY <1>2, HireFresh, HireEffect DEF Basics
  <2>2. QED
    BY <1>2, <2>1 DEF Keys
<1>3. CASE CommitChange(r)
  <2>1. /\ task[r].key \in Keys /\ task[r].kind \in {"role", "remove"}
        /\ k # task[r].key => member'[k] = member[k]
        /\ task[r].kind = "role" =>
             /\ member'[task[r].key] = WithRole(member[task[r].key], task[r].role)
             /\ task[r].role \in Role
        /\ task[r].kind = "remove" => member'[task[r].key] = NoRow
    BY <1>3, ChangeEffect DEF Basics
  <2>2. member[task[r].key] \in Membership
    BY <2>1, RowFields DEF Basics
  <2>3. CASE k = task[r].key /\ task[r].kind = "role"
    BY <1>3, <2>1, <2>2, <2>3, ChangedRows
  <2>4. CASE k = task[r].key /\ task[r].kind = "remove"
    BY <1>3, <2>1, <2>4
  <2>5. CASE k # task[r].key
    BY <2>1, <2>5 DEF Keys
  <2>6. QED
    BY <2>1, <2>3, <2>4, <2>5
<1>4. QED
  BY <1>1, <1>2, <1>3, MemberChanges

LEMMA GivenStays ==
  ASSUME Basics, NEW r \in Request, Moves(r)
  PROVE  Made \subseteq Made' /\ Offered \subseteq Offered'
<1>1. task' = task /\ \A q \in Request : pc[q] = "done" => pc'[q] = "done"
  BY MoveEffect DEF OthersRest, Basics
<1>2. QED
  BY <1>1 DEF Made, Offered

\* A new invitation is made by the request that was to make it.
LEMMA OffersNow ==
  ASSUME Basics, NEW r \in Request, Moves(r), NEW tok \in Token,
         invitation[tok] = NoRow, invitation'[tok] # NoRow
  PROVE  CommitOffer(r) /\ tok = task[r].token
<1>1. CASE CommitMember(r)
  <2>1. Joins(r) => invitation[task[r].token] # NoRow
    BY <1>1, HireEffect DEF Basics, JoinInv
  <2>2. QED
    BY <1>1, <2>1, HireEffect DEF Basics
<1>2. CASE CommitOffer(r)
  BY <1>2, OfferEffect DEF Basics, Pending
<1>3. CASE CommitRevoke(r) /\ ~ Fails(r)
  BY <1>3, RevokeEffect DEF Basics, Pending
<1>4. QED
  BY <1>1, <1>2, <1>3, MemberChanges

LEMMA KeyStep ==
  ASSUME Basics, NEW r \in Request, Moves(r)
  PROVE  KeyInv'
<1>1. task' = task /\ task \in Traffic
  BY MoveEffect DEF OthersRest, Basics, Locks
<1>2. Made \subseteq Made' /\ Offered \subseteq Offered'
  BY GivenStays
<1>3. ASSUME NEW k \in Key, member'[k] # NoRow
      PROVE  k \in Made'
  <2>1. CASE k \in Keys
    BY <1>2, <2>1 DEF Basics, KeyInv
  <2>2. CASE k \notin Keys
    <3>1. CommitMember(r) /\ k = task[r].key
      BY <1>3, <2>2, MemberStays
    <3>2. task[r].kind \in Hiring /\ Finish(r, "done")
      BY <3>1, HireEffect DEF Basics
    <3>3. pc'[r] = "done"
      BY <3>2 DEF Finish, Basics, Locks, LocksInv
    <3>4. QED
      BY <1>1, <3>1, <3>2, <3>3 DEF Made
  <2>3. QED
    BY <2>1, <2>2
<1>4. ASSUME NEW tok \in Token, invitation'[tok] # NoRow
      PROVE  tok \in Offered'
  <2>1. CASE invitation[tok] # NoRow
    BY <1>2, <2>1 DEF Basics, KeyInv
  <2>2. CASE invitation[tok] = NoRow
    <3>1. CommitOffer(r) /\ tok = task[r].token
      BY <1>4, <2>2, OffersNow
    <3>2. task[r].kind = "invite" /\ Finish(r, "done")
      BY <3>1, OfferEffect DEF Basics
    <3>3. pc'[r] = "done"
      BY <3>2 DEF Finish, Basics, Locks, LocksInv
    <3>4. QED
      BY <1>1, <3>1, <3>2, <3>3 DEF Offered
  <2>3. QED
    BY <2>1, <2>2
<1>5. ASSUME NEW q \in Request, pc'[q] \in {"role", "remove", "saving"}
      PROVE  /\ task[q].key \in Made'
             /\ member'[task[q].key] # NoRow =>
                  member'[task[q].key].store = actor'[q].store
  <2> DEFINE k == task[q].key
  <2>1. ASSUME pc[q] \in {"role", "remove", "saving"}, actor'[q] = actor[q]
        PROVE  /\ k \in Made'
               /\ member'[k] # NoRow => member'[k].store = actor'[q].store
    <3>1. k \in Made /\ (k \in Keys => member[k].store = actor[q].store)
      BY <2>1 DEF Basics, KeyInv
    <3>2. k \notin Keys => member'[k] = NoRow
      BY <3>1, HireFresh, MemberStays DEF Made
    <3>3. k \in Key
      BY <3>1 DEF Made
    <3>4. QED
      BY <1>2, <2>1, <3>1, <3>2, <3>3, MemberStays
  <2>2. CASE q # r
    BY <1>5, <2>1, <2>2, MoveEffect DEF Basics, OthersRest, TypeOK
  <2>3. CASE q = r /\ Waits(r)
    BY <1>5, <2>1, <2>3, WaitEffect DEF Basics
  <2>4. CASE q = r /\ Walks(r) /\ ~ Fails(r)
    <3>1. member' = member
      BY <2>4, WalkEffect DEF Basics, tables
    <3>2. ASSUME NEW from, NEW where, NEW rows, Goes(r, from, where, rows)
          PROVE  pc[r] = from /\ pc'[r] = where
      BY <3>2 DEF Goes, At, Goto, Basics, Locks, LocksInv
    <3>3. CASE \E j \in Keys : Serves(r, member[j]) /\ pc[r] = "permitted"
      <4>1. PICK j \in Keys : Serves(r, member[j])
        BY <3>3
      <4>2. /\ actor'[r] = member[j] /\ MayAct(task[r], member[j])
            /\ pc'[r] = IF task[r].kind = "add" THEN "inserting" ELSE task[r].kind
        BY <3>2, <4>1 DEF Serves, Basics, TypeOK
      <4>3. task[r].kind \in {"role", "remove"}
        BY <1>5, <2>4, <3>3, <4>2 DEF Basics, PointsInv, ByManager
      <4>4. k \in Keys /\ member[k].store = actor'[r].store
        BY <2>4, <4>2, <4>3 DEF MayAct
      <4>5. QED
        BY <1>2, <2>4, <3>1, <4>4 DEF Basics, KeyInv
    <3>4. CASE Goes(r, task[r].kind, "saving", << >>) /\ Decide(r) /\ actor' = actor
      <4>1. pc[r] \in {"role", "remove"}
        BY <3>2, <3>4 DEF Decide
      <4>2. QED
        BY <2>1, <2>4, <3>4, <4>1
    <3>5. QED
      BY <1>5, <2>4, <3>3, <3>4, Ways DEF Basics
  <2>5. QED
    BY <1>5, <2>2, <2>3, <2>4, ComesBy DEF Basics
<1>6. QED
  BY <1>1, <1>3, <1>4, <1>5 DEF KeyInv, Keys

\* Managers(st)', for an st that is read before the step.
ManagersNow(st) ==
  {k \in Key : /\ member'[k] # NoRow
               /\ member'[k].store = st /\ member'[k].role = "manager"}

\* The managers of a store whose row a request has locked stay as they are.
LEMMA ManagersStay ==
  ASSUME Basics, NEW r \in Request, Moves(r), NEW st,
         StoreRow(st) \notin held[r]
  PROVE  /\ \A k \in Key : /\ member[k] # NoRow /\ member[k].store = st
                           => member'[k] = member[k]
         /\ \A k \in Key : /\ member'[k] # NoRow /\ member'[k].store = st
                           => member'[k] = member[k]
<1>1. CASE member' = member
  BY <1>1
<1>2. CASE CommitMember(r)
  <2>1. /\ \A k \in Key : member'[k] = IF k = task[r].key THEN Hires(r) ELSE member[k]
        /\ task[r].key \notin Keys
        /\ pc[r] = "committing" /\ Reserved(r) = held[r]
    BY <1>2, HireEffect, HireFresh DEF Basics
  <2>2. Hires(r).store # st
    BY <2>1 DEF Basics, HiringInv
  <2>3. QED
    BY <2>1, <2>2 DEF Keys
<1>3. CASE CommitChange(r)
  <2>1. /\ task[r].key \in Keys /\ pc[r] = "saving"
        /\ \A k \in Key : k # task[r].key => member'[k] = member[k]
    BY <1>3, ChangeEffect DEF Basics
  <2>2. member[task[r].key].store # st
    BY <2>1 DEF Basics, SavingInv, HoldsInv
  <2>3. \A k \in Key : k \in Keys /\ member'[k] # NoRow => member'[k].store = member[k].store
    BY MemberStays
  <2>4. QED
    BY <2>1, <2>2, <2>3 DEF Keys
<1>4. QED
  BY <1>1, <1>2, <1>3, MemberChanges

LEMMA HiresStay ==
  ASSUME Basics, NEW r \in Request, Moves(r), NEW q \in Request,
         pc[q] \in {"inserting", "committing"}, actor'[q] = actor[q]
  PROVE  Hires(q)' = Hires(q)
<1>1. task' = task /\ task \in Traffic /\ task[q].kind \in Hiring
  BY HiresNow, MoveEffect DEF OthersRest, Basics, Locks
<1>2. CASE task[q].kind \in {"found", "add"}
  BY <1>1, <1>2 DEF Hires
<1>3. CASE Joins(q)
  <2>1. task[q].token \in Token /\ invitation[task[q].token] # NoRow
    BY <1>1, <1>3, TaskFields DEF Basics, JoinInv
  <2>2. /\ invitation'[task[q].token].store = invitation[task[q].token].store
        /\ invitation'[task[q].token].role = invitation[task[q].token].role
    BY <2>1, OfferStays
  <2>3. task[q].kind \in {"accept", "register"}
    BY <1>3 DEF Joins
  <2>4. QED
    BY <1>1, <2>2, <2>3 DEF Hires
<1>4. QED
  BY <1>1, <1>2, <1>3 DEF Hiring, Joins

LEMMA HiringStep ==
  ASSUME Basics, NEW r \in Request, Moves(r)
  PROVE  HiringInv'
<1>1. ASSUME NEW q \in Request, pc'[q] = "committing"
      PROVE  StoreRow(Hires(q)'.store) \in Reserved(q)'
  <2>1. CASE q # r
    <3>1. /\ pc'[q] = pc[q] /\ held'[q] = held[q] /\ plan'[q] = plan[q]
          /\ actor'[q] = actor[q]
      BY <2>1, MoveEffect DEF Basics, OthersRest, TypeOK
    <3>2. Reserved(q)' = Reserved(q)
      BY <3>1 DEF Reserved
    <3>3. Hires(q)' = Hires(q)
      BY <1>1, <3>1, HiresStay
    <3>4. QED
      BY <1>1, <3>1, <3>2, <3>3 DEF Basics, HiringInv
  <2>2. CASE q = r /\ Waits(r)
    <3>1. /\ pc'[r] = pc[r] /\ actor' = actor /\ Reserved(r)' = Reserved(r)
      BY <2>2, WaitEffect DEF Basics
    <3>2. Hires(r)' = Hires(r)
      BY <1>1, <2>2, <3>1, HiresStay
    <3>3. QED
      BY <1>1, <2>2, <3>1, <3>2 DEF Basics, HiringInv
  <2>3. CASE q = r /\ Walks(r) /\ ~ Fails(r)
    <3> DEFINE x == StoreRow(Hires(r).store)
               y == UserRow(Hires(r).user)
    <3>1. ASSUME NEW from, NEW where, NEW rows, Goes(r, from, where, rows)
          PROVE  pc[r] = from /\ pc'[r] = where
      BY <3>1 DEF Goes, At, Goto, Basics, Locks, LocksInv
    <3>3. Goes(r, "inserting", "committing", <<x, y>>) /\ actor' = actor
      BY <1>1, <2>3, Ways DEF Basics
    <3>4. pc[r] = "inserting"
      BY <3>1, <3>3
    <3>5. x \in Lockable /\ y \in Lockable
      BY <3>4, HiresNow, RowsAreLockable DEF Basics, Membership
    <3>6. Hires(r)' = Hires(r)
      BY <3>3, <3>4, HiresStay
    <3>7. x \in Reserved(r)'
      <4> HIDE DEF x, y
      <4>1. /\ <<x, y>> \in Seq(Lockable)
            /\ {<<x, y>>[i] : i \in DOMAIN <<x, y>>} = {x, y}
        BY <3>5, TwoRows
      <4>2. plan'[r] = <<x, y>> /\ held'[r] = held[r] /\ Reserved(r) = held[r]
        BY <3>3, <4>1, GoesEffect DEF Basics
      <4>3. QED
        BY <4>1, <4>2, Reserves
    <3>8. QED
      BY <2>3, <3>6, <3>7
  <2>4. QED
    BY <1>1, <2>1, <2>2, <2>3, ComesBy DEF Basics
<1>2. QED
  BY <1>1 DEF HiringInv

LEMMA SavingStep ==
  ASSUME Basics, NEW r \in Request, Moves(r)
  PROVE  SavingInv'
<1>1. task' = task /\ task \in Traffic
  BY MoveEffect DEF OthersRest, Basics, Locks
<1>2. ASSUME NEW q \in Request, pc'[q] = "saving"
      PROVE  /\ task[q].key \in Keys' /\ member'[task[q].key].store = actor'[q].store
             /\ LastManager(task[q].key)' =>
                  task[q].kind = "role" /\ task[q].role = "manager"
             /\ task[q].kind = "remove" => task[q].key \notin sellers'
  <2> DEFINE k == task[q].key
             st == member[k].store
  <2>1. CASE q # r
    <3>1. pc'[q] = pc[q] /\ actor'[q] = actor[q]
      BY <2>1, MoveEffect DEF Basics, OthersRest, TypeOK
    <3>2. /\ k \in Keys /\ st = actor[q].store
          /\ LastManager(k) => task[q].kind = "role" /\ task[q].role = "manager"
          /\ task[q].kind = "remove" => k \notin sellers
          /\ StoreRow(st) \in held[q] /\ MemberRow(k) \in held[q]
      BY <1>2, <3>1 DEF Basics, SavingInv, HoldsInv
    <3>3. StoreRow(st) \notin held[r] /\ MemberRow(k) \notin held[r]
      BY <2>1, <3>2, NotBoth DEF Basics
    <3>4. member'[k] = member[k] /\ k \in Key
      BY <3>2, <3>3, ManagersStay DEF Keys
    <3>5. ManagersNow(st) = Managers(st)
      BY <3>3, ManagersStay DEF Managers, ManagersNow, Keys
    <3>6. LastManager(k)' = LastManager(k)
      <4>1. /\ k' = k /\ member'[k].store = st /\ member'[k].role = member[k].role
        BY <1>1, <3>4
      <4>2. Managers(member[k].store)' = ManagersNow(st)
        BY <4>1 DEF ManagersNow, Managers, Keys
      <4>3. QED
        BY <3>5, <4>1, <4>2 DEF LastManager
    <3>7. k \in sellers' => k \in sellers
      <4>1. CASE CommitSale(r) /\ ~ Fails(r)
        <5>1. /\ pc[r] = "sell" /\ Reserved(r) = held[r]
              /\ sellers' = sellers \cup {task[r].key}
          BY <4>1, SaleEffect DEF Basics
        <5>2. MemberRow(task[r].key) \in held[r]
          BY <5>1 DEF Basics, HoldsInv
        <5>3. QED
          BY <3>3, <5>1, <5>2
      <4>2. QED
        BY <4>1, MemberChanges
    <3>8. QED
      BY <3>1, <3>2, <3>4, <3>6, <3>7 DEF Keys
  <2>2. CASE q = r /\ Waits(r)
    <3>1. pc'[r] = pc[r] /\ actor' = actor /\ UNCHANGED <<member, sellers>>
      BY <2>2, WaitEffect DEF Basics, tables
    <3>2. /\ k \in Keys /\ member[k].store = actor[r].store
          /\ LastManager(k) => task[r].kind = "role" /\ task[r].role = "manager"
          /\ task[r].kind = "remove" => k \notin sellers
      BY <1>2, <2>2, <3>1 DEF Basics, SavingInv
    <3>3. Keys' = Keys /\ LastManager(k)' = LastManager(k)
      BY <1>1, <3>1 DEF Keys, LastManager, Managers
    <3>4. QED
      BY <2>2, <3>1, <3>2, <3>3
  <2>3. CASE q = r /\ Walks(r) /\ ~ Fails(r)
    <3>1. UNCHANGED <<member, sellers>>
      BY <2>3, WalkEffect DEF Basics, tables
    <3>2. ASSUME NEW from, NEW where, NEW rows, Goes(r, from, where, rows)
          PROVE  pc[r] = from /\ pc'[r] = where
      BY <3>2 DEF Goes, At, Goto, Basics, Locks, LocksInv
    <3>4. Goes(r, task[r].kind, "saving", << >>) /\ Decide(r) /\ actor' = actor
      BY <1>2, <2>3, Ways DEF Basics
    <3>5. /\ pc[r] \in {"role", "remove"} /\ k \in Keys
          /\ LastManager(k) => task[r].kind = "role" /\ task[r].role = "manager"
          /\ task[r].kind = "remove" => k \notin sellers
      BY <1>2, <2>3, <3>2, <3>4, DecideEffect, FailEffect DEF Basics
    <3>6. member[k].store = actor[r].store
      BY <2>3, <3>5 DEF Basics, KeyInv
    <3>7. Keys' = Keys /\ LastManager(k)' = LastManager(k)
      BY <1>1, <3>1 DEF Keys, LastManager, Managers
    <3>8. QED
      BY <2>3, <3>1, <3>4, <3>5, <3>6, <3>7
  <2>4. QED
    BY <1>2, <2>1, <2>2, <2>3, ComesBy DEF Basics
<1>3. QED
  BY <1>1, <1>2 DEF SavingInv, Keys, LastManager, Managers

-----------------------------------------------------------------------------
(* A user has one store *)

\* A user who is about to join a store has none: the entry of the unique index
\* is locked.
PlaceInv == \A r \in Request : pc[r] = "committing" => Of(task[r].user) = {}

UserInv == \A j, k \in Keys : member[j].user = member[k].user => j = k

LEMMA PlaceStep ==
  ASSUME Basics, PlaceInv, NEW r \in Request, Moves(r)
  PROVE  PlaceInv'
<1>1. task' = task
  BY MoveEffect DEF OthersRest, Basics
<1>2. ASSUME NEW q \in Request, pc'[q] = "committing",
             NEW k \in Key, member'[k] # NoRow, member'[k].user = task[q].user
      PROVE  FALSE
  <2>1. CASE q # r
    <3>1. pc[q] = "committing"
      BY <1>2, <2>1, MoveEffect DEF OthersRest, Basics
    <3>2. Of(task[q].user) = {} /\ Place(task[q].user) \in held[q]
      BY <3>1 DEF PlaceInv, Basics, HoldsInv
    <3>3. CASE k \in Keys
      <4>1. member[k].user = task[q].user
        BY <1>2, <3>3, MemberStays
      <4>2. QED
        BY <3>2, <3>3, <4>1 DEF Of
    <3>4. CASE k \notin Keys
      <4>1. CommitMember(r) /\ member'[k] = Hires(r)
        BY <1>2, <3>4, MemberStays
      <4>2. pc[r] = "committing"
        BY <4>1, HireEffect DEF Basics
      <4>3. Place(task[r].user) \in held[r] /\ Hires(r).user = task[r].user
        BY <4>2, HiresNow DEF Basics, HoldsInv
      <4>4. QED
        BY <1>2, <2>1, <3>2, <4>1, <4>3, NotBoth DEF Basics
    <3>5. QED
      BY <3>3, <3>4
  <2>2. CASE q = r /\ Waits(r)
    <3>1. pc'[r] = pc[r] /\ member' = member
      BY <2>2, WaitEffect DEF Basics, tables
    <3>2. QED
      BY <1>2, <2>2, <3>1 DEF PlaceInv, Of, Keys
  <2>3. CASE q = r /\ Walks(r) /\ ~ Fails(r)
    <3>1. member' = member
      BY <2>3, WalkEffect DEF Basics, tables
    <3>2. /\ Of(Hires(r).user) = {}
          /\ Goes(r, "inserting", "committing",
                  <<StoreRow(Hires(r).store), UserRow(Hires(r).user)>>)
      BY <1>2, <2>3, Ways DEF Basics
    <3>3. pc[r] = "inserting"
      BY <3>2 DEF Goes, At
    <3>4. Hires(r).user = task[r].user
      BY <3>3, HiresNow DEF Basics
    <3>5. QED
      BY <1>2, <2>3, <3>1, <3>2, <3>4 DEF Of, Keys
  <2>4. QED
    BY <1>2, <2>1, <2>2, <2>3, ComesBy DEF Basics
<1>3. QED
  BY <1>1, <1>2 DEF PlaceInv, Of, Keys

LEMMA UserStep ==
  ASSUME Basics, PlaceInv, UserInv, NEW r \in Request, Moves(r)
  PROVE  UserInv'
<1>1. ASSUME NEW j \in Key, NEW k \in Keys, member'[j] # NoRow, member'[k] # NoRow,
             member'[j].user = member'[k].user
      PROVE  j = k
  <2>1. member'[k].user = member[k].user
    BY <1>1, MemberStays DEF Keys
  <2>2. CASE j \in Keys
    <3>1. member'[j].user = member[j].user
      BY <1>1, <2>2, MemberStays
    <3>2. QED
      BY <1>1, <2>1, <2>2, <3>1 DEF UserInv
  <2>3. CASE j \notin Keys
    <3>1. CommitMember(r) /\ member'[j] = Hires(r)
      BY <1>1, <2>3, MemberStays
    <3>2. pc[r] = "committing"
      BY <3>1, HireEffect DEF Basics
    <3>3. Of(task[r].user) = {} /\ Hires(r).user = task[r].user
      BY <3>2, HiresNow DEF PlaceInv, Basics
    <3>4. QED
      BY <1>1, <2>1, <3>1, <3>3 DEF Of
  <2>4. QED
    BY <2>2, <2>3
<1>2. ASSUME NEW j \in Key, NEW k \in Key, j \notin Keys, k \notin Keys,
             member'[j] # NoRow, member'[k] # NoRow
      PROVE  j = k
  BY <1>2, MemberStays
<1>3. QED
  BY <1>1, <1>2 DEF UserInv, Keys

-----------------------------------------------------------------------------
(* Every store keeps a manager *)

\* Whoever works somewhere, is invited there or acts there, finds a manager.
ManagerInv ==
  /\ StoreKeepsManager
  /\ \A tok \in Token :
       invitation[tok] # NoRow => Managers(invitation[tok].store) # {}
  /\ \A r \in Request : actor[r] # NoRow => Managers(actor[r].store) # {}

\* A removal or demotion that has found another manager, finds him still there.
LEMMA ManagedStays ==
  ASSUME Basics, NEW r \in Request, Moves(r), NEW st, Managers(st) # {}
  PROVE  ManagersNow(st) # {}
<1>1. PICK k \in Managers(st) : TRUE
  OBVIOUS
<1>2. k \in Key /\ k \in Keys /\ member[k].store = st /\ member[k].role = "manager"
  BY <1>1 DEF Managers, Keys
<1>3. CASE member'[k] = member[k]
  BY <1>2, <1>3 DEF ManagersNow, Keys
<1>4. CASE member'[k] # member[k]
  <2>1. CommitChange(r) /\ k = task[r].key
    BY <1>2, <1>4, MemberStays
  <2>2. /\ pc[r] = "saving" /\ task[r].kind \in {"role", "remove"}
        /\ \A j \in Key \ {k} : member'[j] = member[j]
        /\ task[r].kind = "role" =>
             /\ member'[k] = WithRole(member[k], task[r].role)
             /\ task[r].role \in Role
    BY <2>1, ChangeEffect DEF Basics
  <2>3. CASE Managers(st) = {k}
    <3>1. Cardinality(Managers(member[k].store)) = 1
      BY <1>2, <2>3, FS_Singleton
    <3>2. LastManager(k)
      BY <1>2, <3>1 DEF LastManager
    <3>3. task[r].kind = "role" /\ task[r].role = "manager"
      BY <2>1, <2>2, <3>2 DEF Basics, SavingInv
    <3>4. member[k] \in Membership
      BY <1>2, RowFields DEF Basics
    <3>5. /\ member'[k] \in Membership /\ member'[k].store = st
          /\ member'[k].role = "manager"
      BY <1>2, <2>2, <3>3, <3>4, ChangedRows
    <3>6. QED
      BY <1>2, <3>5, Absent DEF ManagersNow
  <2>4. CASE Managers(st) # {k}
    <3>1. PICK j \in Managers(st) : j # k
      BY <1>1, <2>4
    <3>2. QED
      BY <2>2, <3>1 DEF ManagersNow, Managers, Keys
  <2>5. QED
    BY <2>3, <2>4
<1>5. QED
  BY <1>3, <1>4

LEMMA ManagerStep ==
  ASSUME Basics, ManagerInv, NEW r \in Request, Moves(r)
  PROVE  ManagerInv'
<1>1. \A st : ManagersNow(st) = {k \in Key : /\ member'[k] # NoRow
                                            /\ member'[k].store = st
                                            /\ member'[k].role = "manager"}
  BY DEF ManagersNow
<1>2. ASSUME NEW k \in Key, member'[k] # NoRow
      PROVE  ManagersNow(member'[k].store) # {}
  <2>1. CASE k \in Keys
    <3>1. Managers(member[k].store) # {} /\ member'[k].store = member[k].store
      BY <1>2, <2>1, MemberStays DEF ManagerInv, StoreKeepsManager
    <3>2. QED
      BY <3>1, ManagedStays
  <2>2. CASE k \notin Keys
    <3>1. CommitMember(r) /\ member'[k] = Hires(r)
      BY <1>2, <2>2, MemberStays
    <3>2. pc[r] = "committing"
      BY <3>1, HireEffect DEF Basics
    <3>3. CASE task[r].kind = "found"
      <4>1. Hires(r).role = "manager"
        BY <3>2, <3>3, HiresNow DEF Basics
      <4>2. QED
        BY <1>2, <3>1, <4>1 DEF ManagersNow
    <3>4. CASE task[r].kind = "add"
      <4>1. Hires(r).store = actor[r].store /\ actor[r] # NoRow
        BY <3>2, <3>4, HiresNow DEF Basics
      <4>2. Managers(Hires(r).store) # {}
        BY <4>1 DEF ManagerInv
      <4>3. QED
        BY <3>1, <4>2, ManagedStays
    <3>5. CASE Joins(r)
      <4>1. /\ Hires(r).store = invitation[task[r].token].store
            /\ invitation[task[r].token] # NoRow /\ task[r].token \in Token
        BY <3>2, <3>5, HiresNow, TaskFields DEF Basics, Locks
      <4>2. Managers(Hires(r).store) # {}
        BY <4>1 DEF ManagerInv
      <4>3. QED
        BY <3>1, <4>2, ManagedStays
    <3>6. QED
      BY <3>2, <3>3, <3>4, <3>5, HiresNow DEF Basics, Hiring, Joins
  <2>3. QED
    BY <2>1, <2>2
<1>3. ASSUME NEW tok \in Token, invitation'[tok] # NoRow
      PROVE  ManagersNow(invitation'[tok].store) # {}
  <2>1. CASE invitation[tok] # NoRow
    <3>1. /\ Managers(invitation[tok].store) # {}
          /\ invitation'[tok].store = invitation[tok].store
      BY <2>1, OfferStays DEF ManagerInv
    <3>2. QED
      BY <3>1, ManagedStays
  <2>2. CASE invitation[tok] = NoRow
    <3>1. CommitOffer(r) /\ tok = task[r].token
      BY <1>3, <2>2, OffersNow
    <3>2. actor[r] # NoRow /\ invitation'[tok].store = actor[r].store
      <4>1. /\ actor[r] \in Membership
            /\ invitation'[tok] =
                 [store |-> actor[r].store, phone |-> task[r].phone,
                  role |-> task[r].role, status |-> "pending", by |-> NoUser]
        BY <3>1, OfferEffect DEF Basics
      <4>2. QED
        BY <4>1, Absent
    <3>3. QED
      BY <3>2, ManagedStays DEF ManagerInv
  <2>3. QED
    BY <2>1, <2>2
<1>4. ASSUME NEW q \in Request, actor'[q] # NoRow
      PROVE  ManagersNow(actor'[q].store) # {}
  <2>1. CASE actor'[q] = actor[q]
    BY <1>4, <2>1, ManagedStays DEF ManagerInv
  <2>2. CASE actor'[q] # actor[q]
    <3>1. Walks(r)
      BY <2>2, WaitEffect, CommitEffect, RollbackFails DEF Moves, Basics
    <3>2. PICK k \in Keys : actor' = [actor EXCEPT ![r] = member[k]]
      BY <2>2, <3>1, WalkEffect DEF Basics
    <3>3. DOMAIN actor = Request
      BY DEF Basics, TypeOK
    <3>4. actor'[q] = member[k]
      BY <2>2, <3>2, <3>3
    <3>5. Managers(actor'[q].store) # {}
      BY <3>4 DEF ManagerInv, StoreKeepsManager
    <3>6. QED
      BY <3>5, ManagedStays
  <2>3. QED
    BY <2>1, <2>2
<1>5. QED
  BY <1>2, <1>3, <1>4 DEF ManagerInv, StoreKeepsManager, Managers, ManagersNow, Keys

-----------------------------------------------------------------------------
(* What sales and capabilities refer to *)

LEMMA CodeChanges ==
  ASSUME NEW r \in Request, Moves(r)
  PROVE  /\ codes' = codes \/ CommitMember(r) \/ CommitChange(r)
              \/ (CommitCode(r) /\ ~ Fails(r))
<1>1. CASE Fails(r)
  BY <1>1 DEF Fails, tables
<1>2. CASE Waits(r)
  BY <1>2 DEF Waits, tables
<1>3. CASE Walks(r)
  BY <1>3 DEF Walks, Permit, Load, Found, Claim, Validate, Identify, Insert,
    Supersede, Decide, Arrive, tables
<1>4. CASE Rollback(r)
  BY <1>4 DEF Rollback, tables
<1>5. CASE Commits(r) /\ ~ Fails(r)
  BY <1>5 DEF Commits, CommitMember, CommitOffer, CommitRevoke, CommitChange,
    CommitCode, CommitProfile, CommitSale
<1>6. QED
  BY <1>1, <1>2, <1>3, <1>4, <1>5 DEF Moves

\* A membership that is removed is the one a request has decided to remove.
LEMMA GoneBy ==
  ASSUME Basics, NEW r \in Request, Moves(r), NEW k \in Keys, member'[k] = NoRow
  PROVE  /\ CommitChange(r) /\ task[r].kind = "remove" /\ k = task[r].key
         /\ k \notin sellers /\ sellers' = sellers /\ codes'[k] = {}
<1>1. k \in Key /\ member[k] # NoRow /\ member[k] \in Membership
  BY RowFields DEF Keys, Basics
<1>2. CommitChange(r) /\ k = task[r].key
  BY <1>1, MemberStays
<1>3. /\ pc[r] = "saving" /\ task[r].kind \in {"role", "remove"}
      /\ task[r].kind = "role" =>
           /\ member'[k] = WithRole(member[k], task[r].role)
           /\ task[r].role \in Role
      /\ task[r].kind = "remove" => codes'[k] = {}
      /\ sellers' = sellers
  BY <1>2, ChangeEffect DEF Basics
<1>4. task[r].kind # "role"
  BY <1>1, <1>3, ChangedRows, Absent
<1>5. k \notin sellers
  BY <1>2, <1>3, <1>4 DEF Basics, SavingInv
<1>6. QED
  BY <1>2, <1>3, <1>4, <1>5

LEMMA DanglesStep ==
  ASSUME Basics, NothingDangles, NEW r \in Request, Moves(r)
  PROVE  NothingDangles'
<1>1. ASSUME NEW k \in sellers'
      PROVE  k \in Key /\ member'[k] # NoRow
  <2>1. CASE k \in sellers
    <3>1. k \in Keys
      BY <2>1 DEF NothingDangles
    <3>2. QED
      BY <2>1, <3>1, GoneBy DEF Keys
  <2>2. CASE k \notin sellers
    <3>1. CommitSale(r) /\ ~ Fails(r)
      BY <2>2, MemberChanges
    <3>2. k \in Keys /\ member' = member
      BY <2>2, <3>1, SaleEffect DEF Basics
    <3>3. QED
      BY <3>2 DEF Keys
  <2>3. QED
    BY <2>1, <2>2
<1>2. ASSUME NEW k \in Key, codes'[k] # {}
      PROVE  member'[k] # NoRow
  <2>1. CASE k \in Keys
    BY <1>2, <2>1, GoneBy
  <2>2. CASE k \notin Keys
    <3>1. codes[k] = {}
      BY <2>2 DEF NothingDangles
    <3>2. CASE CommitMember(r)
      <4>1. pc[r] = "committing"
        BY <3>2, HireEffect DEF Basics
      <4>2. Hires(r) # NoRow
        BY <4>1, HiresNow, Absent DEF Basics
      <4>3. QED
        BY <1>2, <3>1, <3>2, <4>2, HireEffect DEF Basics
    <3>3. CASE CommitChange(r)
      BY <1>2, <2>2, <3>1, <3>3, ChangeEffect DEF Basics
    <3>4. CASE CommitCode(r) /\ ~ Fails(r)
      BY <1>2, <2>2, <3>1, <3>4, CodeEffect DEF Basics
    <3>5. QED
      BY <1>2, <3>1, <3>2, <3>3, <3>4, CodeChanges
  <2>3. QED
    BY <2>1, <2>2
<1>3. QED
  BY <1>1, <1>2 DEF NothingDangles, Keys

-----------------------------------------------------------------------------
(* A new invitation replaces all those for its phone number *)

\* The invitations that a request is locking to revoke them are those of its
\* store and phone number; as it has locked the store, nobody adds to them.
SweepInv ==
  \A r \in Request : pc[r] = "inviting" =>
    /\ \A tok \in Token : OfferRow(tok) \in Reserved(r) =>
         /\ invitation[tok] # NoRow
         /\ invitation[tok].store = actor[r].store
         /\ invitation[tok].phone = task[r].phone
    /\ \A tok \in Superseded(r) : OfferRow(tok) \in Reserved(r)

LEMMA PendingNow ==
  ASSUME Basics, NEW r \in Request, Moves(r), NEW tok \in Token,
         ~ Pending(tok), Pending(tok)'
  PROVE  CommitOffer(r) /\ tok = task[r].token
<1>1. invitation'[tok] # NoRow /\ invitation'[tok].status = "pending"
  BY DEF Pending
<1>2. CASE invitation[tok] = NoRow
  BY <1>1, <1>2, OffersNow
<1>3. CASE invitation[tok] # NoRow
  <2>1. invitation[tok] \in Invitation /\ invitation[tok].status # "pending"
    BY <1>3, RowFields DEF Basics, Pending
  <2>2. invitation'[tok] # invitation[tok]
    BY <1>1, <2>1
  <2>3. CASE CommitMember(r)
    <3>1. Joins(r) /\ tok = task[r].token
      BY <2>2, <2>3, HireEffect DEF Basics
    <3>2. pc[r] = "committing"
      BY <2>3, HireEffect DEF Basics
    <3>3. Pending(tok)
      BY <3>1, <3>2 DEF Basics, JoinInv
    <3>4. QED
      BY <3>3
  <2>4. CASE CommitOffer(r)
    <3>1. tok # task[r].token
      BY <1>3, <2>4, OfferFresh
    <3>2. QED
      BY <2>2, <2>4, <3>1, OfferEffect DEF Basics
  <2>5. CASE CommitRevoke(r) /\ ~ Fails(r)
    BY <2>2, <2>5, RevokeEffect DEF Basics
  <2>6. QED
    BY <2>2, <2>3, <2>4, <2>5, MemberChanges
<1>4. QED
  BY <1>2, <1>3

LEMMA SweepStep ==
  ASSUME Basics, SweepInv, NEW r \in Request, Moves(r)
  PROVE  SweepInv'
<1>1. task' = task
  BY MoveEffect DEF OthersRest, Basics
<1>2. ASSUME NEW q \in Request, pc'[q] = "inviting", NEW tok \in Token
      PROVE  /\ OfferRow(tok) \in Reserved(q)' =>
                  /\ invitation'[tok] # NoRow
                  /\ invitation'[tok].store = actor'[q].store
                  /\ invitation'[tok].phone = task[q].phone
             /\ /\ Pending(tok)' /\ invitation'[tok].store = actor'[q].store
                /\ invitation'[tok].phone = task[q].phone
                => OfferRow(tok) \in Reserved(q)'
  <2>1. CASE q # r
    <3>1. /\ pc'[q] = pc[q] /\ held'[q] = held[q] /\ plan'[q] = plan[q]
          /\ actor'[q] = actor[q]
      BY <2>1, MoveEffect DEF Basics, OthersRest, TypeOK
    <3>2. Reserved(q)' = Reserved(q)
      BY <3>1 DEF Reserved
    <3>3. OfferRow(tok) \in Reserved(q) =>
            /\ invitation[tok] # NoRow
            /\ invitation[tok].store = actor[q].store
            /\ invitation[tok].phone = task[q].phone
      BY <1>2, <3>1 DEF SweepInv
    <3>4. /\ Pending(tok) /\ invitation[tok].store = actor[q].store
          /\ invitation[tok].phone = task[q].phone
          => OfferRow(tok) \in Reserved(q)
      BY <1>2, <3>1 DEF SweepInv, Superseded
    <3>5. CASE Pending(tok) \/ ~ Pending(tok)'
      <4>1. invitation[tok] # NoRow =>
              /\ invitation'[tok] # NoRow
              /\ invitation'[tok].store = invitation[tok].store
              /\ invitation'[tok].phone = invitation[tok].phone
        BY OfferStays
      <4>2. Pending(tok) => invitation[tok] # NoRow
        BY DEF Pending
      <4>3. QED
        BY <3>1, <3>2, <3>3, <3>4, <3>5, <4>1, <4>2
    <3>6. CASE ~ Pending(tok) /\ Pending(tok)'
      <4>1. CommitOffer(r) /\ tok = task[r].token
        BY <3>6, PendingNow
      <4>2. /\ pc[r] = "inviting"
            /\ invitation'[tok] =
                 [store |-> actor[r].store, phone |-> task[r].phone,
                  role |-> task[r].role, status |-> "pending", by |-> NoUser]
        BY <4>1, OfferEffect DEF Basics
      <4>3. invitation'[tok].store = actor[r].store
        BY <4>2
      <4>4. StoreRow(actor[r].store) \in held[r] /\ StoreRow(actor[q].store) \in held[q]
        BY <1>2, <3>1, <4>2 DEF Basics, HoldsInv
      <4>5. actor[r].store # actor[q].store
        BY <2>1, <4>4, NotBoth DEF Basics
      <4>6. invitation[tok] = NoRow
        BY <4>1, OfferFresh
      <4>7. QED
        BY <3>1, <3>2, <3>3, <4>3, <4>5, <4>6
    <3>7. QED
      BY <3>5, <3>6
  <2>2. CASE q = r /\ Waits(r)
    <3>1. /\ pc'[r] = pc[r] /\ invitation' = invitation /\ actor' = actor
          /\ Reserved(r)' = Reserved(r)
      BY <2>2, WaitEffect DEF Basics, tables
    <3>2. Pending(tok)' = Pending(tok)
      BY <3>1 DEF Pending
    <3>3. QED
      BY <1>2, <2>2, <3>1, <3>2 DEF SweepInv, Superseded
  <2>3. CASE q = r /\ Walks(r) /\ ~ Fails(r)
    <3>1. invitation' = invitation
      BY <2>3, WalkEffect DEF Basics, tables
    <3>2. Pending(tok)' = Pending(tok)
      BY <3>1 DEF Pending
    <3>3. /\ \E rows \in Orders({OfferRow(t) : t \in Superseded(r)}) :
               Goes(r, "invite", "inviting", rows)
          /\ actor' = actor
      BY <1>2, <2>3, Ways DEF Basics
    <3>4. PICK rows \in Orders({OfferRow(t) : t \in Superseded(r)}) :
            Goes(r, "invite", "inviting", rows)
      BY <3>3
    <3>5. /\ rows \in Seq(Lockable)
          /\ {rows[i] : i \in DOMAIN rows} = {OfferRow(t) : t \in Superseded(r)}
      BY SupersededRows
    <3>6. /\ pc[r] = "invite" /\ plan'[r] = rows /\ held'[r] = held[r]
          /\ Reserved(r) = held[r]
      BY <3>4, <3>5, GoesEffect DEF Basics
    <3>7. Reserved(r)' = held[r] \cup {OfferRow(t) : t \in Superseded(r)}
      <4> DEFINE S == {rows[i] : i \in DOMAIN rows}
      <4>1. Reserved(r)' = held[r] \cup S
        BY <3>6, Reserves
      <4>2. S = {OfferRow(t) : t \in Superseded(r)}
        BY <3>5
      <4> HIDE DEF S
      <4>3. QED
        BY <4>1, <4>2
    <3>8. OfferRow(tok) \notin held[r]
      BY <3>6 DEF Basics, HoldsInv
    <3>9. OfferRow(tok) \in Reserved(r)' <=> tok \in Superseded(r)
      BY <3>7, <3>8, RowsDiffer
    <3>10. tok \in Superseded(r) <=>
             /\ Pending(tok) /\ invitation[tok].store = actor[r].store
             /\ invitation[tok].phone = task[r].phone
      BY DEF Superseded
    <3>11. Pending(tok) => invitation[tok] # NoRow
      BY DEF Pending
    <3>12. QED
      BY <2>3, <3>1, <3>2, <3>3, <3>9, <3>10, <3>11
  <2>4. QED
    BY <1>2, <2>1, <2>2, <2>3, ComesBy DEF Basics
<1>3. QED
  BY <1>1, <1>2 DEF SweepInv, Superseded

-----------------------------------------------------------------------------
(* The inductive invariant *)

IInv ==
  Basics /\ PlaceInv /\ UserInv /\ ManagerInv /\ NothingDangles /\ SweepInv

LEMMA InitInv ==
  ASSUME Init
  PROVE  IInv
<1>1. /\ Locks
      /\ \A r \in Request : pc[r] = "idle" /\ held[r] = {} /\ plan[r] = << >>
  BY LocksInit DEF Init, Locks
<1>2. \A r \in Request : Reserved(r) = {}
  BY <1>1 DEF Reserved
<1>3. /\ member = FirstMember /\ invitation = FirstOffer /\ phone = FirstPhone
      /\ expired = {} /\ sellers = {} /\ actor = [r \in Request |-> NoRow]
      /\ codes = [k \in Key |-> IF member[k] = NoRow THEN {}
                                ELSE Defaults(member[k].role)]
  BY DEF Init
<1>4. TypeOK
  <2>1. \A k \in Key : member[k] # NoRow => Defaults(member[k].role) \in SUBSET Code
    <3>1. \A k \in Key : member[k] # NoRow => member[k].role \in Role
      BY <1>3, MembershipAssumption DEF Membership
    <3>2. QED
      BY <3>1, DefaultCodes
  <2>2. codes \in [Key -> SUBSET Code]
    BY <1>3, <2>1
  <2>3. QED
    BY <1>3, <2>2, MembershipAssumption DEF TypeOK
<1>5. KeyInv
  BY <1>1, <1>3 DEF KeyInv, Keys, Made, Offered
<1>6. RestInv /\ PointsInv /\ ActorInv /\ JoinInv /\ SavingInv /\ HiringInv /\ SweepInv
        /\ PlaceInv
  BY <1>1 DEF RestInv, PointsInv, ActorInv, JoinInv, SavingInv, HiringInv, SweepInv,
    PlaceInv
<1>7. HoldsInv
  BY <1>1, <1>2 DEF HoldsInv
<1>8. NothingDangles
  BY <1>3 DEF NothingDangles, Keys
<1>9. UserInv
  BY <1>3, FirstRows DEF UserInv, Keys
<1>10. ManagerInv
  <2>1. ASSUME NEW st, NEW k \in Key, FirstMember[k] # NoRow,
               FirstMember[k].role = "manager", FirstMember[k].store = st
        PROVE  Managers(st) # {}
    BY <1>3, <2>1 DEF Managers, Keys
  <2>2. ASSUME NEW k \in Keys
        PROVE  Managers(member[k].store) # {}
    <3>1. PICK j \in Key : /\ FirstMember[j] # NoRow /\ FirstMember[j].role = "manager"
                            /\ FirstMember[j].store = FirstMember[k].store
      BY <1>3, FirstRows DEF Keys
    <3>2. QED
      BY <1>3, <2>1, <3>1
  <2>3. \A tok \in Token :
          invitation[tok] # NoRow => Managers(invitation[tok].store) # {}
    BY <1>3, <2>1, FirstRows
  <2>4. QED
    BY <1>3, <2>2, <2>3 DEF ManagerInv, StoreKeepsManager
<1>11. QED
  BY <1>1, <1>4, <1>5, <1>6, <1>7, <1>8, <1>9, <1>10 DEF IInv, Basics

LEMMA MoveInv ==
  ASSUME IInv, NEW r \in Request, Moves(r)
  PROVE  IInv'
<1>1. /\ Basics /\ Locks /\ RestInv /\ TypeOK /\ PointsInv /\ ActorInv /\ JoinInv
      /\ SavingInv /\ HoldsInv
  BY DEF IInv, Basics
<1>2. Locks' /\ TypeOK'
  BY <1>1, MoveEffect
<1>3. RestInv' /\ PointsInv' /\ ActorInv' /\ HoldsInv'
  BY <1>1, RestStep, PointsStep, ActorStep, HoldsStep
<1>4. JoinInv' /\ SavingInv' /\ KeyInv' /\ HiringInv'
  BY <1>1, JoinStep, SavingStep, KeyStep, HiringStep
<1>5. PlaceInv' /\ UserInv' /\ ManagerInv' /\ NothingDangles' /\ SweepInv'
  BY <1>1, PlaceStep, UserStep, ManagerStep, DanglesStep, SweepStep DEF IInv
<1>6. QED
  BY <1>2, <1>3, <1>4, <1>5 DEF IInv, Basics

\* Time goes by, or nothing happens.
LEMMA StillInv ==
  ASSUME IInv, UNCHANGED <<transaction, tables, actor>>, expired' \subseteq Token
  PROVE  IInv'
<1>1. UNCHANGED <<task, pc, held, plan>>
      /\ UNCHANGED <<member, codes, invitation, phone, sellers, actor>>
  BY DEF transaction, tables
<1>2. Locks' /\ RestInv' /\ PointsInv' /\ ActorInv'
  BY <1>1 DEF IInv, Basics, Locks, LocksInv, RestInv, PointsInv, ActorInv, Joins
<1>3. TypeOK'
  BY <1>1 DEF IInv, Basics, TypeOK
<1>4. \A r \in Request : Reserved(r)' = Reserved(r) /\ Hires(r)' = Hires(r)
        /\ Joins(r)' = Joins(r) /\ Superseded(r)' = Superseded(r)
  BY <1>1 DEF Reserved, Hires, Joins, Superseded, Pending
<1>5. Keys' = Keys /\ Made' = Made /\ Offered' = Offered
  BY <1>1 DEF Keys, Made, Offered
<1>6. \A k : LastManager(k)' = LastManager(k)
  BY <1>1 DEF LastManager, Managers, Keys
<1>7. \A tok : Pending(tok)' = Pending(tok)
  BY <1>1 DEF Pending
<1>8. JoinInv'
  BY <1>1, <1>4 DEF IInv, Basics, JoinInv, Pending
<1>9. SavingInv'
  BY <1>1, <1>5 DEF IInv, Basics, SavingInv, LastManager, Managers, Keys
<1>10. HoldsInv'
  BY <1>1, <1>4 DEF IInv, Basics, HoldsInv
<1>11. KeyInv' /\ HiringInv'
  BY <1>1, <1>4, <1>5 DEF IInv, Basics, KeyInv, HiringInv
<1>12. PlaceInv' /\ UserInv'
  BY <1>1, <1>5 DEF IInv, PlaceInv, UserInv, Of
<1>13. ManagerInv' /\ NothingDangles'
  BY <1>1 DEF IInv, ManagerInv, StoreKeepsManager, NothingDangles, Managers, Keys
<1>14. SweepInv'
  BY <1>1, <1>4 DEF IInv, SweepInv
<1>15. QED
  BY <1>2, <1>3, <1>8, <1>9, <1>10, <1>11, <1>12, <1>13, <1>14 DEF IInv, Basics

LEMMA NextInv ==
  ASSUME IInv, [Next]_vars
  PROVE  IInv'
<1>1. CASE \E r \in Request : Moves(r)
  BY <1>1, MoveInv
<1>2. CASE \E tok \in Token : Expire(tok)
  <2>1. expired \subseteq Token
    BY DEF IInv, Basics, TypeOK
  <2>2. UNCHANGED <<transaction, tables, actor>> /\ expired' \subseteq Token
    BY <1>2, <2>1 DEF Expire
  <2>3. QED
    BY <2>2, StillInv
<1>3. CASE UNCHANGED vars
  <2>1. UNCHANGED <<transaction, tables, actor>> /\ expired' \subseteq Token
    BY <1>3 DEF vars, IInv, Basics, TypeOK
  <2>2. QED
    BY <2>1, StillInv
<1>4. QED
  BY <1>1, <1>2, <1>3, Steps

LEMMA Invariant == Spec => []IInv
<1>1. Init => IInv
  BY InitInv
<1>2. IInv /\ [Next]_vars => IInv'
  BY NextInv
<1>3. QED
  BY <1>1, <1>2, PTL DEF Spec

-----------------------------------------------------------------------------
(* What is promised *)

\* However the managers of a store demote and remove each other at the same
\* time, every store with members keeps a manager.
THEOREM ManagersRemain == Spec => []StoreKeepsManager
<1>1. IInv => StoreKeepsManager
  BY DEF IInv, ManagerInv
<1>2. QED
  BY <1>1, Invariant, PTL

\* The tables hold rows of their types, and no sale or capability refers to a
\* membership that is gone.
THEOREM TablesAreSound == Spec => []TablesSound
<1>1. IInv => TablesSound
  BY DEF IInv, Basics, TablesSound
<1>2. QED
  BY <1>1, Invariant, PTL

-----------------------------------------------------------------------------
(* The services implement StoreRoster *)

\* What the refinement of Membership puts for staff, offers and taken.
OfferOf(tok, i) ==
  [token |-> tok, store |-> i.store, phone |-> i.phone, role |-> i.role]
TakerOf(tok, u) == [token |-> tok, user |-> u]

Staff == {member[k] : k \in Keys}
Offers == {[token |-> tok, store |-> invitation[tok].store,
            phone |-> invitation[tok].phone, role |-> invitation[tok].role]
             : tok \in {t \in Token : Pending(t)}}
Taken == {[token |-> tok, user |-> invitation[tok].by]
            : tok \in {t \in Token : /\ invitation[t] # NoRow
                                     /\ invitation[t].status = "accepted"}}

LEMMA Fields ==
  \A tok, i, u : /\ OfferOf(tok, i).token = tok
                 /\ OfferOf(tok, i).store = i.store
                 /\ OfferOf(tok, i).phone = i.phone
                 /\ OfferOf(tok, i).role = i.role
                 /\ TakerOf(tok, u).token = tok
                 /\ TakerOf(tok, u).user = u
  BY DEF OfferOf, TakerOf

LEMMA Standing ==
  ASSUME NEW x
  PROVE  /\ x \in Staff <=> \E k \in Key : member[k] # NoRow /\ x = member[k]
         /\ x \in Staff' <=> \E k \in Key : member'[k] # NoRow /\ x = member'[k]
         /\ x \in Offers <=>
              \E tok \in Token : /\ invitation[tok] # NoRow
                                 /\ invitation[tok].status = "pending"
                                 /\ x = OfferOf(tok, invitation[tok])
         /\ x \in Offers' <=>
              \E tok \in Token : /\ invitation'[tok] # NoRow
                                 /\ invitation'[tok].status = "pending"
                                 /\ x = OfferOf(tok, invitation'[tok])
         /\ x \in Taken <=>
              \E tok \in Token : /\ invitation[tok] # NoRow
                                 /\ invitation[tok].status = "accepted"
                                 /\ x = TakerOf(tok, invitation[tok].by)
         /\ x \in Taken' <=>
              \E tok \in Token : /\ invitation'[tok] # NoRow
                                 /\ invitation'[tok].status = "accepted"
                                 /\ x = TakerOf(tok, invitation'[tok].by)
<1>1. /\ x \in Staff <=> \E k \in Key : member[k] # NoRow /\ x = member[k]
      /\ x \in Staff' <=> \E k \in Key : member'[k] # NoRow /\ x = member'[k]
  BY DEF Staff, Keys
<1>2. x \in Offers <=>
        \E tok \in Token : /\ invitation[tok] # NoRow
                           /\ invitation[tok].status = "pending"
                           /\ x = OfferOf(tok, invitation[tok])
  BY DEF Offers, OfferOf, Pending
<1>3. x \in Offers' <=>
        \E tok \in Token : /\ invitation'[tok] # NoRow
                           /\ invitation'[tok].status = "pending"
                           /\ x = OfferOf(tok, invitation'[tok])
  BY DEF Offers, OfferOf, Pending
<1>4. x \in Taken <=>
        \E tok \in Token : /\ invitation[tok] # NoRow
                           /\ invitation[tok].status = "accepted"
                           /\ x = TakerOf(tok, invitation[tok].by)
  BY DEF Taken, TakerOf
<1>5. x \in Taken' <=>
        \E tok \in Token : /\ invitation'[tok] # NoRow
                           /\ invitation'[tok].status = "accepted"
                           /\ x = TakerOf(tok, invitation'[tok].by)
  BY DEF Taken, TakerOf
<1>6. QED
  BY <1>1, <1>2, <1>3, <1>4, <1>5

\* One standing offer is taken up or withdrawn.
LEMMA OneOfferLess ==
  ASSUME TypeOK, NEW tok \in Token, Pending(tok), invitation'[tok] # NoRow,
         invitation'[tok].status # "pending",
         \A t \in Token \ {tok} : invitation'[t] = invitation[t]
  PROVE  /\ OfferOf(tok, invitation[tok]) \in Offers
         /\ Offers' = Offers \ {OfferOf(tok, invitation[tok])}
         /\ invitation'[tok].status = "revoked" => Taken' = Taken
         /\ invitation'[tok].status = "accepted" =>
              Taken' = Taken \cup {TakerOf(tok, invitation'[tok].by)}
<1> DEFINE o == OfferOf(tok, invitation[tok])
<1>1. invitation[tok] # NoRow /\ invitation[tok].status = "pending"
  BY DEF Pending
<1>2. o \in Offers
  BY <1>1, Standing
<1>3. \A x : x \in Offers' <=> x \in Offers /\ x # o
  <2>1. ASSUME NEW x \in Offers'
        PROVE  x \in Offers /\ x # o
    <3>1. PICK t \in Token : /\ invitation'[t] # NoRow
                             /\ invitation'[t].status = "pending"
                             /\ x = OfferOf(t, invitation'[t])
      BY <2>1, Standing
    <3>2. t # tok /\ invitation'[t] = invitation[t]
      BY <3>1
    <3>3. x \in Offers
      BY <3>1, <3>2, Standing
    <3>4. x.token = t /\ o.token = tok
      BY <3>1, Fields
    <3>5. QED
      BY <3>2, <3>3, <3>4
  <2>2. ASSUME NEW x \in Offers, x # o
        PROVE  x \in Offers'
    <3>1. PICK t \in Token : /\ invitation[t] # NoRow
                             /\ invitation[t].status = "pending"
                             /\ x = OfferOf(t, invitation[t])
      BY <2>2, Standing
    <3>2. t # tok
      BY <2>2, <3>1
    <3>3. invitation'[t] = invitation[t]
      BY <3>2
    <3>4. QED
      BY <3>1, <3>3, Standing
  <2>3. QED
    BY <2>1, <2>2
<1>4. ASSUME NEW t \in Token
      PROVE  /\ t # tok => invitation'[t] = invitation[t]
             /\ t = tok => invitation[t].status # "accepted"
  BY <1>1
<1>5. invitation'[tok].status = "revoked" => \A x : x \in Taken' <=> x \in Taken
  BY <1>4, Standing
<1>6. invitation'[tok].status = "accepted" =>
        \A x : x \in Taken' <=> x \in Taken \/ x = TakerOf(tok, invitation'[tok].by)
  BY <1>4, Standing
<1>7. QED
  BY <1>2, <1>3, <1>5, <1>6

LEMMA Managing ==
  ASSUME NEW st
  PROVE  /\ Managers(st) # {} <=> \E m \in Staff : m.store = st /\ m.role = "manager"
         /\ ManagersNow(st) # {} <=> \E m \in Staff' : m.store = st /\ m.role = "manager"
  BY DEF Managers, ManagersNow, Staff, Keys

LEMMA RosterInit ==
  ASSUME IInv
  PROVE  Roster!Init
<1>1. \A k \in Keys : Managers(member[k].store) # {}
  BY DEF IInv, ManagerInv, StoreKeepsManager
<1>2. \A m \in Staff : \E n \in Staff : n.store = m.store /\ n.role = "manager"
  <2>1. ASSUME NEW m \in Staff
        PROVE  \E n \in Staff : n.store = m.store /\ n.role = "manager"
    <3>1. PICK k \in Keys : m = member[k]
      BY DEF Staff
    <3>2. Managers(m.store) # {}
      BY <1>1, <3>1
    <3>3. QED
      BY <3>2, Managing
  <2>2. QED
    BY <2>1
<1>3. QED
  BY <1>2 DEF Roster!Init, Roster!StaffOf, Roster!Managed, Staff

\* What has to be shown of Staff, Offers and Taken for each step of StoreRoster.
LEMMA HireIs ==
  ASSUME NEW u \in User, NEW st \in Store, NEW role \in Role,
         ~ \E m \in Staff : m.user = u,
         (\A m \in Staff : m.store # st) => role = "manager",
         Staff' = Staff \cup {[user |-> u, store |-> st, role |-> role]},
         Offers' = Offers, Taken' = Taken
  PROVE  Roster!Hire
<1>1. Roster!Join(u, st, role)
  BY DEF Roster!Join, Roster!Employed, Roster!StaffOf, Staff
<1>2. \E v \in User, s \in Store, r \in Role : Roster!Join(v, s, r)
  BY <1>1
<1>3. QED
  BY <1>2 DEF Roster!Hire, Offers, Taken

LEMMA TakeUpIs ==
  ASSUME NEW o \in Offers, NEW u \in User,
         ~ \E m \in Staff : m.user = u,
         (\A m \in Staff : m.store # o.store) => o.role = "manager",
         Staff' = Staff \cup {[user |-> u, store |-> o.store, role |-> o.role]},
         Offers' = Offers \ {o},
         Taken' = Taken \cup {[token |-> o.token, user |-> u]}
  PROVE  Roster!TakeUp
<1>1. Roster!Join(u, o.store, o.role)
  BY DEF Roster!Join, Roster!Employed, Roster!StaffOf, Staff
<1>2. \E p \in Offers, v \in User :
        /\ Roster!Join(v, p.store, p.role)
        /\ Offers' = Offers \ {p}
        /\ Taken' = Taken \cup {[token |-> p.token, user |-> v]}
  BY <1>1
<1>3. QED
  BY <1>2, Zenon DEF Roster!TakeUp, Offers, Taken

LEMMA MakeOfferIs ==
  ASSUME NEW o \in Offers', Staff' = Staff, Taken' = Taken,
         Offers' = {p \in Offers : <<p.store, p.phone>> # <<o.store, o.phone>>} \cup {o}
  PROVE  Roster!MakeOffer
<1>1. QED
  BY DEF Roster!MakeOffer, Staff, Offers, Taken

LEMMA WithdrawIs ==
  ASSUME NEW o \in Offers, Staff' = Staff, Taken' = Taken, Offers' = Offers \ {o}
  PROVE  Roster!Withdraw
<1>1. QED
  BY DEF Roster!Withdraw, Staff, Offers, Taken

LEMMA ReassignIs ==
  ASSUME NEW m \in Staff, NEW role \in Role, Offers' = Offers, Taken' = Taken,
         Staff' = (Staff \ {m}) \cup {WithRole(m, role)},
         \E n \in Staff' : n.store = m.store /\ n.role = "manager"
  PROVE  Roster!Reassign
<1>1. QED
  BY DEF Roster!Reassign, Roster!Managed, Roster!StaffOf, WithRole, Staff, Offers, Taken

LEMMA DismissIs ==
  ASSUME NEW m \in Staff, Offers' = Offers, Taken' = Taken,
         Staff' = Staff \ {m},
         \E n \in Staff' : n.store = m.store /\ n.role = "manager"
  PROVE  Roster!Dismiss
<1>1. QED
  BY DEF Roster!Dismiss, Roster!Managed, Roster!StaffOf, Staff, Offers, Taken

LEMMA RosterHire ==
  ASSUME IInv, NEW r \in Request, CommitMember(r)
  PROVE  Roster!Hire \/ Roster!TakeUp
<1> DEFINE u == task[r].user
           h == Hires(r)
           k0 == task[r].key
<1>1. Basics /\ Locks /\ TypeOK /\ PointsInv /\ ActorInv /\ JoinInv
  BY DEF IInv, Basics
<1>2. pc[r] = "committing" /\ k0 \in Key /\ k0 \notin Keys
  BY <1>1, HireEffect, HireFresh
<1>3. /\ h \in Membership /\ h.user = u /\ u \in User
      /\ task[r].kind \in Hiring
  BY <1>1, <1>2, HiresNow
<1>4. h = [user |-> u, store |-> h.store, role |-> h.role]
      /\ h.store \in Store /\ h.role \in Role
  BY <1>3 DEF Membership
<1>5. \A k \in Key : member'[k] = IF k = k0 THEN h ELSE member[k]
  BY <1>1, HireEffect
<1>6. Staff' = Staff \cup {h}
  <2>1. ASSUME NEW x
        PROVE  x \in Staff' <=> x \in Staff \/ x = h
    <3>1. member[k0] = NoRow /\ h # NoRow
      BY <1>2, <1>3, Absent DEF Keys
    <3> HIDE DEF h, k0
    <3>2. QED
      BY <1>2, <1>5, <3>1, Standing
  <2>2. QED
    BY <2>1
<1>7. ~ \E m \in Staff : m.user = u
  <2>1. Of(u) = {}
    BY <1>2 DEF IInv, PlaceInv
  <2>2. QED
    BY <2>1 DEF Staff, Of
<1>8. (\A m \in Staff : m.store # h.store) => h.role = "manager"
  <2>1. CASE task[r].kind = "found"
    BY <1>1, <1>2, <2>1, HiresNow
  <2>2. CASE task[r].kind = "add"
    <3>1. h.store = actor[r].store /\ actor[r] # NoRow
      BY <1>1, <1>2, <2>2, HiresNow
    <3>2. Managers(h.store) # {}
      BY <3>1 DEF IInv, ManagerInv
    <3>3. QED
      BY <3>2, Managing
  <2>3. CASE Joins(r)
    <3>1. /\ h.store = invitation[task[r].token].store
          /\ invitation[task[r].token] # NoRow /\ task[r].token \in Token
      BY <1>1, <1>2, <2>3, HiresNow, TaskFields DEF Locks
    <3>2. Managers(h.store) # {}
      BY <3>1 DEF IInv, ManagerInv
    <3>3. QED
      BY <3>2, Managing
  <2>4. QED
    BY <1>3, <2>1, <2>2, <2>3 DEF Hiring, Joins
<1>9. Staff' = Staff \cup {[user |-> u, store |-> h.store, role |-> h.role]}
  BY <1>4, <1>6
<1>10. CASE ~ Joins(r)
  <2>1. invitation' = invitation
    BY <1>10 DEF CommitMember
  <2>2. Offers' = Offers /\ Taken' = Taken
    BY <2>1 DEF Offers, Taken, Pending
  <2> HIDE DEF u, h
  <2>3. QED
    BY <1>3, <1>4, <1>7, <1>8, <1>9, <2>2, HireIs
<1>11. CASE Joins(r)
  <2> DEFINE tok == task[r].token
             o == OfferOf(tok, invitation[tok])
  <2>1. /\ tok \in Token /\ Pending(tok)
        /\ h.store = invitation[tok].store /\ h.role = invitation[tok].role
    BY <1>1, <1>2, <1>11, HiresNow, HireEffect DEF JoinInv
  <2>2. invitation[tok] \in Invitation
    BY <1>1, <2>1, RowFields DEF Pending
  <2>3. /\ invitation'[tok] = Accepted(invitation[tok], u)
        /\ \A t \in Token \ {tok} : invitation'[t] = invitation[t]
    BY <1>1, <1>11, <2>1, HireEffect
  <2>4. /\ invitation'[tok] # NoRow /\ invitation'[tok].status = "accepted"
        /\ invitation'[tok].by = u
    BY <1>3, <2>2, <2>3, ChangedRows, Absent
  <2>5. o \in Offers /\ Offers' = Offers \ {o} /\ Taken' = Taken \cup {TakerOf(tok, u)}
    BY <1>1, <2>1, <2>3, <2>4, OneOfferLess
  <2>6. o.store = h.store /\ o.role = h.role /\ o.token = tok
    BY <2>1, Fields
  <2> HIDE DEF u, h, tok, o
  <2>7. /\ Taken' = Taken \cup {[token |-> o.token, user |-> u]}
        /\ Staff' = Staff \cup {[user |-> u, store |-> o.store, role |-> o.role]}
        /\ (\A m \in Staff : m.store # o.store) => o.role = "manager"
    BY <1>8, <1>9, <2>5, <2>6 DEF TakerOf
  <2>8. QED
    BY <1>3, <1>7, <2>5, <2>7, TakeUpIs
<1>12. QED
  BY <1>10, <1>11

LEMMA RosterOffer ==
  ASSUME IInv, NEW r \in Request, CommitOffer(r)
  PROVE  Roster!MakeOffer
<1> DEFINE t0 == task[r].token
           new == [store |-> actor[r].store, phone |-> task[r].phone,
                   role |-> task[r].role, status |-> "pending", by |-> NoUser]
           o == OfferOf(t0, new)
<1>1. Basics /\ Locks /\ TypeOK /\ PointsInv /\ ActorInv
  BY DEF IInv, Basics
<1>2. /\ pc[r] = "inviting" /\ Reserved(r) = held[r] /\ t0 \in Token
      /\ actor[r] \in Membership /\ UNCHANGED member
  BY <1>1, OfferEffect
<1>3. /\ task[r].phone \in Phone /\ task[r].role \in Role
  BY <1>1, <1>2, TaskFields DEF PointsInv, Locks
<1>4. new \in Invitation
  BY <1>2, <1>3 DEF Membership, Invitation
<1>5. new # NoRow /\ new.status = "pending" /\ new.store = actor[r].store
      /\ new.phone = task[r].phone
  BY <1>4, Absent
<1>6. invitation[t0] = NoRow
  BY <1>1, OfferFresh
<1>7. /\ invitation'[t0] = new
      /\ \A tok \in Token \ {t0} :
           /\ Pending(tok) /\ OfferRow(tok) \in held[r]
                => invitation'[tok] = Revoked(invitation[tok])
           /\ ~ (Pending(tok) /\ OfferRow(tok) \in held[r])
                => invitation'[tok] = invitation[tok]
  BY <1>1, <1>2, OfferEffect
<1>8. \A tok \in Token : Pending(tok) =>
        (OfferRow(tok) \in held[r] <=> /\ invitation[tok].store = actor[r].store
                                       /\ invitation[tok].phone = task[r].phone)
  BY <1>2 DEF IInv, SweepInv, Superseded
<1>9. \A tok \in Token : Pending(tok) =>
        /\ Revoked(invitation[tok]) # NoRow
        /\ Revoked(invitation[tok]).status = "revoked"
  BY <1>1, RowFields, ChangedRows, Absent DEF Pending
<1>10. o.store = actor[r].store /\ o.phone = task[r].phone
  BY <1>5, Fields
<1> HIDE DEF t0, new
<1>11. o \in Offers'
  BY <1>2, <1>5, <1>7, Standing
<1>12. ASSUME NEW x \in Offers'
       PROVE  x = o \/ (x \in Offers /\ <<x.store, x.phone>> # <<o.store, o.phone>>)
  <2>1. PICK tok \in Token : /\ invitation'[tok] # NoRow
                             /\ invitation'[tok].status = "pending"
                             /\ x = OfferOf(tok, invitation'[tok])
    BY <1>12, Standing
  <2>2. CASE tok = t0
    BY <1>7, <2>1, <2>2
  <2>3. CASE tok # t0
    <3>1. ~ (Pending(tok) /\ OfferRow(tok) \in held[r]) /\ invitation'[tok] = invitation[tok]
      BY <1>7, <1>9, <2>1, <2>3
    <3>2. Pending(tok)
      BY <2>1, <3>1 DEF Pending
    <3>3. x \in Offers
      BY <2>1, <3>1, Standing
    <3>4. x.store = invitation[tok].store /\ x.phone = invitation[tok].phone
      BY <2>1, <3>1, Fields
    <3>5. x.store # o.store \/ x.phone # o.phone
      BY <1>8, <1>10, <3>1, <3>2, <3>4
    <3>6. QED
      BY <3>3, <3>5
  <2>4. QED
    BY <2>2, <2>3
<1>13. ASSUME NEW x \in Offers, <<x.store, x.phone>> # <<o.store, o.phone>>
       PROVE  x \in Offers'
  <2>1. PICK tok \in Token : /\ invitation[tok] # NoRow
                             /\ invitation[tok].status = "pending"
                             /\ x = OfferOf(tok, invitation[tok])
    BY <1>13, Standing
  <2>2. tok # t0 /\ Pending(tok)
    BY <1>6, <2>1 DEF Pending
  <2>3. x.store = invitation[tok].store /\ x.phone = invitation[tok].phone
    BY <2>1, Fields
  <2>4. x.store # o.store \/ x.phone # o.phone
    BY <1>13
  <2>5. OfferRow(tok) \notin held[r]
    BY <1>8, <1>10, <2>2, <2>3, <2>4
  <2>6. invitation'[tok] = invitation[tok]
    BY <1>7, <2>2, <2>5
  <2>7. QED
    BY <2>1, <2>6, Standing
<1>14. Offers' = {p \in Offers : <<p.store, p.phone>> # <<o.store, o.phone>>} \cup {o}
  <2> HIDE DEF o
  <2>1. QED
    BY <1>11, <1>12, <1>13
<1>15. ASSUME NEW tok \in Token
       PROVE  /\ /\ invitation'[tok] # NoRow /\ invitation'[tok].status = "accepted"
                 => invitation'[tok] = invitation[tok]
              /\ /\ invitation[tok] # NoRow /\ invitation[tok].status = "accepted"
                 => invitation'[tok] = invitation[tok]
  <2>1. CASE tok = t0
    BY <1>5, <1>6, <1>7, <2>1
  <2>2. CASE tok # t0
    BY <1>7, <1>9, <2>2 DEF Pending
  <2>3. QED
    BY <2>1, <2>2
<1>16. \A x : x \in Taken' <=> x \in Taken
  BY <1>15, Standing
<1>17. Staff' = Staff
  BY <1>2 DEF Staff, Keys
<1>18. QED
  <2>1. Taken' = Taken
    BY <1>16
  <2> HIDE DEF o
  <2>2. QED
    BY <1>11, <1>14, <1>17, <2>1, MakeOfferIs

LEMMA RosterRevoke ==
  ASSUME IInv, NEW r \in Request, CommitRevoke(r), ~ Fails(r)
  PROVE  Roster!Withdraw
<1> DEFINE tok == task[r].token
<1>1. Locks /\ TypeOK /\ PointsInv
  BY DEF IInv, Basics
<1>2. /\ tok \in Token /\ Pending(tok) /\ UNCHANGED member
      /\ invitation'[tok] = Revoked(invitation[tok])
      /\ \A t \in Token \ {tok} : invitation'[t] = invitation[t]
  BY <1>1, RevokeEffect
<1>3. invitation'[tok] # NoRow /\ invitation'[tok].status = "revoked"
  BY <1>1, <1>2, RowFields, ChangedRows, Absent DEF Pending
<1> HIDE DEF tok
<1>4. /\ OfferOf(tok, invitation[tok]) \in Offers /\ Taken' = Taken
      /\ Offers' = Offers \ {OfferOf(tok, invitation[tok])}
  BY <1>1, <1>2, <1>3, OneOfferLess
<1>5. Staff' = Staff
  BY <1>2 DEF Staff, Keys
<1>6. QED
  BY <1>4, <1>5, WithdrawIs

LEMMA RosterChange ==
  ASSUME IInv, NEW r \in Request, CommitChange(r)
  PROVE  Roster!Reassign \/ Roster!Dismiss
<1> DEFINE k0 == task[r].key
           m == member[k0]
<1>1. Basics /\ Locks /\ TypeOK /\ PointsInv /\ SavingInv
  BY DEF IInv, Basics
<1>2. /\ k0 \in Keys /\ task[r].kind \in {"role", "remove"} /\ UNCHANGED invitation
      /\ \A k \in Key \ {k0} : member'[k] = member[k]
      /\ task[r].kind = "role" => /\ member'[k0] = WithRole(m, task[r].role)
                                  /\ task[r].role \in Role
      /\ task[r].kind = "remove" => member'[k0] = NoRow
  BY <1>1, ChangeEffect
<1>3. k0 \in Key /\ m # NoRow /\ m \in Membership /\ m \in Staff
  BY <1>1, <1>2, RowFields DEF Keys, Staff
<1>4. Offers' = Offers /\ Taken' = Taken
  BY <1>2 DEF Offers, Taken, Pending
<1>5. \E n \in Staff' : n.store = m.store /\ n.role = "manager"
  <2>1. Managers(m.store) # {}
    BY <1>2 DEF IInv, ManagerInv, StoreKeepsManager
  <2>2. ManagersNow(m.store) # {}
    BY <1>1, <2>1, ManagedStays DEF Moves, Commits
  <2>3. QED
    BY <2>2, Managing
<1>6. \A k \in Key \ {k0} : member[k] # NoRow => member[k] # m
  BY <1>2 DEF IInv, UserInv, Keys
<1> HIDE DEF k0, m
<1>7. ASSUME NEW x
      PROVE  x \in Staff \ {m} <=>
               \E k \in Key \ {k0} : member'[k] # NoRow /\ x = member'[k]
  <2>1. x \in Staff \ {m} <=>
          \E k \in Key \ {k0} : member[k] # NoRow /\ x = member[k]
    BY <1>3, <1>6, Standing DEF m
  <2>2. QED
    BY <1>2, <2>1
<1>8. CASE task[r].kind = "role"
  <2>1. member'[k0] = WithRole(m, task[r].role) /\ task[r].role \in Role
    BY <1>2, <1>8
  <2>2. WithRole(m, task[r].role) # NoRow
    BY <1>3, <2>1, ChangedRows, Absent
  <2>3. ASSUME NEW x
        PROVE  x \in Staff' <=> x \in Staff \ {m} \/ x = WithRole(m, task[r].role)
    BY <1>3, <1>7, <2>1, <2>2, Standing
  <2>4. Staff' = (Staff \ {m}) \cup {WithRole(m, task[r].role)}
    BY <2>3
  <2>5. QED
    BY <1>3, <1>4, <1>5, <2>1, <2>4, ReassignIs
<1>9. CASE task[r].kind = "remove"
  <2>1. member'[k0] = NoRow
    BY <1>2, <1>9
  <2>2. ASSUME NEW x
        PROVE  x \in Staff' <=> x \in Staff \ {m}
    BY <1>3, <1>7, <2>1, Standing
  <2>3. Staff' = Staff \ {m}
    BY <2>2
  <2>4. QED
    BY <1>3, <1>4, <1>5, <2>3, DismissIs
<1>10. QED
  BY <1>2, <1>8, <1>9

LEMMA RosterStep ==
  ASSUME IInv, [Next]_vars
  PROVE  Roster!Next \/ UNCHANGED <<Staff, Offers, Taken>>
<1>1. CASE UNCHANGED <<member, invitation>>
  BY <1>1 DEF Staff, Offers, Taken, Keys, Pending
<1>2. CASE \E r \in Request : Moves(r)
  <2>1. PICK r \in Request : Moves(r)
    BY <1>2
  <2>2. CASE CommitMember(r)
    BY <2>2, RosterHire DEF Roster!Next
  <2>3. CASE CommitOffer(r)
    BY <2>3, RosterOffer DEF Roster!Next
  <2>4. CASE CommitRevoke(r) /\ ~ Fails(r)
    BY <2>4, RosterRevoke DEF Roster!Next
  <2>5. CASE CommitChange(r)
    BY <2>5, RosterChange DEF Roster!Next
  <2>6. QED
    BY <1>1, <2>1, <2>2, <2>3, <2>4, <2>5, MemberChanges
<1>3. CASE \E tok \in Token : Expire(tok)
  BY <1>1, <1>3 DEF Expire, tables
<1>4. CASE UNCHANGED vars
  BY <1>1, <1>4 DEF vars, tables
<1>5. QED
  BY <1>2, <1>3, <1>4, Steps

\* The services implement StoreRoster: each request, however it overlaps with
\* others, changes memberships and invitations at once as if it were alone.
THEOREM RosterIsImplemented == Spec => ImplementsRoster
<1>1. Init => Roster!Init
  BY InitInv, RosterInit
<1>2. IInv /\ [Next]_vars => [Roster!Next]_<<Staff, Offers, Taken>>
  BY RosterStep
<1>3. QED
  BY <1>1, <1>2, Invariant, PTL
  DEF Spec, ImplementsRoster, Roster!Spec, Staff, Offers, Taken

-----------------------------------------------------------------------------
(* Time *)

\* An invitation that has expired stays so, and a request that has not gone
\* beyond looking for it by then gets no further.
Late(r) ==
  /\ Joins(r) /\ task[r].token \in expired
  /\ pc[r] \in {"idle", "claimed", "failed"}

LEMMA LateStays ==
  ASSUME IInv, NEW r \in Request, Late(r), [Next]_vars
  PROVE  Late(r)'
<1>1. CASE \E q \in Request : Moves(q)
  <2>1. PICK q \in Request : Moves(q)
    BY <1>1
  <2>2. /\ OthersRest(q) /\ expired' = expired /\ task' = task
    BY <2>1, MoveEffect DEF IInv, Basics, OthersRest
  <2>3. Joins(r)' /\ task'[r].token \in expired'
    BY <2>2 DEF Late, Joins
  <2>4. CASE q # r
    BY <2>2, <2>3, <2>4 DEF Late, OthersRest
  <2>5. CASE q = r /\ Waits(r)
    <3>1. pc'[r] = pc[r]
      BY <2>5, WaitEffect DEF IInv, Basics
    <3>2. QED
      BY <2>3, <3>1 DEF Late
  <2>6. CASE q = r /\ Fails(r)
    <3>1. pc'[r] = "failed"
      BY <2>6, FailEffect DEF IInv, Basics
    <3>2. QED
      BY <2>3, <3>1 DEF Late
  <2>7. CASE q = r /\ Commits(r)
    <3>1. pc[r] \in {"committing", "inviting", "revoke", "role", "remove", "saving",
                     "grant", "ungrant", "profile", "sell"}
      BY <2>7 DEF Commits, CommitMember, CommitOffer, CommitRevoke, CommitChange,
        CommitCode, CommitProfile, CommitSale, At
    <3>2. QED
      BY <3>1 DEF Late
  <2>8. CASE q = r /\ Walks(r) /\ ~ Fails(r)
    <3>1. ASSUME NEW from, NEW where, NEW rows, Goes(r, from, where, rows)
          PROVE  pc[r] = from /\ pc'[r] = where
      BY <3>1 DEF Goes, At, Goto, IInv, Basics, Locks, LocksInv
    <3>2. task[r].kind \in {"accept", "register"} /\ ~ Valid(task[r].token)
      BY DEF Late, Joins, Valid
    <3>3. pc[r] \in {"idle", "claimed", "failed"}
      BY DEF Late
    <3>4. pc'[r] = "claimed"
      BY <2>8, <3>1, <3>2, <3>3, Arrivals DEF IInv, Basics, ByManager
    <3>5. QED
      BY <2>3, <3>4 DEF Late
  <2>9. QED
    BY <2>1, <2>4, <2>5, <2>6, <2>7, <2>8, RollbackFails DEF Moves
<1>2. CASE \E tok \in Token : Expire(tok)
  BY <1>2 DEF Expire, transaction, Late, Joins
<1>3. CASE UNCHANGED vars
  BY <1>3 DEF vars, transaction, Late, Joins
<1>4. QED
  BY <1>1, <1>2, <1>3, Steps

\* An invitation that had expired when a request arrived is not accepted by it,
\* however long it has waited for locks.
THEOREM ExpiredStaysRefused == Spec => ExpiredIsRefused
<1>1. ASSUME NEW r \in Request
      PROVE  Spec => [](/\ pc[r] = "idle" /\ Joins(r) /\ task[r].token \in expired
                        => [](pc[r] # "done"))
  <2>1. IInv /\ Late(r) /\ [Next]_vars => Late(r)'
    BY LateStays
  <2>2. /\ pc[r] = "idle" /\ Joins(r) /\ task[r].token \in expired
        => Late(r)
    BY DEF Late
  <2>3. Late(r) => pc[r] # "done"
    BY DEF Late
  <2>4. QED
    BY <2>1, <2>2, <2>3, Invariant, PTL DEF Spec
<1>2. QED
  BY <1>1 DEF ExpiredIsRefused
=============================================================================
