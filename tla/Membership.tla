----------------------------- MODULE Membership -----------------------------
(***************************************************************************)
(* Stores, their members and their invitations: the services of            *)
(* stores/services.py as the views of stores/api call them.  A view reads  *)
(* the membership of its user twice, first to permit the request and then  *)
(* to hand it to the service, and neither read locks it; the service locks *)
(* the store, the membership or the invitation and looks again.            *)
(***************************************************************************)
EXTENDS RowLocks

CONSTANTS
  User, Store, Phone,
  Key,      \* primary keys of memberships
  Token,    \* invitations, by their tokens
  NoRow,    \* a primary key or token without a row
  NoUser,   \* accepted_by of an invitation nobody has accepted
  NoPhone,  \* the phone number of a user who has not registered yet
  FirstMember, FirstOffer, FirstPhone   \* the tables the requests find

Role == {"manager", "admin", "seller"}
Code == {"create_sale", "manage_wanted", "manage_catalog"}
Membership == [user: User, store: Store, role: Role]
Invitation == [store: Store, phone: Phone, role: Role,
               status: {"pending", "accepted", "revoked"},
               by: User \cup {NoUser}]   \* accepted_by

\* ROLE_PERMISSIONS, one capability for each group of roles that has it.
Defaults(role) ==
  CASE role = "manager" -> Code
    [] role = "admin" -> {"create_sale", "manage_wanted"}
    [] role = "seller" -> {"create_sale"}

ByManager == {"add", "invite", "revoke", "role", "remove", "grant", "ungrant"}

Operation ==
       [kind: {"found"}, user: User, store: Store, key: Key]
  \cup [kind: {"profile"}, user: User, phone: Phone]
  \cup [kind: {"accept", "register"}, user: User, token: Token, key: Key]
  \cup [kind: {"add"}, actor: User, user: User, role: Role, key: Key]
  \cup [kind: {"invite"}, actor: User, phone: Phone, role: Role, token: Token]
  \cup [kind: {"revoke"}, actor: User, token: Token]
  \cup [kind: {"role"}, actor: User, key: Key, role: Role]
  \cup [kind: {"remove"}, actor: User, key: Key]
  \cup [kind: {"grant", "ungrant"}, actor: User, key: Key, code: Code]
  \cup [kind: {"sell"}, key: Key]

\* The requests that create a membership.
Hiring == {"found", "add", "accept", "register"}

ASSUME MembershipAssumption ==
  /\ Traffic \subseteq [Request -> Operation]
  /\ NoPhone \notin Phone /\ NoUser \notin User
  /\ NoRow \notin Membership \cup Invitation
  /\ IsFiniteSet(Token)
  /\ FirstMember \in [Key -> Membership \cup {NoRow}]
  /\ FirstOffer \in [Token -> Invitation \cup {NoRow}]
  /\ FirstPhone \in [User -> Phone \cup {NoPhone}]

\* The keys and tokens in what requests create are those they are going to be
\* given by the database: each is given once.
ASSUME FreshKeys ==
  \A mix \in Traffic : \A q, r \in Request :
    /\ mix[r].kind \in Hiring =>
         /\ FirstMember[mix[r].key] = NoRow
         /\ q # r /\ mix[q].kind \in Hiring => mix[q].key # mix[r].key
    /\ mix[r].kind = "invite" =>
         /\ FirstOffer[mix[r].token] = NoRow
         /\ q # r /\ mix[q].kind = "invite" => mix[q].token # mix[r].token

\* The tables that requests find: a user has one store, and whoever works in a
\* store or is invited to it, works there under a manager.
ASSUME FirstRows ==
  LET Had == {k \in Key : FirstMember[k] # NoRow}
      Led == {FirstMember[k].store : k \in {j \in Had : FirstMember[j].role = "manager"}} IN
  /\ \A j, k \in Had : FirstMember[j].user = FirstMember[k].user => j = k
  /\ \A k \in Had : FirstMember[k].store \in Led
  /\ \A tok \in Token : FirstOffer[tok] # NoRow => FirstOffer[tok].store \in Led

VARIABLES
  member,      \* Key -> the membership, or NoRow
  codes,       \* Key -> the capabilities assigned to the membership
  invitation,  \* Token -> the invitation, or NoRow
  expired,     \* the tokens whose invitation is past expires_at
  phone,       \* User -> phone_number, or NoPhone
  sellers,     \* the memberships that sales refer to
  actor        \* Request -> the acting membership as its view has read it

tables == <<member, codes, invitation, phone, sellers>>
vars == <<transaction, tables, expired, actor>>

Keys == {k \in Key : member[k] # NoRow}
Of(u) == {k \in Keys : member[k].user = u}
Managers(st) ==
  {k \in Keys : member[k].store = st /\ member[k].role = "manager"}
Holder(ph) == {u \in User : phone[u] = ph}
Pending(tok) == invitation[tok] # NoRow /\ invitation[tok].status = "pending"

\* The rows that statements lock.  "place" and "number" stand for the entries
\* of the unique indexes on the user of a membership and on phone_number: an
\* insertion waits for the transaction that has made the same entry.
StoreRow(st) == <<"store", st>>
MemberRow(k) == <<"member", k>>
OfferRow(tok) == <<"offer", tok>>
UserRow(u) == <<"user", u>>
Place(u) == <<"place", u>>
Number(ph) == <<"number", ph>>

Init ==
  /\ AtRest
  /\ member = FirstMember
  /\ codes = [k \in Key |-> IF member[k] = NoRow THEN {}
                            ELSE Defaults(member[k].role)]
  /\ invitation = FirstOffer
  /\ expired = {}
  /\ phone = FirstPhone
  /\ sellers = {}
  /\ actor = [r \in Request |-> NoRow]

-----------------------------------------------------------------------------
(* What the views do before they call a service *)

\* CanManageMembers: the user's own membership is a manager's.
Permit(r) ==
  /\ At(r, "idle") /\ task[r].kind \in ByManager
  /\ GotoIf(\E k \in Of(task[r].actor) : member[k].role = "manager",
            r, "permitted", << >>)
  /\ UNCHANGED <<tables, expired, actor>>

\* The object of the request is found in the store of the acting membership
\* "me"; the serializers have validated the fields.
MayAct(t, me) ==
  CASE t.kind = "add" -> Of(t.user) = {}
    [] t.kind = "invite" -> me.role = "manager" /\ t.role # "manager"
    [] t.kind = "revoke" -> /\ invitation[t.token] # NoRow
                            /\ invitation[t.token].store = me.store
    [] t.kind \in {"role", "remove"} -> /\ t.key \in Keys
                                        /\ member[t.key].store = me.store
    [] OTHER -> /\ t.key \in Keys /\ member[t.key].store = me.store
                /\ member[t.key].user # me.user
                /\ t.kind = "ungrant" => t.code \in codes[t.key]

\* Faulty form: the service locks the membership but not its store.
FirstLocksNoStore(t, me) ==
  CASE t.kind = "add" -> <<Place(t.user)>>
    [] t.kind = "invite" -> <<StoreRow(me.store)>>
    [] t.kind = "revoke" -> <<OfferRow(t.token)>>
    [] t.kind \in {"role", "remove"} -> <<MemberRow(t.key)>>
    [] t.kind = "grant" -> <<MemberRow(t.key)>>
    [] OTHER -> << >>

\* What the service locks first.  add inserts a membership; grant inserts a
\* row that refers to one.
FirstLocks(t, me) ==
  CASE t.kind = "add" -> <<Place(t.user)>>
    [] t.kind = "invite" -> <<StoreRow(me.store)>>
    [] t.kind = "revoke" -> <<OfferRow(t.token)>>
    [] t.kind \in {"role", "remove"} -> <<StoreRow(me.store), MemberRow(t.key)>>
    [] t.kind = "grant" -> <<MemberRow(t.key)>>
    [] OTHER -> << >>

\* The acting membership is read again, and is missing if it was removed.
Load(r) ==
  LET t == task[r]
      mine == Of(t.actor) IN
  /\ At(r, "permitted")
  /\ \/ /\ mine = {} /\ Finish(r, "failed") /\ UNCHANGED actor
     \/ \E k \in mine :
          /\ actor' = [actor EXCEPT ![r] = member[k]]
          /\ GotoIf(MayAct(t, member[k]), r,
                    IF t.kind = "add" THEN "inserting" ELSE t.kind,
                    FirstLocks(t, member[k]))
  /\ UNCHANGED <<tables, expired>>

-----------------------------------------------------------------------------
(* Services that create a membership *)

\* StoreSerializer.validate: who has a store cannot found another.
Found(r) ==
  /\ At(r, "idle") /\ task[r].kind = "found"
  /\ GotoIf(Of(task[r].user) = {}, r, "inserting", <<Place(task[r].user)>>)
  /\ UNCHANGED <<tables, expired, actor>>

\* Faulty form: the invitation is read without locking it.
ClaimUnlocked(r) ==
  /\ At(r, "idle") /\ task[r].kind \in {"accept", "register"}
  /\ GotoIf(invitation[task[r].token] # NoRow, r, "claimed", << >>)
  /\ UNCHANGED <<tables, expired, actor>>

\* get_invitation_by_token: FOR UPDATE locks the invitation and, joined by
\* select_related, its store.
Claim(r) ==
  LET tok == task[r].token IN
  /\ At(r, "idle") /\ task[r].kind \in {"accept", "register"}
  /\ IF invitation[tok] = NoRow THEN Finish(r, "failed")
     ELSE Goto(r, "claimed", <<OfferRow(tok), StoreRow(invitation[tok].store)>>)
  /\ UNCHANGED <<tables, expired, actor>>

\* Faulty form: expires_at is not looked at.
ValidAtAnyTime(tok) == Pending(tok)

\* validate_invitation
Valid(tok) == Pending(tok) /\ tok \notin expired

\* accept_store_invitation locks the user; register_with_store_invitation
\* creates one, unless the phone number has an account.
Validate(r) ==
  LET t == task[r]
      ph == invitation[t.token].phone IN
  /\ At(r, "claimed")
  /\ GotoIf(Valid(t.token) /\ (t.kind = "register" => Holder(ph) = {}), r,
            "identified",
            IF t.kind = "accept" THEN <<UserRow(t.user)>> ELSE <<Number(ph)>>)
  /\ UNCHANGED <<tables, expired, actor>>

\* The phone number of the locked user is the invited one and the user has no
\* store; the number of a new user has not been taken meanwhile.
Identify(r) ==
  LET t == task[r]
      ph == invitation[t.token].phone IN
  /\ At(r, "identified")
  /\ GotoIf(IF t.kind = "accept" THEN phone[t.user] = ph /\ Of(t.user) = {}
                                 ELSE Holder(ph) = {},
            r, "inserting", <<Place(t.user)>>)
  /\ UNCHANGED <<tables, expired, actor>>

Joins(r) == task[r].kind \in {"accept", "register"}
Hires(r) ==
  LET t == task[r] IN
  CASE t.kind = "found" -> [user |-> t.user, store |-> t.store, role |-> "manager"]
    [] t.kind = "add" -> [user |-> t.user, store |-> actor[r].store, role |-> t.role]
    [] OTHER -> [user |-> t.user, store |-> invitation[t.token].store,
                 role |-> invitation[t.token].role]

\* Faulty form: an insertion that the unique index refuses is tried again.
InsertRetried(r) ==
  /\ At(r, "inserting")
  /\ IF Of(Hires(r).user) # {} THEN UNCHANGED transaction
     ELSE Goto(r, "committing",
               <<StoreRow(Hires(r).store), UserRow(Hires(r).user)>>)
  /\ UNCHANGED <<tables, expired, actor>>

\* unique_store_membership_user.  The foreign keys are deferred: the rows they
\* refer to are locked when the transaction commits.
Insert(r) ==
  /\ At(r, "inserting")
  /\ GotoIf(Of(Hires(r).user) = {}, r, "committing",
            <<StoreRow(Hires(r).store), UserRow(Hires(r).user)>>)
  /\ UNCHANGED <<tables, expired, actor>>

\* create_store_membership, assign_default_permissions, _consume_invitation
CommitMember(r) ==
  LET t == task[r] IN
  /\ At(r, "committing")
  /\ member' = [member EXCEPT ![t.key] = Hires(r)]
  /\ codes' = [codes EXCEPT ![t.key] = Defaults(Hires(r).role)]
  /\ IF Joins(r)
     THEN invitation' = [invitation EXCEPT ![t.token].status = "accepted",
                                             ![t.token].by = t.user]
     ELSE UNCHANGED invitation
  /\ IF t.kind = "register"
     THEN phone' = [phone EXCEPT ![t.user] = invitation[t.token].phone]
     ELSE UNCHANGED phone
  /\ Finish(r, "done")
  /\ UNCHANGED <<sellers, expired, actor>>

-----------------------------------------------------------------------------
(* Services about invitations *)

Superseded(r) ==
  {tok \in Token : /\ Pending(tok)
                   /\ invitation[tok].store = actor[r].store
                   /\ invitation[tok].phone = task[r].phone}

\* create_store_invitation: with the store locked, the UPDATE finds the
\* pending invitations of the phone number and locks them.
Supersede(r) ==
  /\ At(r, "invite")
  /\ \E rows \in Orders({OfferRow(tok) : tok \in Superseded(r)}) :
       Goto(r, "inviting", rows)
  /\ UNCHANGED <<tables, expired, actor>>

\* An invitation that was accepted or revoked before its lock was taken is
\* left alone.
CommitOffer(r) ==
  /\ At(r, "inviting")
  /\ invitation' =
       [tok \in Token |->
          IF tok = task[r].token
          THEN [store |-> actor[r].store, phone |-> task[r].phone,
                role |-> task[r].role, status |-> "pending", by |-> NoUser]
          ELSE IF Pending(tok) /\ OfferRow(tok) \in held[r]
          THEN [invitation[tok] EXCEPT !.status = "revoked"]
          ELSE invitation[tok]]
  /\ Finish(r, "done")
  /\ UNCHANGED <<member, codes, phone, sellers, expired, actor>>

\* revoke_store_invitation
CommitRevoke(r) ==
  LET tok == task[r].token IN
  /\ At(r, "revoke")
  /\ IF Pending(tok)
     THEN /\ invitation' = [invitation EXCEPT ![tok].status = "revoked"]
          /\ Finish(r, "done")
     ELSE Finish(r, "failed") /\ UNCHANGED invitation
  /\ UNCHANGED <<member, codes, phone, sellers, expired, actor>>

\* An invitation is valid for seven days.
Expire(tok) ==
  /\ Pending(tok) /\ tok \notin expired
  /\ expired' = expired \cup {tok}
  /\ UNCHANGED <<transaction, tables, actor>>

-----------------------------------------------------------------------------
(* Services about existing memberships *)

LastManager(k) ==
  member[k].role = "manager" /\ Cardinality(Managers(member[k].store)) = 1

\* update_store_membership_role and delete_store_membership, whose delete is
\* refused for a membership that sales refer to (on_delete=PROTECT).
Decide(r) ==
  LET t == task[r] IN
  /\ At(r, t.kind) /\ t.kind \in {"role", "remove"}
  /\ GotoIf(/\ t.key \in Keys
            /\ member[t.key].user # actor[r].user
            /\ LastManager(t.key) => t.kind = "role" /\ t.role = "manager"
            /\ t.kind = "remove" => t.key \notin sellers,
            r, "saving", << >>)
  /\ UNCHANGED <<tables, expired, actor>>

\* A new role adds its default capabilities; none is taken away.
CommitChange(r) ==
  LET t == task[r] IN
  /\ At(r, "saving")
  /\ IF t.kind = "role"
     THEN /\ member' = [member EXCEPT ![t.key].role = t.role]
          /\ codes' = [codes EXCEPT ![t.key] = @ \cup Defaults(t.role)]
     ELSE /\ member' = [member EXCEPT ![t.key] = NoRow]
          /\ codes' = [codes EXCEPT ![t.key] = {}]
  /\ Finish(r, "done")
  /\ UNCHANGED <<invitation, phone, sellers, expired, actor>>

\* assign_membership_permission and revoke_membership_permission.  The new
\* row refers to a membership that may be gone.  To delete a row that has gone
\* since it was found is no error.
CommitCode(r) ==
  LET t == task[r]
      grantable == t.key \in Keys /\ t.code \notin codes[t.key] IN
  /\ At(r, t.kind)
  /\ \/ /\ t.kind = "grant" /\ grantable
        /\ codes' = [codes EXCEPT ![t.key] = @ \cup {t.code}]
        /\ Finish(r, "done")
     \/ /\ t.kind = "grant" /\ ~ grantable
        /\ Finish(r, "failed") /\ UNCHANGED codes
     \/ /\ t.kind = "ungrant"
        /\ codes' = [codes EXCEPT ![t.key] = @ \ {t.code}]
        /\ Finish(r, "done")
  /\ UNCHANGED <<member, invitation, phone, sellers, expired, actor>>

-----------------------------------------------------------------------------
(* Services of other components that use the same rows *)

\* RegisterView and MeView: a phone number belongs to one user.  A sale locks
\* the membership of its seller when it commits.
Arrive(r) ==
  LET t == task[r] IN
  /\ At(r, "idle") /\ t.kind \in {"profile", "sell"}
  /\ Goto(r, t.kind, IF t.kind = "sell" THEN <<MemberRow(t.key)>>
                     ELSE <<UserRow(t.user), Number(t.phone)>>)
  /\ UNCHANGED <<tables, expired, actor>>

CommitProfile(r) ==
  LET t == task[r] IN
  /\ At(r, "profile")
  /\ IF Holder(t.phone) \subseteq {t.user}
     THEN phone' = [phone EXCEPT ![t.user] = t.phone] /\ Finish(r, "done")
     ELSE Finish(r, "failed") /\ UNCHANGED phone
  /\ UNCHANGED <<member, codes, invitation, sellers, expired, actor>>

\* Faulty form: a sale may be made for a membership that is gone.
CommitSaleAnyway(r) ==
  /\ At(r, "sell")
  /\ sellers' = sellers \cup {task[r].key}
  /\ Finish(r, "done")
  /\ UNCHANGED <<member, codes, invitation, phone, expired, actor>>

CommitSale(r) ==
  /\ At(r, "sell")
  /\ IF task[r].key \in Keys
     THEN sellers' = sellers \cup {task[r].key} /\ Finish(r, "done")
     ELSE Finish(r, "failed") /\ UNCHANGED sellers
  /\ UNCHANGED <<member, codes, invitation, phone, expired, actor>>

-----------------------------------------------------------------------------
Rollback(r) ==
  /\ Crash(r) \/ ResolveDeadlock(r)
  /\ UNCHANGED <<tables, expired, actor>>

Handle(r) ==
  \/ Acquire(r) /\ UNCHANGED <<tables, expired, actor>>
  \/ Permit(r) \/ Load(r)
  \/ Found(r) \/ Claim(r) \/ Validate(r) \/ Identify(r)
  \/ Insert(r) \/ CommitMember(r)
  \/ Supersede(r) \/ CommitOffer(r) \/ CommitRevoke(r)
  \/ Decide(r) \/ CommitChange(r) \/ CommitCode(r)
  \/ Arrive(r) \/ CommitProfile(r) \/ CommitSale(r)

Finished == (\A r \in Request : Ended(r)) /\ UNCHANGED vars

Next ==
  \/ \E r \in Request : Handle(r) \/ Rollback(r)
  \/ \E tok \in Token : Expire(tok)
  \/ Finished

\* A request that has arrived is worked on; PostgreSQL's deadlock detector
\* runs.  Arrivals, crashes and the passing of time are left to chance.
Fairness ==
  \A r \in Request :
    WF_vars(\/ pc[r] # "idle" /\ Handle(r)
            \/ ResolveDeadlock(r) /\ UNCHANGED <<tables, expired, actor>>)

Spec == Init /\ [][Next]_vars /\ Fairness

-----------------------------------------------------------------------------
(* Properties *)

TypeOK ==
  /\ member \in [Key -> Membership \cup {NoRow}]
  /\ codes \in [Key -> SUBSET Code]
  /\ invitation \in [Token -> Invitation \cup {NoRow}]
  /\ expired \subseteq Token
  /\ phone \in [User -> Phone \cup {NoPhone}]
  /\ sellers \subseteq Key
  /\ actor \in [Request -> Membership \cup {NoRow}]

\* However the managers of a store demote and remove each other, with rights
\* they may have lost since their requests were permitted, every store with
\* members keeps a manager (stores/services.py:258, 289).
StoreKeepsManager == \A k \in Keys : Managers(member[k].store) # {}

NothingDangles ==
  sellers \cup {k \in Key : codes[k] # {}} \subseteq Keys

\* The tables hold well-formed rows, and what the sales and the capabilities of
\* a store refer to stays there while members are removed at the same time:
\* Sale.seller is PROTECT (stores/services.py:299).
TablesSound == TypeOK /\ NothingDangles

\* Memberships and invitations change only as StoreRoster lets them: a user
\* has one store, an invitation is accepted once and not after it was revoked
\* or replaced, a phone number has one pending invitation in a store, and no
\* store loses its last manager.
Roster == INSTANCE StoreRoster WITH
  staff <- {member[k] : k \in Keys},
  offers <- {[token |-> tok, store |-> invitation[tok].store,
              phone |-> invitation[tok].phone, role |-> invitation[tok].role]
               : tok \in {t \in Token : Pending(t)}},
  taken <- {[token |-> tok, user |-> invitation[tok].by]
              : tok \in {t \in Token : /\ invitation[t] # NoRow
                                       /\ invitation[t].status = "accepted"}}

ImplementsRoster == Roster!Spec

\* An invitation that had expired when a request arrived is not accepted by
\* it, however long the request waits for the locks of others.
ExpiredIsRefused ==
  \A r \in Request :
    [](/\ pc[r] = "idle" /\ Joins(r) /\ task[r].token \in expired
       => [](pc[r] # "done"))

\* Every request that has arrived ends: a deadlock between an invitation and
\* its store (accept locks them in one order, create in the other) or between
\* a store and a user's place in it is resolved.
EveryRequestEnds == \A r \in Request : Running(r) ~> Ended(r)
=============================================================================
