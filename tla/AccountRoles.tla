---------------------------- MODULE AccountRoles ----------------------------
(***************************************************************************)
(* Accounts and their roles. The role is in core.users, and in every       *)
(* access token that has been issued; administrators change roles and      *)
(* status and end the sessions of those concerned. Accounts come from      *)
(* registration and from an OAuth provider, which may write an address     *)
(* with other capitals. A request reads, commits, and then tells Redis.    *)
(***************************************************************************)
EXTENDS Naturals, FiniteSets, SequencesExt

CONSTANTS
    Staff,        \* number of administrators there are to begin with, signed in
    Requests,
    Kinds,        \* [Requests -> SUBSET {"register", "login", "provider", "refresh", "verify", "resend", "role",
                  \*  "status", "delete", "upgrade", "onboard"}]
    MaxErased,    \* accounts erased
    MaxFaults     \* requests cut off

VARIABLES
    accounts,     \* core.users, and whether there is a row of merchant_accounts of each
    identity,     \* account of the provider's user, 0 for none
    sessions,     \* of whom, the roles its access tokens claim, whether it is live; history: how it began
    links,        \* tokens that verify an address: of whom, whether it can be used
    req,
    overlaps,     \* history: how often a request has begun while another was in progress
    respelled,    \* history: an account of the provider's was made beside an unverified one
    erased,       \* history: accounts erased at their owner's wish
    faults

vars == <<accounts, identity, sessions, links, req, overlaps, respelled, erased, faults>>
history == <<overlaps, respelled, erased, faults>>

-----------------------------------------------------------------------------
(* State *)

Roles == {"customer", "merchant", "admin"}
Rank == [customer |-> 10, merchant |-> 50, admin |-> 100]

\* One address, in two spellings; administrators have others.
Spellings == {"lower", "upper"}

Account(email, role, verified, password) ==
    [email |-> email, role |-> role, active |-> TRUE, deleted |-> FALSE, verified |-> verified,
     password |-> password, merchant |-> FALSE]

Users == DOMAIN accounts
SignsIn(u) == accounts[u].active /\ ~accounts[u].deleted /\ accounts[u].password

Idle == [pc |-> "idle"]
Ended == [pc |-> "done"]
At(r, pc) == req[r].pc = pc
InProgress(r) == req[r] \notin {Idle, Ended}
Return(r) == req' = [req EXCEPT ![r] = Ended]
Goto(r, to) == req' = [req EXCEPT ![r] = to]

Begin(r, kind) ==
    /\ req[r] = Idle /\ kind \in Kinds[r]
    /\ overlaps' = overlaps + IF \E x \in Requests : InProgress(x) THEN 1 ELSE 0

Init ==
    /\ accounts = [u \in 1..Staff |-> Account("other", "admin", TRUE, TRUE)]
    /\ identity = 0 /\ links = <<>> 
    /\ sessions = [s \in 1..Staff |-> [user |-> s, claims |-> {"admin"}, live |-> TRUE, by |-> "password"]]
    /\ req = [r \in Requests |-> Idle]
    /\ overlaps = 0 /\ respelled = FALSE /\ erased = {} /\ faults = 0

\* require_role: what the access token claims counts.
Authorised(s, role) == sessions[s].live /\ \E c \in sessions[s].claims : Rank[c] >= Rank[role]

-----------------------------------------------------------------------------
(* Accounts and sessions *)

\* Mutant of SameAddress: as the column's UNIQUE compares.
SameAddressExactly(spelling) == {u \in Users : accounts[u].email = spelling}

\* get_user_by_email takes no notice of capitals.
SameAddress(spelling) == {u \in Users : accounts[u].email \in Spellings}

\* The column's UNIQUE does.
Taken(spelling) == \E u \in Users : accounts[u].email = spelling

\* create_session and create_access_token with the role that was read; a verification link for
\* somebody who has registered.
SignIn(r) ==
    /\ At(r, "session")
    /\ sessions' = Append(sessions, [user |-> req[r].user, claims |-> {req[r].role}, live |-> TRUE, by |-> req[r].by])
    /\ links' = IF req[r].by = "registration" THEN Append(links, [user |-> req[r].user, good |-> TRUE]) ELSE links
    /\ Return(r)
    /\ UNCHANGED <<accounts, identity, history>>

ToSession(u, role, by) == [pc |-> "session", user |-> u, role |-> role, by |-> by]

\* register_user
Register(r, spelling) ==
    /\ Begin(r, "register")
    /\ Goto(r, IF SameAddress(spelling) = {} THEN [pc |-> "register", spelling |-> spelling] ELSE Ended)
    /\ UNCHANGED <<accounts, identity, sessions, links, respelled, erased, faults>>

Registered(r) ==
    /\ At(r, "register")
    /\ IF Taken(req[r].spelling)
       THEN Return(r) /\ UNCHANGED accounts
       ELSE /\ accounts' = Append(accounts, Account(req[r].spelling, "customer", FALSE, TRUE))
            /\ Goto(r, ToSession(Len(accounts'), "customer", "registration"))
    /\ UNCHANGED <<identity, sessions, links, history>>

\* authenticate_user
Login(r, u) ==
    /\ Begin(r, "login")
    /\ SignsIn(u)
    /\ Goto(r, ToSession(u, accounts[u].role, "password"))
    /\ UNCHANGED <<accounts, identity, sessions, links, respelled, erased, faults>>

Verified(spelling) == {u \in SameAddress(spelling) : accounts[u].verified}

\* find_or_create_user looks for the identity, and for a verified account of the address.
FromProvider(r, spelling, verified) ==
    /\ Begin(r, "provider")
    /\ Goto(r, [pc |-> "provider", spelling |-> spelling, verified |-> verified, known |-> identity,
                match |-> IF Verified(spelling) = {} THEN 0 ELSE CHOOSE u \in Verified(spelling) : TRUE])
    /\ UNCHANGED <<accounts, identity, sessions, links, respelled, erased, faults>>

\* Known; matched, and linked unless the identity has been meanwhile; or new, unless it has been or
\* the address is taken as it is spelled.
Provided(r) ==
    LET q == req[r]
    IN /\ At(r, "provider")
       /\ IF q.known # 0
          THEN /\ Goto(r, ToSession(q.known, accounts[q.known].role, "provider"))
               /\ UNCHANGED <<accounts, identity, respelled>>
          ELSE IF q.match # 0
          THEN /\ identity' = IF identity = 0 THEN q.match ELSE identity
               /\ Goto(r, ToSession(q.match, accounts[q.match].role, "provider"))
               /\ UNCHANGED <<accounts, respelled>>
          ELSE IF Taken(q.spelling) \/ identity # 0
          THEN Return(r) /\ UNCHANGED <<accounts, identity, respelled>>
          ELSE /\ accounts' = Append(accounts, Account(q.spelling, "customer", q.verified, FALSE))
               /\ identity' = Len(accounts')
               /\ respelled' = (respelled \/ SameAddress(q.spelling) # {})
               /\ Goto(r, ToSession(Len(accounts'), "customer", "provider"))
       /\ UNCHANGED <<sessions, links, overlaps, erased, faults>>

\* refresh reads the role anew. Tokens issued before stay good; that they expire after a while only
\* takes something away.
Refresh(r, s) ==
    /\ Begin(r, "refresh")
    /\ sessions[s].live
    /\ Goto(r, [pc |-> "refresh", session |-> s, role |-> accounts[sessions[s].user].role])
    /\ UNCHANGED <<accounts, identity, sessions, links, respelled, erased, faults>>

Refreshed(r) ==
    /\ At(r, "refresh")
    /\ sessions' = [sessions EXCEPT ![req[r].session].claims = @ \cup {req[r].role}]
    /\ Return(r)
    /\ UNCHANGED <<accounts, identity, links, history>>

-----------------------------------------------------------------------------
(* Verification *)

\* verify_email takes the link out of Redis, and then writes.
Verify(r, l) ==
    /\ Begin(r, "verify")
    /\ links[l].good
    /\ links' = [links EXCEPT ![l].good = FALSE]
    /\ Goto(r, [pc |-> "verify", user |-> links[l].user])
    /\ UNCHANGED <<accounts, identity, sessions, respelled, erased, faults>>

VerifyWrite(r) ==
    /\ At(r, "verify")
    /\ accounts' = [accounts EXCEPT ![req[r].user].verified = TRUE]
    /\ Return(r)
    /\ UNCHANGED <<identity, sessions, links, history>>

\* resend_verification and admin_verify_user
Resend(r, s, u) ==
    /\ Begin(r, "resend")
    /\ Authorised(s, "admin") /\ ~accounts[u].verified
    /\ \/ links' = Append(links, [user |-> u, good |-> TRUE]) /\ UNCHANGED accounts
       \/ accounts' = [accounts EXCEPT ![u].verified = TRUE] /\ UNCHANGED links
    /\ Return(r)
    /\ UNCHANGED <<identity, sessions, respelled, erased, faults>>

-----------------------------------------------------------------------------
(* Administration *)

\* Mutant of ToAnother: to anybody.
ToAnybody(s, u) == Authorised(s, "admin")

\* An administrator does it to somebody else.
ToAnother(s, u) == Authorised(s, "admin") /\ sessions[s].user # u

\* update_user_role leaves merchants alone.
SetRole(r, s, u, role) ==
    /\ Begin(r, "role")
    /\ ToAnother(s, u) /\ ~accounts[u].merchant
    /\ Goto(r, [pc |-> "write", user |-> u, what |-> "role", role |-> role])
    /\ UNCHANGED <<accounts, identity, sessions, links, respelled, erased, faults>>

\* toggle_user_active
SetActive(r, s, u, active) ==
    /\ Begin(r, "status")
    /\ ToAnother(s, u)
    /\ Goto(r, [pc |-> "write", user |-> u, what |-> IF active THEN "activate" ELSE "deactivate"])
    /\ UNCHANGED <<accounts, identity, sessions, links, respelled, erased, faults>>

\* soft_delete_user
SoftDelete(r, s, u) ==
    /\ Begin(r, "delete")
    /\ ToAnother(s, u) /\ ~accounts[u].deleted
    /\ Goto(r, [pc |-> "write", user |-> u, what |-> "delete"])
    /\ UNCHANGED <<accounts, identity, sessions, links, respelled, erased, faults>>

\* upgrade_to_merchant, of a customer and by the customer; the tokens follow at the next refresh.
Upgrade(r, s) ==
    /\ Begin(r, "upgrade")
    /\ Authorised(s, "customer") /\ accounts[sessions[s].user].role = "customer"
    /\ Goto(r, [pc |-> "write", user |-> sessions[s].user, what |-> "upgrade"])
    /\ UNCHANGED <<accounts, identity, sessions, links, respelled, erased, faults>>

Changed(account, q) ==
    CASE q.what = "role" -> [account EXCEPT !.role = q.role]
      [] q.what = "upgrade" -> [account EXCEPT !.role = "merchant"]
      [] q.what = "activate" -> [account EXCEPT !.active = TRUE]
      [] q.what = "deactivate" -> [account EXCEPT !.active = FALSE]
      [] q.what = "delete" -> [account EXCEPT !.active = FALSE, !.deleted = TRUE]

\* Mutant of EndsSessions: a new role waits for the next refresh.
EndsSessionsOfInactive(what) == what \in {"deactivate", "delete"}

EndsSessions(what) == what \in {"role", "deactivate", "delete"}

\* The COMMIT, and only then
Write(r) ==
    LET q == req[r]
    IN /\ At(r, "write")
       /\ accounts' = [accounts EXCEPT ![q.user] = Changed(@, q)]
       /\ Goto(r, IF EndsSessions(q.what) THEN [pc |-> "revoke", user |-> q.user] ELSE Ended)
       /\ UNCHANGED <<identity, sessions, links, history>>

\* invalidate_all_sessions.
Revoke(r) ==
    /\ At(r, "revoke")
    /\ sessions' = [s \in DOMAIN sessions |-> [sessions[s] EXCEPT !.live = @ /\ sessions[s].user # req[r].user]]
    /\ Return(r)
    /\ UNCHANGED <<accounts, identity, links, history>>

\* _process_deletion, when the owner asks for its status: even of the last administrator. The
\* address is free again, the session that has asked goes on.
Erase(s) ==
    /\ sessions[s].live /\ Cardinality(erased) < MaxErased /\ sessions[s].user \notin erased
    /\ accounts' = [accounts EXCEPT ![sessions[s].user].email = "none", ![sessions[s].user].password = FALSE,
                                    ![sessions[s].user].active = FALSE]
    /\ erased' = erased \cup {sessions[s].user}
    /\ overlaps' = overlaps + IF \E r \in Requests : InProgress(r) THEN 1 ELSE 0
    /\ UNCHANGED <<identity, sessions, links, req, respelled, faults>>

-----------------------------------------------------------------------------
(* Merchants *)

\* onboard_merchant has stored an account (MerchantAccounts).
Onboard(r, s) ==
    /\ Begin(r, "onboard")
    /\ Authorised(s, "merchant")
    /\ accounts' = [accounts EXCEPT ![sessions[s].user].merchant = TRUE]
    /\ Return(r)
    /\ UNCHANGED <<identity, sessions, links, respelled, erased, faults>>

CutOff(r) ==
    /\ InProgress(r) /\ faults < MaxFaults
    /\ Return(r) /\ faults' = faults + 1
    /\ UNCHANGED <<accounts, identity, sessions, links, overlaps, respelled, erased>>

Next ==
    \/ \E r \in Requests :
          \/ \E e \in Spellings : Register(r, e) \/ \E v \in BOOLEAN : FromProvider(r, e, v)
          \/ \E u \in Users : Login(r, u)
          \/ \E l \in DOMAIN links : Verify(r, l)
          \/ \E s \in DOMAIN sessions :
                \/ Refresh(r, s) \/ Upgrade(r, s) \/ Onboard(r, s)
                \/ \E u \in Users :
                      \/ Resend(r, s, u) \/ SoftDelete(r, s, u)
                      \/ \E role \in Roles : SetRole(r, s, u, role)
                      \/ \E a \in BOOLEAN : SetActive(r, s, u, a)
          \/ Registered(r) \/ Provided(r) \/ SignIn(r) \/ Refreshed(r) \/ VerifyWrite(r)
          \/ Write(r) \/ Revoke(r) \/ CutOff(r)
    \/ \E s \in DOMAIN sessions : Erase(s)

Spec == Init /\ [][Next]_vars

-----------------------------------------------------------------------------
(* Properties *)

TypeOK ==
    /\ accounts \in Seq([email : Spellings \cup {"other", "none"}, role : Roles, active : BOOLEAN, deleted : BOOLEAN,
                         verified : BOOLEAN, password : BOOLEAN, merchant : BOOLEAN])
    /\ identity \in 0..Len(accounts)
    /\ sessions \in Seq([user : Users, claims : SUBSET Roles, live : BOOLEAN,
                         by : {"password", "registration", "provider"}])
    /\ links \in Seq([user : Users, good : BOOLEAN])

Undisturbed == overlaps = 0 /\ faults = 0
Quiet == \A r \in Requests : ~InProgress(r)

\* Whoever administrates, as long as requests come one after the other there is an administrator
\* left who can sign in, unless one has had the account erased.
AdminRemains ==
    Undisturbed /\ erased = {} => \E u \in Users : accounts[u].role = "admin" /\ SignsIn(u)

\* Between requests, no token that works claims more than the account's role, and nobody whom an
\* administrator has deactivated or deleted has a session of a password.
NobodyOutranks ==
    Undisturbed /\ Quiet =>
        \A s \in DOMAIN sessions : sessions[s].live =>
            LET u == sessions[s].user
            IN /\ \A c \in sessions[s].claims : Rank[c] <= Rank[accounts[u].role]
               /\ sessions[s].by # "provider" /\ u \notin erased => accounts[u].active /\ ~accounts[u].deleted

\* A second account of an address takes two registrations that overlap, or a provider that spells
\* the address of an unverified account in its own way.
AddressIsOne == Cardinality({u \in Users : accounts[u].email \in Spellings}) <= 1 + overlaps + IF respelled THEN 1 ELSE 0
=============================================================================
