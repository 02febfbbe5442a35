---------------------------- MODULE UserSessions ----------------------------
(***************************************************************************)
(* The sessions of one user as Redis keeps them: a hash per session, the   *)
(* set of the user's sessions, which the limit on sessions goes by, and    *)
(* the refresh tokens bound to a session. Logins, refreshes, logouts and   *)
(* password resets are requests of several commands each, with nothing to  *)
(* keep one command of one request from coming between two of another's.   *)
(* Every session belongs to a browser, whose tabs share one cookie. The    *)
(* rows of core.sessions are written and never read.                       *)
(***************************************************************************)
EXTENDS Naturals, SequencesExt

CONSTANTS
    Requests,
    Kinds,        \* [Requests -> SUBSET STRING]: what a request may be
    Limit,        \* settings.max_sessions_per_user
    Signed,       \* sessions there are to begin with
    MaxLapses,    \* time: sessions and tokens that reach the end of their life
    MaxFaults     \* requests cut off

VARIABLES
    live,       \* sessions with a hash; they are numbered in the order of their logins
    indexed,    \* the members of user_sessions
    made,       \* how many sessions there have been
    tokens,     \* each refresh token: its session, and whether it can be used
    cookie,     \* each browser's refresh token, 0 for none
    req,        \* each request: steps to do, and what it has read
    lapses, faults,
    upset,      \* history: how often a request has come in while another was in progress
    resets,     \* history: password resets begun
    turnedAway  \* history: refreshes refused although the session lived and no time had lapsed

vars == <<live, indexed, made, tokens, cookie, req, lapses, faults, upset, resets, turnedAway>>

-----------------------------------------------------------------------------
(* State *)

Steps == [login   |-> <<"members">>,
          refresh |-> <<"validate", "session", "rotate", "token">>,
          logout  |-> <<"validate", "drop", "unlist", "scan">>,
          reset   |-> <<"members", "drop all", "unlist all", "scan all">>]

Idle == [todo |-> <<"begin">>]
Ended == [todo |-> <<>>]
At(r, step) == req[r].todo # <<>> /\ Head(req[r].todo) = step
InProgress(r) == req[r] \notin {Idle, Ended}

Go(r, state, steps) == req' = [req EXCEPT ![r] = IF steps = <<>> THEN Ended ELSE [state EXCEPT !.todo = steps]]
GoOn(r) == Go(r, req[r], Tail(req[r].todo))
Stop(r) == req' = [req EXCEPT ![r] = Ended]

Init ==
    /\ live = 1..Signed /\ indexed = 1..Signed /\ made = Signed
    /\ tokens = [t \in 1..Signed |-> [session |-> t, state |-> "good"]]
    /\ cookie = [s \in 1..Signed |-> s]
    /\ req = [r \in Requests |-> Idle]
    /\ lapses = 0 /\ faults = 0 /\ upset = 0 /\ resets = 0 /\ turnedAway = {}

\* A browser sends the cookie it has, if the request is about a session.
Begin(r, kind, s) ==
    /\ req[r] = Idle /\ kind \in Kinds[r]
    /\ kind \in {"refresh", "logout"} => cookie[s] # 0
    /\ kind \in {"login", "reset"} => s = 1
    /\ req' = [req EXCEPT ![r] = [todo |-> Steps[kind], kind |-> kind, browser |-> s, token |-> cookie[s],
                                  victims |-> <<>>]]
    /\ upset' = upset + IF \E q \in Requests : InProgress(q) THEN 1 ELSE 0
    /\ resets' = resets + IF kind = "reset" THEN 1 ELSE 0
    /\ UNCHANGED <<live, indexed, made, tokens, cookie, lapses, faults, turnedAway>>

-----------------------------------------------------------------------------
(* create_session and create_refresh_token *)

\* A session without a hash counts as the oldest.
Older(s, t) == IF (s \in live) = (t \in live) THEN s < t ELSE s \notin live
OldestFirst == SetToSortSeq(indexed, Older)

\* Mutant of Victims: one too few is evicted.
VictimsShort == SubSeq(OldestFirst, 1, Cardinality(indexed) - Limit)

\* The oldest, as many as leave room for one.
Victims == SubSeq(OldestFirst, 1, Cardinality(indexed) - Limit + 1)

Login(r) ==
    /\ At(r, "members") /\ req[r].kind = "login"
    /\ made' = made + 1
    /\ cookie' = Append(cookie, 0)
    /\ Go(r, [req[r] EXCEPT !.browser = made + 1, !.victims = Victims],
          FlattenSeq([v \in DOMAIN Victims |-> <<"drop", "unlist", "scan">>]) \o <<"hash", "index", "token">>)
    /\ UNCHANGED <<live, indexed, tokens, lapses, faults, upset, resets, turnedAway>>

Hash(r) ==
    /\ At(r, "hash")
    /\ live' = live \cup {req[r].browser}
    /\ GoOn(r)
    /\ UNCHANGED <<indexed, made, tokens, cookie, lapses, faults, upset, resets, turnedAway>>

Index(r) ==
    /\ At(r, "index")
    /\ indexed' = indexed \cup {req[r].browser}
    /\ GoOn(r)
    /\ UNCHANGED <<live, made, tokens, cookie, lapses, faults, upset, resets, turnedAway>>

\* The answer takes the new token to the browser.
Token(r) ==
    /\ At(r, "token")
    /\ tokens' = Append(tokens, [session |-> req[r].browser, state |-> "good"])
    /\ cookie' = [cookie EXCEPT ![req[r].browser] = Len(tokens')]
    /\ GoOn(r)
    /\ UNCHANGED <<live, indexed, made, lapses, faults, upset, resets, turnedAway>>

-----------------------------------------------------------------------------
(* refresh *)

Usable(t) == tokens[t].state \in {"good", "grace"}

\* validate_refresh_token. Whoever is refused has the cookie cleared.
Validate(r) ==
    /\ At(r, "validate")
    /\ IF Usable(req[r].token)
       THEN GoOn(r) /\ UNCHANGED <<cookie, turnedAway>>
       ELSE /\ Stop(r)
            /\ cookie' = [cookie EXCEPT ![req[r].browser] = 0]
            /\ turnedAway' = IF req[r].browser \in live /\ tokens[req[r].token].state # "lapsed" /\ req[r].kind = "refresh"
                             THEN turnedAway \cup {r} ELSE turnedAway
    /\ UNCHANGED <<live, indexed, made, tokens, lapses, faults, upset, resets>>

Revoked(t, state) == [tokens EXCEPT ![t].state = IF @ \in {"good", "grace"} THEN state ELSE @]

CheckSession(r) ==
    /\ At(r, "session")
    /\ IF req[r].browser \in live
       THEN GoOn(r) /\ UNCHANGED <<tokens, cookie>>
       ELSE /\ Stop(r)
            /\ tokens' = Revoked(req[r].token, "deleted")
            /\ cookie' = [cookie EXCEPT ![req[r].browser] = 0]
    /\ UNCHANGED <<live, indexed, made, lapses, faults, upset, resets, turnedAway>>

\* Mutant of Rotate: the old token goes at once.
RotateAtOnce(r) ==
    /\ At(r, "rotate")
    /\ tokens' = Revoked(req[r].token, "deleted")
    /\ GoOn(r)
    /\ UNCHANGED <<live, indexed, made, cookie, lapses, faults, upset, resets, turnedAway>>

\* revoke_refresh_token leaves the old one a time of grace.
Rotate(r) ==
    /\ At(r, "rotate")
    /\ tokens' = Revoked(req[r].token, "grace")
    /\ GoOn(r)
    /\ UNCHANGED <<live, indexed, made, cookie, lapses, faults, upset, resets, turnedAway>>

-----------------------------------------------------------------------------
(* invalidate_session, of a victim or the browser's own, and invalidate_all_sessions *)

Target(r) == IF req[r].kind = "login" THEN Head(req[r].victims) ELSE req[r].browser

Drop(r) ==
    /\ At(r, "drop")
    /\ live' = live \ {Target(r)}
    /\ GoOn(r)
    /\ UNCHANGED <<indexed, made, tokens, cookie, lapses, faults, upset, resets, turnedAway>>

\* Mutant of Unlist: the whole set of the user's sessions is deleted.
UnlistAny(r) ==
    /\ At(r, "unlist")
    /\ indexed' = {}
    /\ GoOn(r)
    /\ UNCHANGED <<live, made, tokens, cookie, lapses, faults, upset, resets, turnedAway>>

Unlist(r) ==
    /\ At(r, "unlist")
    /\ indexed' = indexed \ {Target(r)}
    /\ GoOn(r)
    /\ UNCHANGED <<live, made, tokens, cookie, lapses, faults, upset, resets, turnedAway>>

Scan(r) ==
    /\ At(r, "scan")
    /\ tokens' = [t \in DOMAIN tokens |-> IF tokens[t].session = Target(r) THEN Revoked(t, "deleted")[t] ELSE tokens[t]]
    /\ cookie' = IF req[r].kind = "logout" THEN [cookie EXCEPT ![req[r].browser] = 0] ELSE cookie
    /\ Go(r, [req[r] EXCEPT !.victims = IF @ = <<>> THEN @ ELSE Tail(@)], Tail(req[r].todo))
    /\ UNCHANGED <<live, indexed, made, lapses, faults, upset, resets, turnedAway>>

\* The members are those read first, the set deleted may have got more since.
Members(r) ==
    /\ At(r, "members") /\ req[r].kind = "reset"
    /\ Go(r, [req[r] EXCEPT !.victims = OldestFirst], Tail(req[r].todo))
    /\ UNCHANGED <<live, indexed, made, tokens, cookie, lapses, faults, upset, resets, turnedAway>>

DropAll(r) ==
    /\ At(r, "drop all")
    /\ live' = live \ ToSet(req[r].victims)
    /\ GoOn(r)
    /\ UNCHANGED <<indexed, made, tokens, cookie, lapses, faults, upset, resets, turnedAway>>

UnlistAll(r) ==
    /\ At(r, "unlist all")
    /\ indexed' = {}
    /\ GoOn(r)
    /\ UNCHANGED <<live, made, tokens, cookie, lapses, faults, upset, resets, turnedAway>>

ScanAll(r) ==
    /\ At(r, "scan all")
    /\ tokens' = [t \in DOMAIN tokens |-> Revoked(t, "deleted")[t]]
    /\ GoOn(r)
    /\ UNCHANGED <<live, indexed, made, cookie, lapses, faults, upset, resets, turnedAway>>

-----------------------------------------------------------------------------
(* Time and faults *)

\* A hash lives as long as the first token of its session would have, refreshed or not.
Expire ==
    /\ lapses < MaxLapses /\ lapses' = lapses + 1
    /\ live # {} /\ live' = live \ {CHOOSE s \in live : \A t \in live : s <= t}
    /\ UNCHANGED <<indexed, made, tokens, cookie, req, faults, upset, resets, turnedAway>>

Lapse(t) ==
    /\ lapses < MaxLapses /\ lapses' = lapses + 1
    /\ tokens[t].state = "grace"
    /\ tokens' = [tokens EXCEPT ![t].state = "lapsed"]
    /\ UNCHANGED <<live, indexed, made, cookie, req, faults, upset, resets, turnedAway>>

CutOff(r) ==
    /\ InProgress(r) /\ faults < MaxFaults
    /\ Stop(r) /\ faults' = faults + 1
    /\ UNCHANGED <<live, indexed, made, tokens, cookie, lapses, upset, resets, turnedAway>>

Step(r) ==
    \/ Login(r) \/ Hash(r) \/ Index(r) \/ Token(r)
    \/ Validate(r) \/ CheckSession(r) \/ Rotate(r)
    \/ Drop(r) \/ Unlist(r) \/ Scan(r) \/ Members(r) \/ DropAll(r) \/ UnlistAll(r) \/ ScanAll(r) \/ CutOff(r)

Next ==
    \/ \E r \in Requests : Step(r) \/ \E kind \in Kinds[r], s \in 1..made : Begin(r, kind, s)
    \/ Expire \/ \E t \in DOMAIN tokens : Lapse(t)

Spec == Init /\ [][Next]_vars

-----------------------------------------------------------------------------
(* Properties *)

TypeOK ==
    /\ live \subseteq 1..made /\ indexed \subseteq 1..made
    /\ tokens \in Seq([session : 1..made, state : {"good", "grace", "lapsed", "deleted"}])
    /\ cookie \in [1..made -> 0..Len(tokens)]

\* A user has no more sessions than the limit but for logins that overlap another request or
\* are cut off.
SessionsAreLimited == Cardinality(live) <= Limit + upset + faults

\* A session that lives is in the set the limit and the next reset go by, unless requests have
\* overlapped or been cut off.
SessionsAreIndexed ==
    (\A r \in Requests : ~InProgress(r)) => Cardinality(live \ indexed) <= upset + faults

\* Two tabs that refresh with the same cookie, or one that tries again before the time of grace
\* is over, are not turned away; only a reset that overlaps a login does that.
TabsStaySignedIn == turnedAway # {} => resets > 0
=============================================================================
