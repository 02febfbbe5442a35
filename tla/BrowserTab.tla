----------------------------- MODULE BrowserTab -----------------------------
(***************************************************************************)
(* What one tab of the storefront knows of who is signed in: the user it   *)
(* shows, the access and CSRF tokens it sends, and the timer that renews   *)
(* them. Its calls go on concurrently, between the awaits of apiFetch; a   *)
(* call that is answered 401 waits for one refresh that all such calls     *)
(* share, while the timer, a 403 and the tracker refresh on their own. The *)
(* refresh cookie belongs to the browser: another tab may change it.       *)
(***************************************************************************)
EXTENDS Naturals, FiniteSets

CONSTANTS
    Calls,
    Kinds,      \* [Calls -> SUBSET {"read", "write", "beat", "login", "mistype", "logout", "load"}]
    Sessions,   \* sign-ins
    First,      \* the one the tab starts with
    None,
    MaxLapses,  \* tokens that expire, sessions that are ended elsewhere, sign-ins in other tabs
    MaxFaults,  \* network errors
    MaxTimers   \* tokens after which the timer does not fire any more

VARIABLES
    shown,      \* user of auth-context: the sign-in they come from
    access, csrf,   \* sessionStorage
    timer,      \* whether _refreshTimer is set
    cookie,     \* refresh_token
    live,       \* the server: sessions in Redis,
    minted,     \*             the number of the latest tokens,
    expired,    \*             and up to which number they have expired
    call,       \* each call: where it is, and what it sends
    refresh,    \* each refreshTokens in progress, by who waits for it
    done,       \* history: writes carried out, with who asked and in whose name
    left,       \* history: the user has signed out, and not in again
    lapses, faults,
    crossed     \* history: a sign-in, a sign-out or another tab crossed something

vars == <<shown, access, csrf, timer, cookie, live, minted, expired, call, refresh, done, left,
          lapses, faults, crossed>>

-----------------------------------------------------------------------------
(* State *)

Idle == [pc |-> "idle"]
Ended == [pc |-> "done"]
At(c, pc) == call[c].pc = pc
InProgress(c) == call[c] \notin {Idle, Ended}

Owners == Calls \cup {"shared", "timer"}
Refreshing(o) == refresh[o] # Idle
Quiet == (\A c \in Calls : ~InProgress(c)) /\ (\A o \in Owners : ~Refreshing(o))
Signing == \E c \in Calls : InProgress(c) /\ call[c].kind \in {"login", "logout", "load"}

Stop(c) == call' = [call EXCEPT ![c] = Ended]
tokens == <<access, csrf>>
server == <<cookie, live, minted, expired>>
history == <<left, lapses, faults, crossed>>

Token(s, n) == [of |-> s, no |-> n]
Sending == [pc |-> "sent", cookie |-> cookie]

Init ==
    /\ shown = First /\ access = Token(First, 1) /\ csrf = Token(First, 1) /\ timer \in BOOLEAN
    /\ cookie = First /\ live = {First} /\ expired = [access |-> 0, csrf |-> 0] /\ minted = 1
    /\ call = [c \in Calls |-> Idle] /\ refresh = [o \in Owners |-> Idle]
    /\ done = {} /\ left = FALSE /\ lapses = 0 /\ faults = 0 /\ crossed = FALSE

\* Into apiFetch; a page that loads knows only what sessionStorage keeps, or what the cookie gets it.
Begin(c, kind) ==
    LET new == [pc |-> "sent", kind |-> kind, step |-> IF kind = "load" THEN "me" ELSE kind,
                access |-> access, csrf |-> csrf, asker |-> shown, status |-> 0, got |-> None, again |-> {}]
    IN /\ call[c] = Idle /\ kind \in Kinds[c]
       /\ IF kind = "load"
          THEN Quiet /\ shown' = None /\ timer' = FALSE
          ELSE UNCHANGED <<shown, timer>>
       /\ IF kind = "load" /\ access = None
          THEN /\ call' = [call EXCEPT ![c] = [new EXCEPT !.pc = "wait"]]
               /\ refresh' = [refresh EXCEPT ![c] = Sending]
          ELSE call' = [call EXCEPT ![c] = new] /\ UNCHANGED refresh
       /\ crossed' = (crossed \/ Signing \/ (kind \in {"login", "logout"} /\ ~Quiet))
       /\ UNCHANGED <<tokens, server, done, left, lapses, faults>>

TimerFires ==
    /\ timer /\ minted <= MaxTimers /\ timer' = FALSE
    /\ refresh' = [refresh EXCEPT !["timer"] = Sending]
    /\ crossed' = (crossed \/ Signing)
    /\ UNCHANGED <<shown, tokens, server, call, done, left, lapses, faults>>

-----------------------------------------------------------------------------
(* The server, as far as the tab can tell *)

Valid(token, kind) == token # None /\ token.of \in live /\ token.no > expired[kind]

\* get_current_user and, for a write, validate_csrf. logout goes by the cookie alone.
Status(q) ==
    CASE q.step = "mistype" -> 401
      [] q.step \in {"login", "logout"} -> 200
      [] ~Valid(q.access, "access") -> 401
      [] q.step = "write" /\ ~(Valid(q.csrf, "csrf") /\ q.csrf.of = q.access.of) -> 403
      [] OTHER -> 200

Serve(c) ==
    LET q == call[c]
    IN /\ At(c, "sent") /\ q.step # "login"
       /\ call' = [call EXCEPT ![c] = [q EXCEPT !.pc = "answered", !.status = Status(q)]]
       /\ live' = IF q.step = "logout" THEN live \ {cookie} ELSE live
       /\ done' = IF q.step = "write" /\ Status(q) = 200
                  THEN done \cup {[call |-> c, no |-> Cardinality(done), asker |-> q.asker, name |-> q.access.of]}
                  ELSE done
       /\ UNCHANGED <<shown, tokens, timer, cookie, minted, expired, refresh, history>>

SignIn(c, s) ==
    /\ At(c, "sent") /\ call[c].step = "login" /\ s \notin live
    /\ live' = live \cup {s} /\ minted' = minted + 1
    /\ call' = [call EXCEPT ![c].pc = "answered", ![c].status = 200, ![c].got = Token(s, minted + 1)]
    /\ UNCHANGED <<shown, tokens, timer, cookie, expired, refresh, done, history>>

\* A cookie that does not do is deleted.
ServeRefresh(o) ==
    LET sent == refresh[o].cookie
    IN /\ Refreshing(o) /\ refresh[o].pc = "sent"
       /\ IF sent \in live
          THEN /\ minted' = minted + 1
               /\ refresh' = [refresh EXCEPT ![o] =
                     [pc |-> "answered", got |-> Token(sent, minted + 1), deletes |-> FALSE]]
          ELSE /\ UNCHANGED minted
               /\ refresh' = [refresh EXCEPT ![o] =
                     [pc |-> "answered", got |-> None, deletes |-> sent # None]]
       /\ UNCHANGED <<shown, tokens, timer, cookie, live, expired, call, done, history>>

-----------------------------------------------------------------------------
(* apiFetch: what becomes of an answer *)

\* Each kind of refusal is answered once by a refresh.
Retries(q) == q.status \in {401, 403} \ q.again

WaitShared(c) ==
    /\ At(c, "answered") /\ Retries(call[c]) /\ call[c].status = 401
    /\ call[c].step # "beat" /\ access # None
    /\ call' = [call EXCEPT ![c].pc = "shared", ![c].again = @ \cup {401}]
    /\ refresh' = IF Refreshing("shared") THEN refresh ELSE [refresh EXCEPT !["shared"] = Sending]
    /\ UNCHANGED <<shown, tokens, timer, server, done, history>>

RefreshItself(c) ==
    /\ At(c, "answered") /\ Retries(call[c])
    /\ call[c].step = (IF call[c].status = 401 THEN "beat" ELSE "write")
    /\ call' = [call EXCEPT ![c].pc = "wait", ![c].again = @ \cup {call[c].status}]
    /\ refresh' = [refresh EXCEPT ![c] = Sending]
    /\ UNCHANGED <<shown, tokens, timer, server, done, history>>

Refused(c) ==
    /\ call[c].status = 401
    /\ ~Retries(call[c]) \/ (access = None /\ call[c].step # "beat")

\* The tokens of the sign-in; then /auth/me.
SignedIn(c) ==
    LET got == call[c].got
    IN /\ At(c, "answered") /\ call[c].step = "login"
       /\ access' = got /\ csrf' = got /\ cookie' = got.of
       /\ call' = [call EXCEPT ![c].pc = "sent", ![c].step = "me", ![c].access = got, ![c].csrf = got]
       /\ left' = FALSE
       /\ UNCHANGED <<shown, timer, live, minted, expired, refresh, done, lapses, faults, crossed>>

\* fetchMe; csrf and the timer are left as they are.
NobodyShown == shown' = None /\ access' = None /\ UNCHANGED csrf

Me(c) ==
    /\ At(c, "answered") /\ call[c].step = "me"
    /\ \/ call[c].status = 200 /\ shown' = call[c].access.of /\ UNCHANGED tokens
       \/ Refused(c) /\ NobodyShown
    /\ Stop(c)
    /\ UNCHANGED <<timer, server, refresh, done, history>>

\* Mutant of SignedOut: it is left to the server.
SignedOutThere == UNCHANGED <<tokens, shown>>

\* The timer goes on.
SignedOut == access' = None /\ csrf' = None /\ shown' = None

LoggedOut(c) ==
    /\ At(c, "answered") /\ call[c].step = "logout"
    /\ SignedOut /\ cookie' = None /\ left' = TRUE
    /\ Stop(c)
    /\ UNCHANGED <<timer, live, minted, expired, refresh, done, lapses, faults, crossed>>

Returned(c) ==
    /\ At(c, "answered") /\ call[c].step \in {"read", "write", "beat", "mistype"}
    /\ call[c].status = 200 \/ Refused(c) \/ (call[c].status = 403 /\ ~Retries(call[c]))
    /\ Stop(c)
    /\ UNCHANGED <<shown, tokens, timer, server, refresh, done, history>>

\* Mutant of Failed: the call goes out again.
FailedAgain(c) ==
    /\ call' = [call EXCEPT ![c].pc = "sent"]
    /\ UNCHANGED <<shown, tokens>>

\* fetch throws, whether or not the server has got the call.
Failed(c) ==
    /\ Stop(c)
    /\ CASE call[c].step = "me" -> NobodyShown
         [] call[c].step = "logout" -> SignedOut
         [] OTHER -> UNCHANGED <<shown, tokens>>

NetworkError(c) ==
    /\ call[c].pc \in {"sent", "answered"} /\ faults < MaxFaults
    /\ Failed(c)
    /\ faults' = faults + 1
    /\ UNCHANGED <<timer, server, refresh, done, left, lapses, crossed>>

-----------------------------------------------------------------------------
(* refreshTokens, and whoever has been waiting for it *)

\* Mutant of Resume: the call goes out again as it was.
ResumeAsItWas(q, token) == [q EXCEPT !.pc = "sent"]

Resume(q, token) == [q EXCEPT !.pc = "sent", !.access = token, !.csrf = token]

Renewed(token) == access' = token /\ csrf' = token /\ timer' = TRUE /\ cookie' = token.of

NotRenewed(o) == timer' = FALSE /\ cookie' = IF refresh[o].deletes THEN None ELSE cookie

Refreshed(o) == Refreshing(o) /\ refresh[o].pc = "answered" /\ refresh' = [refresh EXCEPT ![o] = Idle]

\* Mutant of SessionExpired: nobody listens.
SessionExpiredUnheard == access' = None /\ csrf' = None /\ UNCHANGED shown

\* _notifySessionExpired and its listener.
SessionExpired == access' = None /\ csrf' = None /\ shown' = None

\* refreshPromise: every call that waits for it goes on at once.
SharedRefreshed ==
    LET token == refresh["shared"].got
    IN /\ Refreshed("shared")
       /\ IF token # None
          THEN /\ Renewed(token) /\ UNCHANGED shown
               /\ call' = [c \in Calls |-> IF At(c, "shared") THEN Resume(call[c], token) ELSE call[c]]
          ELSE /\ NotRenewed("shared") /\ SessionExpired
               /\ call' = [c \in Calls |-> IF At(c, "shared") THEN Ended ELSE call[c]]
       /\ UNCHANGED <<live, minted, expired, done, history>>

TimerRefreshed ==
    LET token == refresh["timer"].got
    IN /\ Refreshed("timer")
       /\ IF token # None THEN Renewed(token) ELSE NotRenewed("timer") /\ UNCHANGED tokens
       /\ UNCHANGED <<shown, live, minted, expired, call, done, history>>

\* After a 403, a heartbeat's 401, or at the start of a page. Nobody is signed out by it.
ItselfRefreshed(c) ==
    LET token == refresh[c].got
    IN /\ Refreshed(c)
       /\ IF token # None
          THEN Renewed(token) /\ call' = [call EXCEPT ![c] = Resume(@, token)]
          ELSE /\ NotRenewed(c) /\ UNCHANGED tokens
               /\ call' = [call EXCEPT ![c] =
                             IF @.step = "me" /\ access # None THEN Resume(@, access) ELSE Ended]
       /\ UNCHANGED <<shown, live, minted, expired, done, history>>

RefreshError(o) ==
    /\ Refreshing(o) /\ faults < MaxFaults
    /\ refresh' = [refresh EXCEPT ![o] = [pc |-> "answered", got |-> None, deletes |-> FALSE]]
    /\ faults' = faults + 1
    /\ UNCHANGED <<shown, tokens, timer, server, call, done, left, lapses, crossed>>

-----------------------------------------------------------------------------
(* Time, and what happens elsewhere *)

Lapse == lapses < MaxLapses /\ lapses' = lapses + 1

Expire(kind) ==
    /\ Lapse /\ expired' = [expired EXCEPT ![kind] = minted]
    /\ UNCHANGED <<shown, tokens, timer, cookie, live, minted, call, refresh, done, left, faults, crossed>>

\* By the session limit, a password reset, an administrator.
EndSession(s) ==
    /\ Lapse /\ s \in live /\ live' = live \ {s}
    /\ crossed' = (crossed \/ ~Quiet)
    /\ UNCHANGED <<shown, tokens, timer, cookie, minted, expired, call, refresh, done, left, faults>>

\* Another tab of this browser.
SignInElsewhere(s) ==
    /\ Lapse /\ s \notin live /\ live' = live \cup {s} /\ cookie' = s
    /\ crossed' = TRUE
    /\ UNCHANGED <<shown, tokens, timer, minted, expired, call, refresh, done, left, faults>>

Step(c) ==
    \/ \E kind \in Kinds[c] : Begin(c, kind)
    \/ Serve(c) \/ \E s \in Sessions : SignIn(c, s)
    \/ WaitShared(c) \/ RefreshItself(c) \/ SignedIn(c) \/ Me(c) \/ LoggedOut(c) \/ Returned(c)
    \/ NetworkError(c) \/ ItselfRefreshed(c)

Next ==
    \/ \E c \in Calls : Step(c)
    \/ \E o \in Owners : ServeRefresh(o) \/ RefreshError(o)
    \/ TimerFires \/ SharedRefreshed \/ TimerRefreshed
    \/ \E kind \in {"access", "csrf"} : Expire(kind)
    \/ \E s \in Sessions : EndSession(s) \/ SignInElsewhere(s)

Spec == Init /\ [][Next]_vars

-----------------------------------------------------------------------------
(* Properties *)

Tokens == [of : Sessions, no : Nat] \cup {None}

TypeOK ==
    /\ shown \in Sessions \cup {None} /\ access \in Tokens /\ csrf \in Tokens /\ timer \in BOOLEAN
    /\ cookie \in Sessions \cup {None} /\ live \subseteq Sessions

\* However calls, their refreshes and those of the timer interleave, a tab at rest shows the user
\* whose tokens it sends, and nobody when it has none or has been signed out of, whatever the timer
\* and a reload may do: unless a sign-in, a sign-out, another tab or the end of the session crosses
\* them, or the network fails.
ShowsWhoItSpeaksFor ==
    Quiet /\ ~crossed /\ faults = 0 =>
        /\ IF access = None THEN shown = None ELSE shown = access.of
        /\ left => access = None

\* A write is carried out once, however often it is sent, and in the name of the user who was
\* shown when it was made unless something crossed it.
WritesOnceInTheirName ==
    \A d, e \in done :
        /\ d.call = e.call => d = e
        /\ ~crossed /\ faults = 0 => d.name = d.asker
=============================================================================
