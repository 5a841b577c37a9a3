---------------------------- MODULE AbuseCounters ----------------------------
(***************************************************************************)
(* The counters that slow down who asks too often: AbuseService, the login *)
(* that consults it (src/src/auth/auth.service.ts) and the count of slugs  *)
(* that were not found (src/src/invitation/invitation.service.ts).  They   *)
(* are values in the cache, and but for one command of Redis each is read  *)
(* in one await and stored, one higher, in a later one.                    *)
(*                                                                         *)
(* Failures: a login is refused when its email or its address has reached  *)
(* the limit; a wrong password adds one to both, a right one deletes both. *)
(* A lookup of a slug is refused in the same way, and adds one to the      *)
(* count it has read at its start.                                         *)
(* Rates: a request is refused when too many before it lie in the window.  *)
(* Time is the order of arrival: request n carries the time n, and what    *)
(* arrived up to horizon has left the window.                              *)
(***************************************************************************)
EXTENDS Naturals, FiniteSets

CONSTANTS Handlers,     \* calls that can be served at the same time
          Emails,       \* login:fail:<email>
          Addresses,    \* login:fail:ip:<address>
          Visitors,     \* slug-bruteforce:<address>
          Rates,        \* rate-limit:<purpose>:<who>
          Limit,        \* Limit[k]: failures that lock k, or requests let in per window
          MaxArrivals,  \* bound: requests that are counted against a rate
          MaxFails,     \* bound: a count left over from before it was cleared can grow on
          Nil

Counted == Emails \cup Addresses \cup Visitors

ASSUME ConstantsAssumption ==
    /\ IsFiniteSet(Handlers) /\ Handlers # {}
    /\ Emails \cap Addresses = {} /\ Emails \cap Visitors = {} /\ Addresses \cap Visitors = {}
    /\ Counted \cap Rates = {}
    /\ Limit \in [Counted \cup Rates -> Nat \ {0}]
    /\ MaxArrivals \in Nat /\ MaxFails \in Nat
    /\ Nil \notin Counted \cup Rates

VARIABLES fails,    \* fails[k]: the count cached for k, 0 if there is none
          log,      \* log[r]: the times stored for the rate r
          redis,    \* the cache is a Redis, whose commands checkRateLimit sends at once
          arrivals, \* requests that have been counted against a rate so far
          horizon,  \* the last of them that has left the window
          at,       \* at[h]: the await handler h is about to issue
          email,    \* email[h]: the email of a login
          address,  \* address[h]: where it is from, or the key of a visitor or of a rate
          seen,     \* seen[h]: the count h has read
          copy,     \* copy[h]: the times h has read
          time,     \* time[h]: the request's own time
          edge,     \* edge[h]: the horizon at that time
          made,     \* history, made[k]: failures recorded since k was last cleared
          admitted, \* history, admitted[r]: requests let in
          blurred   \* history: keys stored from a stale read

actual == <<fails, log, redis, arrivals, horizon, at, email, address, seen, copy, time, edge>>
vars == <<actual, made, admitted, blurred>>

counters == <<fails, log>>
clock == <<arrivals, horizon>>
subject == <<email, address, time, edge>>

LoginSteps == {"checkEmail", "checkAddress", "test", "readEmail", "storeEmail", "readAddress",
               "clearEmail", "clearAddress"}
Steps == LoginSteps \cup {"storeAddress", "checkVisitor", "lookup", "count", "readLog", "storeLog"}

\* the key of the await a handler is at
Key(h) ==
    IF at[h] \in {"checkEmail", "readEmail", "storeEmail", "clearEmail"} THEN email[h]
                                                                         ELSE address[h]

-----------------------------------------------------------------------------
Goto(h, step) == at' = [at EXCEPT ![h] = step] /\ UNCHANGED <<subject, seen, copy>>

End(h) ==
    /\ at' = [at EXCEPT ![h] = "idle"]
    /\ email' = [email EXCEPT ![h] = Nil]
    /\ address' = [address EXCEPT ![h] = Nil]
    /\ seen' = [seen EXCEPT ![h] = 0]
    /\ copy' = [copy EXCEPT ![h] = {}]
    /\ time' = [time EXCEPT ![h] = 0]
    /\ edge' = [edge EXCEPT ![h] = 0]

Begin(h, step, e, a) ==
    /\ at[h] = "idle"
    /\ at' = [at EXCEPT ![h] = step]
    /\ email' = [email EXCEPT ![h] = e]
    /\ address' = [address EXCEPT ![h] = a]
    /\ UNCHANGED <<counters, redis, seen, copy>>

-----------------------------------------------------------------------------
(* AuthService.login with checkLoginBruteForce, recordLoginFailure and      *)
(* resetLoginFailures                                                       *)

BeginLogin(h) ==
    /\ \E e \in Emails, a \in Addresses : Begin(h, "checkEmail", e, a)
    /\ UNCHANGED <<clock, time, edge>>

\* mutant: the failure that makes up the limit does not lock yet
Locked_Late(k) == fails[k] > Limit[k]

Locked(k) == fails[k] >= Limit[k]

CheckLogin(h) ==
    /\ at[h] \in {"checkEmail", "checkAddress"}
    /\ IF Locked(Key(h))
       THEN End(h)
       ELSE Goto(h, IF at[h] = "checkEmail" THEN "checkAddress" ELSE "test")
    /\ UNCHANGED <<counters, redis, clock>>

\* no such user, no password or a wrong one; right, but deactivated; or right
Test(h) ==
    /\ at[h] = "test"
    /\ Goto(h, "readEmail") \/ End(h) \/ Goto(h, "clearEmail")
    /\ UNCHANGED <<counters, redis, clock>>

ReadCount(h) ==
    /\ at[h] \in {"readEmail", "readAddress"}
    /\ fails[Key(h)] < MaxFails
    /\ seen' = [seen EXCEPT ![h] = fails[Key(h)]]
    /\ at' = [at EXCEPT ![h] = IF at[h] = "readEmail" THEN "storeEmail" ELSE "storeAddress"]
    /\ UNCHANGED <<counters, redis, clock, subject, copy>>

\* mutant: the count starts anew at each failure
StoreCount_Anew(h) ==
    /\ at[h] \in {"storeEmail", "storeAddress"}
    /\ fails' = [fails EXCEPT ![Key(h)] = 1]
    /\ IF at[h] = "storeEmail" THEN Goto(h, "readAddress") ELSE End(h)
    /\ UNCHANGED <<log, redis, clock>>

\* also the last write of a lookup of a slug
StoreCount(h) ==
    /\ at[h] \in {"storeEmail", "storeAddress"}
    /\ fails' = [fails EXCEPT ![Key(h)] = seen[h] + 1]
    /\ IF at[h] = "storeEmail" THEN Goto(h, "readAddress") ELSE End(h)
    /\ UNCHANGED <<log, redis, clock>>

ClearCount(h) ==
    /\ at[h] \in {"clearEmail", "clearAddress"}
    /\ fails' = [fails EXCEPT ![Key(h)] = 0]
    /\ IF at[h] = "clearEmail" THEN Goto(h, "clearAddress") ELSE End(h)
    /\ UNCHANGED <<log, redis, clock>>

-----------------------------------------------------------------------------
(* InvitationService.findBySlug, what it does with its counter *)

BeginLookup(h) ==
    /\ \E v \in Visitors : Begin(h, "checkVisitor", Nil, v)
    /\ UNCHANGED <<clock, time, edge>>

\* what is read here is what is stored, one higher, after the query
CheckVisitor(h) ==
    /\ at[h] = "checkVisitor"
    /\ IF Locked(Key(h))
       THEN End(h)
       ELSE /\ at' = [at EXCEPT ![h] = "lookup"]
            /\ seen' = [seen EXCEPT ![h] = fails[Key(h)]]
            /\ UNCHANGED <<subject, copy>>
    /\ UNCHANGED <<counters, redis, clock>>

\* found, or known not to exist: not counted
LookUp(h) ==
    /\ at[h] = "lookup"
    /\ Goto(h, "storeAddress") \/ End(h)
    /\ UNCHANGED <<counters, redis, clock>>

-----------------------------------------------------------------------------
(* AbuseService.checkRateLimit *)

BeginLimited(h) ==
    /\ arrivals < MaxArrivals
    /\ \E r \in Rates : Begin(h, IF redis THEN "count" ELSE "readLog", Nil, r)
    /\ arrivals' = arrivals + 1
    /\ time' = [time EXCEPT ![h] = arrivals + 1]
    /\ edge' = [edge EXCEPT ![h] = horizon]
    /\ UNCHANGED horizon

\* the times that lie in the window of a request that is served
Recent(h, times) == {n \in times : n > edge[h]}

\* MULTI: zAdd, zRemRangeByScore, zCard, pExpire; who is refused is counted as well
CountInRedis(h) ==
    /\ at[h] = "count"
    /\ log' = [log EXCEPT ![Key(h)] = Recent(h, @ \cup {time[h]})]
    /\ End(h)
    /\ UNCHANGED <<fails, redis, clock>>

\* mutant: the request that fills the window is let in once more
ReadLog_Late(h) ==
    /\ at[h] = "readLog"
    /\ IF Cardinality(Recent(h, log[Key(h)])) > Limit[Key(h)]
       THEN End(h)
       ELSE /\ at' = [at EXCEPT ![h] = "storeLog"]
            /\ copy' = [copy EXCEPT ![h] = log[Key(h)]]
            /\ UNCHANGED <<subject, seen>>
    /\ UNCHANGED <<counters, redis, clock>>

ReadLog(h) ==
    /\ at[h] = "readLog"
    /\ IF Cardinality(Recent(h, log[Key(h)])) >= Limit[Key(h)]
       THEN End(h)
       ELSE /\ at' = [at EXCEPT ![h] = "storeLog"]
            /\ copy' = [copy EXCEPT ![h] = log[Key(h)]]
            /\ UNCHANGED <<subject, seen>>
    /\ UNCHANGED <<counters, redis, clock>>

StoreLog(h) ==
    /\ at[h] = "storeLog"
    /\ log' = [log EXCEPT ![Key(h)] = Recent(h, copy[h]) \cup {time[h]}]
    /\ End(h)
    /\ UNCHANGED <<fails, redis, clock>>

-----------------------------------------------------------------------------
\* fifteen minutes, or one, since the count was last stored
ExpireCount(k) ==
    /\ fails[k] # 0
    /\ fails' = [fails EXCEPT ![k] = 0]
    /\ UNCHANGED <<log, redis, clock, at, subject, seen, copy>>

\* time passes: the oldest request leaves the window
Slide ==
    /\ horizon < arrivals
    /\ horizon' = horizon + 1
    /\ UNCHANGED <<counters, redis, arrivals, at, subject, seen, copy>>

\* a statement throws at any await; what is in the cache stays
Crash(h) ==
    /\ at[h] # "idle"
    /\ End(h)
    /\ UNCHANGED <<counters, redis, clock>>

Arrive(h) == BeginLogin(h) \/ BeginLookup(h) \/ BeginLimited(h)

Serve(h) ==
    \/ CheckLogin(h) \/ Test(h) \/ ReadCount(h) \/ StoreCount(h) \/ ClearCount(h)
    \/ CheckVisitor(h) \/ LookUp(h)
    \/ CountInRedis(h) \/ ReadLog(h) \/ StoreLog(h)

Step ==
    \/ \E h \in Handlers : Arrive(h) \/ Serve(h) \/ Crash(h)
    \/ \E k \in Counted : ExpireCount(k)
    \/ Slide

Init ==
    /\ fails = [k \in Counted |-> 0]
    /\ log = [r \in Rates |-> {}]
    /\ redis \in BOOLEAN
    /\ arrivals = 0
    /\ horizon = 0
    /\ at = [h \in Handlers |-> "idle"]
    /\ email = [h \in Handlers |-> Nil]
    /\ address = [h \in Handlers |-> Nil]
    /\ seen = [h \in Handlers |-> 0]
    /\ copy = [h \in Handlers |-> {}]
    /\ time = [h \in Handlers |-> 0]
    /\ edge = [h \in Handlers |-> 0]
    /\ made = [k \in Counted |-> 0]
    /\ admitted = [r \in Rates |-> {}]
    /\ blurred = {}

-----------------------------------------------------------------------------
(* The histories.  A key is blurred when a handler stores it from a read    *)
(* that is no longer so: the calls overlapped, or the count ran out between.*)

Blurs(h, k) ==
    /\ Key(h) = k
    /\ \/ at[h] \in {"storeEmail", "storeAddress"} /\ StoreCount(h) /\ seen[h] # fails[k]
       \/ at[h] = "storeLog" /\ StoreLog(h) /\ copy[h] # log[k]

Records(h, k) == at[h] \in {"storeEmail", "storeAddress"} /\ Key(h) = k /\ StoreCount(h)

Clears(h, k) == at[h] \in {"clearEmail", "clearAddress"} /\ Key(h) = k /\ ClearCount(h)

Admits(h, r) ==
    /\ Key(h) = r
    /\ \/ at[h] = "count" /\ CountInRedis(h) /\ Cardinality(log'[r]) <= Limit[r]
       \/ at[h] = "storeLog" /\ StoreLog(h)

Cleared ==
    {k \in Counted : ExpireCount(k) \/ \E h \in Handlers : Clears(h, k)}
        \cup {r \in Rates : horizon' = arrivals'}

\* a key is sharp again once nothing that was stored of it counts any more
Track ==
    /\ blurred' = (blurred \ Cleared)
           \cup {k \in Counted \cup Rates : \E h \in Handlers : Blurs(h, k)}
    /\ made' = [k \in Counted |->
           IF k \in Cleared \cup blurred' THEN 0
           ELSE IF \E h \in Handlers : Records(h, k) THEN made[k] + 1 ELSE made[k]]
    /\ admitted' = [r \in Rates |->
           {n \in admitted[r] \cup {time[h] : h \in {g \in Handlers : Admits(g, r)}} :
                n > horizon'}]

Next == Step /\ Track

Spec == Init /\ [][Next]_vars

-----------------------------------------------------------------------------
Times == 1..MaxArrivals

CounterTypes ==
    /\ fails \in [Counted -> Nat]
    /\ log \in [Rates -> SUBSET Times]
    /\ redis \in BOOLEAN
    /\ arrivals \in 0..MaxArrivals
    /\ horizon \in 0..arrivals

CallTypes ==
    /\ at \in [Handlers -> Steps \cup {"idle"}]
    /\ email \in [Handlers -> Emails \cup {Nil}]
    /\ address \in [Handlers -> Addresses \cup Visitors \cup Rates \cup {Nil}]
    /\ seen \in [Handlers -> Nat]
    /\ copy \in [Handlers -> SUBSET Times]
    /\ time \in [Handlers -> 0..arrivals]
    /\ edge \in [Handlers -> 0..horizon]

\* whom a call is about, and what a request has read
CallFacts(h) ==
    /\ at[h] \in LoginSteps => email[h] \in Emails /\ address[h] \in Addresses
    /\ at[h] = "storeAddress" => address[h] \in Addresses \cup Visitors
    /\ at[h] \in {"checkVisitor", "lookup"} => address[h] \in Visitors
    /\ at[h] \in {"count", "readLog", "storeLog"} => address[h] \in Rates /\ time[h] \in Times
    /\ at[h] = "storeLog" => Cardinality(Recent(h, copy[h])) < Limit[address[h]]
    /\ at[h] = "count" => redis
    /\ at[h] \in {"readLog", "storeLog"} => ~redis

CodeOK == CounterTypes /\ CallTypes /\ \A h \in Handlers : CallFacts(h)

(* Every variable stays within its type; each call is about a key of its    *)
(* own kind, and a request that is to be let in has found room.             *)
TypeOK ==
    /\ CodeOK
    /\ made \in [Counted -> Nat]
    /\ admitted \in [Rates -> SUBSET Times]
    /\ blurred \subseteq Counted \cup Rates

(* abuse.service.ts:82, auth.service.ts:142: a count is the number of       *)
(* failures recorded since it was last cleared, none of them lost, counted  *)
(* twice or left over, unless a call stored it from a read that another     *)
(* call, or the end of its time, had overtaken.                             *)
FailuresCounted == \A k \in Counted : k \notin blurred => fails[k] = made[k]

\* the calls that have found k not locked, and may still add to it or clear it
InFlight(k) ==
    {h \in Handlers :
        \/ email[h] = k /\ at[h] \in {"checkAddress", "test", "readEmail", "storeEmail", "clearEmail"}
        \/ address[h] = k /\ at[h] \in {"test", "readEmail", "storeEmail", "readAddress",
                                        "storeAddress", "clearEmail", "clearAddress", "lookup"}}

(* abuse.service.ts:69 "Account locked": of any number of calls at once, no *)
(* more wrong passwords (or slugs) than the limit and one for each other    *)
(* call are tried for a key, unless its count has lost one in that way.     *)
GuessesBounded ==
    \A k \in Counted : k \notin blurred =>
        made[k] + Cardinality(InFlight(k)) < Limit[k] + Cardinality(Handlers)

(* abuse.service.ts:127 "Too many RSVPs submitted", 136 "Too many uploads": *)
(* within a window no more requests than the limit are let in, always with  *)
(* Redis ("Redis atomic rate limiting", rsvp.service.ts:31), and without it *)
(* unless one stored the times from a read that another had overtaken.      *)
RateHeld ==
    \A r \in Rates : r \notin blurred \/ redis => Cardinality(admitted[r]) <= Limit[r]
=============================================================================
