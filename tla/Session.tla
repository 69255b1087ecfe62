------------------------------- MODULE Session -------------------------------
(***************************************************************************)
(* One signed-in account at its client: the tokens of OAuthClient in memory *)
(* and in the keychain slot that TokenStore keeps for it, and the requests  *)
(* RestClient makes with them: attempts, back-off, and the refresh of the   *)
(* access token, which runs an event loop of its own under the request.     *)
(*                                                                         *)
(* External: Google, which issues and revokes grants and takes requests,    *)
(* and QtKeychain, which works off its jobs one at a time in the order they *)
(* were started.                                                            *)
(*                                                                         *)
(* A grant is one sign-in: its refresh token, and the access tokens that    *)
(* come of it.  A user who signs in again gets a new grant.                 *)
(***************************************************************************)
EXTENDS Integers, Sequences, FiniteSets, SequencesExt

CONSTANTS
    Requests,
    Posts,              \* those whose verb is not idempotent
    kMaxAttempts,       \* RateLimiter::kMaxAttempts
    MaxGrants,          \* bound: sign-ins
    MaxUpsets           \* bound: sign-outs, access tokens that reach their time,
                        \* failures, resends and crashes, all together

ASSUME SessionAssumption ==
    /\ IsFiniteSet(Requests) /\ Posts \subseteq Requests
    /\ kMaxAttempts \in Nat \ {0} /\ MaxGrants \in Nat \ {0} /\ MaxUpsets \in Nat

VARIABLES
    tokens,     \* Impl::tokens
    fresh,      \* expiresAtUnix of the access token is more than a minute away
    slot,       \* the account's entry in the keychain
    jobs,       \* keychain jobs that have not finished
    frames,     \* refreshIfNeededLocked() calls on the stack, the last on top
    reqs,       \* what RestClient has of each request
    grants,     \* grants issued
    revokes,    \* revocations posted
    revoked,    \* grants Google has revoked
    signedIn,   \* the user signed in after the last sign-out
    crossed,    \* what was under way when the user last signed in or out
    faulted,    \* the slot is not what it was last to be, by a failure or a crash
    taken,      \* how often Gmail took each request
    resent,     \* how often the network stack sent each again by itself
    upsets

tokenVars   == <<tokens, fresh>>
storeVars   == <<slot, jobs>>
callVars    == <<frames, reqs>>
googleVars  == <<grants, revokes, revoked, taken, resent>>
userVars    == <<signedIn, crossed, faulted>>
vars == <<tokenVars, storeVars, callVars, googleVars, userVars, upsets>>

Grants == 1 .. MaxGrants

\* refreshToken and accessToken, by the grant they belong to; 0 is empty.
Tokens   == [grant : Grants \cup {0}, access : Grants \cup {0}]
NoTokens == [grant |-> 0, access |-> 0]
Issued(g) == [grant |-> g, access |-> g]

\* Tokens::valid().
valid(t) == t.grant # 0

Job == [op : {"load", "save", "erase"}, t : Tokens]
Load     == [op |-> "load", t |-> NoTokens]
Save(t)  == [op |-> "save", t |-> t]
Erase    == [op |-> "erase", t |-> NoTokens]

Queued(op) == \E i \in DOMAIN jobs : jobs[i].op = op

\* A nested event loop that waits for the answer to a refresh.
Frame == [req : Requests, grant : Grants, reply : {"none", "ok", "failed"}]

\* "refresh": below the request a nested loop runs.  "taken": Gmail did what it
\* asks, and the answer is on its way.
Request == [at : {"off", "refresh", "wire", "taken", "backoff", "ended", "gone"},
            attempt : Nat, refreshedOnce : BOOLEAN,
            token : Grants \cup {0},
            result : {"none", "ok", "Auth", "Network", "RateLimited", "Server", "Other"}]

NewRequest == [at |-> "off", attempt |-> 1, refreshedOnce |-> FALSE,
               token |-> 0, result |-> "none"]

\* The process has started: the client's constructor has asked for the slot.
Init ==
    /\ tokens = NoTokens /\ fresh = FALSE
    /\ grants \in 0 .. 1
    /\ slot = IF grants = 0 THEN NoTokens ELSE Issued(1)
    /\ jobs = <<Load>> /\ frames = <<>>
    /\ reqs = [r \in Requests |-> NewRequest]
    /\ revokes = {} /\ revoked = {}
    /\ signedIn = (grants = 1) /\ crossed = {} /\ faulted = FALSE
    /\ taken = [r \in Requests |-> 0] /\ resent = [r \in Requests |-> 0]
    /\ upsets = 0

Upset == upsets < MaxUpsets /\ upsets' = upsets + 1

-----------------------------------------------------------------------------
(* The user.                                                               *)

\* A load that will find something, and a refresh.
UnderWay == {c \in {"load", "refresh"} :
                \/ c = "load" /\ Queued("load") /\ slot # NoTokens
                \/ c = "refresh" /\ frames # <<>>}

\* The tokens of a finished sign-in reach the client of the account, and are
\* saved; once more with the address, which is the same to the slot.
adoptTokens ==
    /\ grants < MaxGrants
    /\ grants' = grants + 1
    /\ tokens' = Issued(grants') /\ fresh' = TRUE
    /\ jobs' = jobs \o <<Save(tokens'), Save(tokens')>>
    /\ signedIn' = TRUE /\ crossed' = UnderWay
    /\ UNCHANGED <<slot, callVars, revokes, revoked, taken, resent, faulted, upsets>>

signOut ==
    /\ Upset
    /\ tokens' = NoTokens /\ fresh' = FALSE
    /\ revokes' = IF valid(tokens) THEN revokes \cup {tokens.grant} ELSE revokes
    /\ jobs' = Append(jobs, Erase)
    /\ signedIn' = FALSE /\ crossed' = UnderWay
    /\ UNCHANGED <<slot, callVars, grants, revoked, taken, resent, faulted>>

\* The access token comes within a minute of its end.
Expire ==
    /\ fresh /\ Upset
    /\ fresh' = FALSE
    /\ UNCHANGED <<tokens, storeVars, callVars, googleVars, userVars>>

-----------------------------------------------------------------------------
(* The keychain works off its jobs; the callback runs with the end of a job. *)

\* Mutant of Hydrated: whatever the slot holds is taken.
HydratedAlways(t) == t

\* An empty slot does not clobber tokens that are valid.
Hydrated(t) == IF valid(t) \/ ~ valid(tokens) THEN t ELSE tokens

hydrateFromStore ==
    /\ jobs # <<>> /\ Head(jobs).op = "load"
    /\ jobs' = Tail(jobs)
    /\ tokens' = Hydrated(slot)
    /\ fresh' \in IF tokens' = tokens THEN {fresh} ELSE BOOLEAN
    /\ UNCHANGED <<slot, callVars, googleVars, userVars, upsets>>

WriteSlot ==
    /\ jobs # <<>> /\ Head(jobs).op \in {"save", "erase"}
    /\ slot' = Head(jobs).t /\ jobs' = Tail(jobs)
    /\ faulted' = (faulted /\ signedIn # valid(slot'))
    /\ UNCHANGED <<tokenVars, callVars, googleVars, signedIn, crossed, upsets>>

\* Reported in the log and nowhere else.
KeychainFails ==
    /\ jobs # <<>> /\ Upset
    /\ jobs' = Tail(jobs)
    /\ faulted' = TRUE
    /\ UNCHANGED <<tokenVars, slot, callVars, googleVars, signedIn, crossed>>

-----------------------------------------------------------------------------
(* RestClient and the tokens it asks for.                                  *)

\* A request that called back is no more than what it reported.
Ended(res) == [NewRequest EXCEPT !.at = "ended", !.result = res]
End(r, res) == [reqs EXCEPT ![r] = Ended(res)]

\* sendOnce() of request q in place of r, from accessTokenBlocking(force) to the
\* network: without valid tokens it calls back at once, and where there is
\* something to refresh it waits in a nested loop.
sendOnce(r, q, force) ==
    IF ~ valid(tokens)
    THEN /\ reqs' = [reqs EXCEPT ![r] = Ended("Auth")]
         /\ UNCHANGED frames
    ELSE IF fresh /\ ~ force
    THEN /\ reqs' = [reqs EXCEPT ![r] = [q EXCEPT !.at = "wire", !.token = tokens.access]]
         /\ UNCHANGED frames
    ELSE /\ reqs' = [reqs EXCEPT ![r] = [q EXCEPT !.at = "refresh"]]
         /\ frames' = Append(frames, [req |-> r, grant |-> tokens.grant, reply |-> "none"])

send(r) ==
    /\ reqs[r].at = "off"
    /\ sendOnce(r, NewRequest, FALSE)
    /\ UNCHANGED <<tokenVars, storeVars, googleVars, userVars, upsets>>

\* A 401 leads to one forced refresh; it is part of the answer's handler.
refreshOnce(r) == sendOnce(r, [reqs[r] EXCEPT !.refreshedOnce = TRUE], TRUE)

\* Mutant of Refreshed: the tokens are those from before the loop.
RefreshedAll(g) == Issued(g)

\* Only the access token is replaced, in whatever the tokens are by now.
Refreshed(g) == [tokens EXCEPT !.access = g]

\* Mutant of refreshReturns: a refresh that failed does not call back.
refreshReturnsSilent ==
    LET f == Last(frames)
    IN  /\ frames # <<>> /\ f.reply # "none"
        /\ frames' = Front(frames)
        /\ IF f.reply = "ok"
           THEN /\ tokens' = Refreshed(f.grant) /\ fresh' = TRUE
                /\ jobs' = Append(jobs, Save(tokens'))
                /\ reqs' = [reqs EXCEPT ![f.req].at = "wire", ![f.req].token = tokens'.access]
           ELSE UNCHANGED <<tokenVars, jobs, reqs>>
        /\ UNCHANGED <<slot, googleVars, userVars, upsets>>

\* Only the loop on top of the stack can return; those below wait for it, their
\* answer in or not.
refreshReturns ==
    LET f == Last(frames)
    IN  /\ frames # <<>> /\ f.reply # "none"
        /\ frames' = Front(frames)
        /\ IF f.reply = "ok"
           THEN /\ tokens' = Refreshed(f.grant) /\ fresh' = TRUE
                /\ jobs' = Append(jobs, Save(tokens'))
                /\ reqs' = [reqs EXCEPT ![f.req].at = "wire", ![f.req].token = tokens'.access]
           ELSE /\ reqs' = End(f.req, "Auth")
                /\ UNCHANGED <<tokenVars, jobs>>
        /\ UNCHANGED <<slot, googleVars, userVars, upsets>>

\* RateLimiter::nextDelayMs() is not zero.
retries(attempt) == attempt <= kMaxAttempts

backoff(r, kind) ==
    IF retries(reqs[r].attempt)
    THEN reqs' = [reqs EXCEPT ![r].at = "backoff", ![r].attempt = @ + 1]
    ELSE reqs' = End(r, kind)

\* Mutant of mayRetry: a POST is sent again as well.
mayRetryAll(r, status) == status \in {"none", "429", "5xx"}

\* GET and PUT are idempotent; any other verb is sent again only if Gmail says
\* that it did nothing.
mayRetry(r, status) ==
    status = "429" \/ (status \in {"none", "5xx"} /\ r \notin Posts)

Kind(status) ==
    CASE status = "none" -> "Network" [] status = "401" -> "Auth" [] status = "429" -> "RateLimited"
      [] status = "5xx" -> "Server" [] OTHER -> "Other"

\* The finished() handler of sendOnce.
onFinished(r, status) ==
    IF status = "2xx"
    THEN reqs' = End(r, "ok") /\ UNCHANGED frames
    ELSE IF status = "401" /\ ~ reqs[r].refreshedOnce
    THEN refreshOnce(r)
    ELSE IF mayRetry(r, status)
    THEN backoff(r, Kind(status)) /\ UNCHANGED frames
    ELSE reqs' = End(r, Kind(status)) /\ UNCHANGED frames

\* The timer of nextDelayMs().
backoffEnds(r) ==
    /\ reqs[r].at = "backoff"
    /\ sendOnce(r, reqs[r], FALSE)
    /\ UNCHANGED <<tokenVars, storeVars, googleVars, userVars, upsets>>

-----------------------------------------------------------------------------
(* Google.                                                                 *)

\* The revocation arrives, or it does not; nobody tries again.
Revoke(g) ==
    /\ g \in revokes
    /\ revokes' = revokes \ {g}
    /\ \/ revoked' = revoked \cup {g} /\ UNCHANGED upsets
       \/ Upset /\ UNCHANGED revoked
    /\ UNCHANGED <<tokenVars, storeVars, callVars, grants, taken, resent, userVars>>

\* The answer to a refresh ends the loop that waits for it.
RefreshAnswered(i) ==
    /\ i \in DOMAIN frames /\ frames[i].reply = "none"
    /\ \/ /\ frames[i].grant \notin revoked
          /\ frames' = [frames EXCEPT ![i].reply = "ok"]
          /\ UNCHANGED upsets
       \/ /\ frames' = [frames EXCEPT ![i].reply = "failed"]
          /\ IF frames[i].grant \in revoked THEN UNCHANGED upsets ELSE Upset
    /\ UNCHANGED <<tokenVars, storeVars, reqs, googleVars, userVars>>

\* Gmail takes a request with a token it knows.
Take(r) ==
    /\ reqs[r].at = "wire" /\ reqs[r].token \notin revoked
    /\ reqs' = [reqs EXCEPT ![r].at = "taken"]
    /\ taken' = [taken EXCEPT ![r] = @ + 1]
    /\ UNCHANGED <<tokenVars, storeVars, frames, grants, revokes, revoked, resent, userVars, upsets>>

\* The connection drops before a byte of the answer has come: the network stack of
\* Qt 6.4 sends the request again, whatever its verb, and RestClient hears of
\* nothing.  Where Gmail had not taken it, nothing changes.
Resent(r) ==
    /\ reqs[r].at = "taken" /\ Upset
    /\ reqs' = [reqs EXCEPT ![r].at = "wire"]
    /\ resent' = [resent EXCEPT ![r] = @ + 1]
    /\ UNCHANGED <<tokenVars, storeVars, frames, grants, revokes, revoked, taken, userVars>>

\* What was taken is answered, and a token that was revoked is refused.
Replied(r) ==
    /\ \/ reqs[r].at = "taken" /\ onFinished(r, "2xx")
       \/ reqs[r].at = "wire" /\ reqs[r].token \in revoked /\ onFinished(r, "401")
    /\ UNCHANGED <<tokenVars, storeVars, googleVars, userVars, upsets>>

\* Gmail refuses without doing anything; or it breaks, or the connection does,
\* before or after.
Failed(r) ==
    /\ \/ reqs[r].at = "wire" /\ \E s \in {"401", "429", "other"} : onFinished(r, s)
       \/ reqs[r].at \in {"wire", "taken"} /\ \E s \in {"5xx", "none"} : onFinished(r, s)
    /\ Upset
    /\ UNCHANGED <<tokenVars, storeVars, googleVars, userVars>>

\* The process dies, and starts again.
Crash ==
    /\ Upset
    /\ tokens' = NoTokens /\ fresh' = FALSE
    /\ jobs' = <<Load>> /\ frames' = <<>>
    /\ reqs' = [r \in Requests |-> IF reqs[r].at \in {"off", "ended"} THEN reqs[r]
                                   ELSE [NewRequest EXCEPT !.at = "gone"]]
    /\ \E S \in SUBSET revokes : revoked' = revoked \cup S
    /\ revokes' = {}
    /\ faulted' = (faulted \/ Queued("save") \/ Queued("erase"))
    /\ UNCHANGED <<slot, grants, taken, resent, signedIn, crossed>>

-----------------------------------------------------------------------------
Google ==
    \/ \E g \in Grants : Revoke(g)
    \/ \E i \in 1 .. Len(frames) : RefreshAnswered(i)
    \/ \E r \in Requests : Take(r) \/ Resent(r) \/ Replied(r) \/ Failed(r)

Keychain == hydrateFromStore \/ WriteSlot \/ KeychainFails

Client == refreshReturns \/ \E r \in Requests : send(r) \/ backoffEnds(r)

Next == adoptTokens \/ signOut \/ Expire \/ Keychain \/ Client \/ Google \/ Crash

Spec == Init /\ [][Next]_vars

\* Each refresh and each request is answered or fails, an answer is handled when
\* the stack above it has gone, and timers fire.
Fairness ==
    /\ WF_vars(refreshReturns)
    /\ \A i \in 1 .. Cardinality(Requests) : WF_vars(RefreshAnswered(i))
    /\ \A r \in Requests : /\ WF_vars(Take(r)) /\ WF_vars(Replied(r))
                           /\ WF_vars(backoffEnds(r))

FairSpec == Spec /\ Fairness

-----------------------------------------------------------------------------
\* Counts the framework of the other properties: the requests in a nested loop are
\* those on the stack, one frame each.
TypeOK ==
    /\ tokens \in Tokens /\ slot \in Tokens /\ fresh \in BOOLEAN
    /\ jobs \in Seq(Job) /\ frames \in Seq(Frame)
    /\ reqs \in [Requests -> Request]
    /\ grants \in 0 .. MaxGrants /\ revokes \subseteq Grants /\ revoked \subseteq Grants
    /\ signedIn \in BOOLEAN /\ crossed \subseteq {"load", "refresh"} /\ faulted \in BOOLEAN
    /\ taken \in [Requests -> Nat] /\ resent \in [Requests -> Nat]
    /\ \A r \in Requests : reqs[r].at = "refresh" <=> \E i \in DOMAIN frames : frames[i].req = r
    /\ \A i, j \in DOMAIN frames : frames[i].req = frames[j].req => i = j

\* An account that was signed out has no tokens, in memory from that moment and
\* in the keychain once the erasure is through, unless a load of tokens or a
\* refresh was under way, or the keychain failed; a refresh leaves an access
\* token at most.
SignedOutStaysOut ==
    ~ signedIn /\ ~ faulted =>
        /\ crossed = {} => tokens = NoTokens /\ (slot = NoTokens \/ Queued("erase"))
        /\ "load" \notin crossed => ~ valid(tokens) /\ (~ valid(slot) \/ Queued("erase"))

\* The access token is of the same sign-in as the refresh token, and a slot that
\* no job is about to write holds what memory does: a restart changes nothing.
TokensAgree ==
    crossed = {} /\ ~ faulted =>
        /\ tokens.access = tokens.grant
        /\ jobs = <<>> => slot = tokens

\* RestClient adds no copy of a POST to the one it sends: Gmail takes it once, and
\* once more for each time that the network stack sent it again below, whatever is
\* retried and refreshed meanwhile.  A request reported done was done, and of a
\* POST reported as refused Gmail took only copies that the network stack followed
\* with another; with no resend, that is none.
RequestsHonest ==
    \A r \in Requests :
        /\ r \in Posts => taken[r] <= resent[r] + 1
        /\ reqs[r].result = "ok" => taken[r] >= 1
        /\ r \in Posts /\ reqs[r].result \in {"Auth", "RateLimited", "Other"}
              => taken[r] <= resent[r]

\* A request calls back in the end, however often it is tried and wherever in the
\* stack of event loops it waits, unless the process dies.
RequestsEnd ==
    \A r \in Requests : (reqs[r].at # "off") ~> (reqs[r].at \in {"ended", "gone"})
=============================================================================
