--------------------------- MODULE AdminSession ---------------------------
(***************************************************************************)
(* Admin login, logout and settings updates (internal/app/app.go) over the *)
(* settings table (internal/state/state.go), with a password configured.   *)
(* A session token is a signed copy of the session epoch; logout raises    *)
(* the epoch, which is to revoke every token issued so far.                *)
(***************************************************************************)
EXTENDS LoginLimiter

CONSTANTS
  Requests,      \* admin requests being handled at the same time
  Nobody,        \* the client of an idle request
  FixedSecret,   \* is ADMIN_SESSION_SECRET set, so that it outlives the process?
  TorOverlaps,   \* may a logout happen while a settings update is being handled?
  MaxLogins,     \* bound: logins that succeed
  MaxLogouts,    \* bound: logouts
  MaxRestarts    \* bound: restarts of the process

ASSUME SessionAssumption ==
  /\ MaxLogins \in Nat /\ MaxLogouts \in Nat /\ MaxRestarts \in Nat
  /\ FixedSecret \in BOOLEAN /\ TorOverlaps \in BOOLEAN
  /\ Nobody \notin Clients
  /\ IsFiniteSet(Requests)

VARIABLES
  epoch,     \* settings.admin_session_epoch
  starts,    \* process starts so far: names the random secret
  issued,    \* session tokens handed out
  expired,   \* tokens older than eight hours
  logouts,   \* logouts so far
  revoked,   \* tokens that had been issued when some logout completed
  rpc,       \* where each request is
  client,    \* who sent it
  readEpoch  \* the session epoch it read

sessionVars == <<epoch, starts, issued, expired, logouts, revoked>>
requestVars == <<rpc, client, readEpoch>>
vars == <<limiterVars, sessionVars, requestVars>>

\* signSession: the n-th login signs the epoch with the secret of its process.
Secret == IF FixedSecret THEN 0 ELSE starts
Token(e) == [epoch |-> e, secret |-> Secret, number |-> Cardinality(issued) + 1]

\* isAdmin
Accepted(t) == t.epoch = epoch /\ t.secret = Secret /\ t \notin expired

Init ==
  /\ LimiterInit
  /\ epoch = 0 /\ starts = 0 /\ logouts = 0
  /\ issued = {} /\ expired = {} /\ revoked = {}
  /\ rpc = [q \in Requests |-> "idle"]
  /\ client = [q \in Requests |-> Nobody]
  /\ readEpoch = [q \in Requests |-> 0]

At(q, place) == rpc[q] = place
Goto(q, place) ==
  /\ rpc' = [rpc EXCEPT ![q] = place]
  /\ UNCHANGED <<client, readEpoch>>
Reply(q) ==
  /\ rpc' = [rpc EXCEPT ![q] = "idle"]
  /\ client' = [client EXCEPT ![q] = Nobody]
  /\ readEpoch' = [readEpoch EXCEPT ![q] = 0]

---------------------------------------------------------------------------
(* handleAdminLogin                                                        *)

\* The attempt is refused, or goes on to compare the password.
LoginArrives(q, c) ==
  /\ At(q, "idle")
  /\ CheckLimit(c)
  /\ IF Refused(c)
     THEN UNCHANGED requestVars
     ELSE /\ rpc' = [rpc EXCEPT ![q] = "compare"]
          /\ client' = [client EXCEPT ![q] = c]
          /\ UNCHANGED readEpoch
  /\ UNCHANGED sessionVars

WrongPassword(q) ==
  /\ At(q, "compare")
  /\ RecordFailure(client[q])
  /\ Reply(q)
  /\ UNCHANGED sessionVars

RightPassword(q) ==
  /\ At(q, "compare")
  /\ ClearFailures(client[q])
  /\ Goto(q, "loginRead")
  /\ UNCHANGED sessionVars

LoginReads(q) ==
  /\ At(q, "loginRead")
  /\ readEpoch' = [readEpoch EXCEPT ![q] = epoch]
  /\ rpc' = [rpc EXCEPT ![q] = "loginSign"]
  /\ UNCHANGED <<limiterVars, sessionVars, client>>

LoginIssues(q) ==
  /\ At(q, "loginSign") /\ Cardinality(issued) < MaxLogins
  /\ issued' = issued \cup {Token(readEpoch[q])}
  /\ Reply(q)
  /\ UNCHANGED <<limiterVars, epoch, starts, expired, logouts, revoked>>

---------------------------------------------------------------------------
(* requireAdmin, then handleAdminLogout or handleAdminTorUpdate             *)

Authorize(q, t, place) ==
  /\ At(q, "idle") /\ Accepted(t)
  /\ Goto(q, place)
  /\ UNCHANGED <<limiterVars, sessionVars>>

UpdateUnderWay == \E q \in Requests : rpc[q] = "torWrite"

\* Wrong: logging out only clears the cookie.
LogoutCookie(q) ==
  /\ At(q, "logout") /\ logouts < MaxLogouts
  /\ TorOverlaps \/ ~UpdateUnderWay
  /\ logouts' = logouts + 1
  /\ revoked' = issued
  /\ Reply(q)
  /\ UNCHANGED <<limiterVars, epoch, starts, issued, expired>>

\* BumpAdminSessionEpoch is one SQL statement.
Logout(q) ==
  /\ At(q, "logout") /\ logouts < MaxLogouts
  /\ TorOverlaps \/ ~UpdateUnderWay
  /\ epoch' = epoch + 1
  /\ logouts' = logouts + 1
  /\ revoked' = issued
  /\ Reply(q)
  /\ UNCHANGED <<limiterVars, starts, issued, expired>>

\* GetAdminSettings, then PutAdminSettings of all settings, in separate
\* transactions: the second writes back the epoch the first read.
TorReads(q) ==
  /\ At(q, "torRead")
  /\ readEpoch' = [readEpoch EXCEPT ![q] = epoch]
  /\ rpc' = [rpc EXCEPT ![q] = "torWrite"]
  /\ UNCHANGED <<limiterVars, sessionVars, client>>

TorWrites(q) ==
  /\ At(q, "torWrite")
  /\ epoch' = readEpoch[q]
  /\ Reply(q)
  /\ UNCHANGED <<limiterVars, starts, issued, expired, logouts, revoked>>

\* A state error ends the handler, as does an invalid Tor mode.
Fails(q) ==
  /\ rpc[q] \in {"loginRead", "loginSign", "logout", "torRead", "torWrite"}
  /\ Reply(q)
  /\ UNCHANGED <<limiterVars, sessionVars>>

---------------------------------------------------------------------------
\* Eight hours after the token was issued.
Expires(t) ==
  /\ t \in issued \ expired
  /\ expired' = expired \cup {t}
  /\ UNCHANGED <<limiterVars, epoch, starts, issued, logouts, revoked, requestVars>>

\* The limiter's table, the requests and, unless it is configured, the secret
\* go with the process; the settings stay.
Restart ==
  /\ starts < MaxRestarts
  /\ starts' = starts + 1
  /\ failures' = [c \in Clients |-> 0] /\ past' = {} /\ before' = {}
  /\ rpc' = [q \in Requests |-> "idle"]
  /\ client' = [q \in Requests |-> Nobody]
  /\ readEpoch' = [q \in Requests |-> 0]
  /\ UNCHANGED <<epoch, issued, expired, logouts, revoked>>

Next ==
  \/ \E q \in Requests :
       \/ \E c \in Clients : LoginArrives(q, c)
       \/ WrongPassword(q) \/ RightPassword(q) \/ LoginReads(q) \/ LoginIssues(q)
       \/ \E t \in issued, place \in {"logout", "torRead"} : Authorize(q, t, place)
       \/ Logout(q) \/ TorReads(q) \/ TorWrites(q) \/ Fails(q)
  \/ \E c \in Clients : WindowEnds(c) /\ UNCHANGED <<sessionVars, requestVars>>
  \/ \E t \in issued : Expires(t)
  \/ Restart

Spec == Init /\ [][Next]_vars

---------------------------------------------------------------------------
Tokens == [epoch : Nat, secret : Nat, number : Nat]
Places == {"idle", "compare", "loginRead", "loginSign", "logout", "torRead", "torWrite"}

\* Every variable stays in its range.
TypeOK ==
  /\ LimiterTypeOK
  /\ epoch \in Nat /\ starts \in Nat /\ logouts \in Nat
  /\ issued \subseteq Tokens /\ expired \subseteq issued /\ revoked \subseteq issued
  /\ rpc \in [Requests -> Places]
  /\ client \in [Requests -> Clients \cup {Nobody}]
  /\ readEpoch \in [Requests -> Nat]

\* A token that had been issued when an admin logged out is never accepted
\* again: not after later logins, settings updates, or a restart.
RevokedStaysRevoked == \A t \in revoked : ~Accepted(t)

\* The check and the count are separate critical sections, so requests that
\* overlap can exceed the limit on guesses, but by no more than their number.
GuessesBounded ==
  \A c \in Clients : failures[c] < MaxFailures + Cardinality(Requests)
=============================================================================
