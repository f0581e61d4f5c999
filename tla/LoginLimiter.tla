--------------------------- MODULE LoginLimiter ---------------------------
(***************************************************************************)
(* The per-client limit on admin login attempts (internal/app/app.go).     *)
(* Every operation here runs under loginMu; the login handler calls them   *)
(* in separate critical sections (see AdminSession).                       *)
(*                                                                         *)
(* A client is tracked while it has an entry in loginAttempts. Time is     *)
(* what matters of it: an entry is in its 15 minute window or past it, and *)
(* the tracked clients have an order, that of their lastSeen.              *)
(***************************************************************************)
EXTENDS Naturals, FiniteSets

CONSTANTS
  Clients,      \* client addresses
  MaxFailures,  \* maxLoginFailures
  MaxTracked    \* maxTrackedLoginClients

ASSUME LimiterAssumption == MaxFailures \in Nat \ {0} /\ MaxTracked \in Nat \ {0}

VARIABLES
  failures,  \* failed attempts of each client in its window; 0: not tracked
  past,      \* tracked clients whose window is over
  before     \* <<c, d>> if both are tracked and c was seen last before d was

limiterVars == <<failures, past, before>>

LimiterInit ==
  /\ failures = [c \in Clients |-> 0]
  /\ past = {}
  /\ before = {}

Tracked == {c \in Clients : failures[c] > 0}

\* The entries of gone are deleted.
Without(f, gone) == [c \in Clients |-> IF c \in gone THEN 0 ELSE f[c]]

\* Wrong: a deleted entry keeps its place in the order of eviction.
ForgetCounts(gone) ==
  /\ failures' = Without(failures, gone)
  /\ past' = past \ gone
  /\ UNCHANGED before

Forget(gone) ==
  /\ failures' = Without(failures, gone)
  /\ before' = {u \in before : u[1] \notin gone /\ u[2] \notin gone}
  /\ past' = past \ gone

\* Wrong: one attempt too many.
RefusedLate(c) == c \notin past /\ failures[c] > MaxFailures

\* loginRateLimited, which prunes first, says no or yes.
Refused(c) == c \notin past /\ failures[c] >= MaxFailures

CheckLimit(c) == Forget(past)

Oldest(kept) == CHOOSE c \in kept : \A d \in kept \ {c} : <<c, d>> \in before

\* Wrong: room is made when the table has outgrown its cap.
EvictedLate(c, kept) ==
  IF c \notin kept /\ Cardinality(kept) > MaxTracked THEN {Oldest(kept)} ELSE {}

\* recordLoginFailure: prune, make room for a client that is not tracked by
\* evicting the one seen longest ago, then count.
Evicted(c, kept) ==
  IF c \notin kept /\ Cardinality(kept) >= MaxTracked THEN {Oldest(kept)} ELSE {}

RecordFailure(c) ==
  LET gone == past \cup Evicted(c, Tracked \ past)
  IN /\ failures' = [Without(failures, gone) EXCEPT ![c] = @ + 1]
     /\ before' = {u \in Tracked' \X Tracked' : u[1] # c /\ (u[2] = c \/ u \in before)}
     /\ past' = {}

ClearFailures(c) == Forget({c})

\* The clock passes resetAt of a tracked client.
WindowEnds(c) ==
  /\ c \in Tracked \ past
  /\ past' = past \cup {c}
  /\ UNCHANGED <<failures, before>>

LimiterTypeOK ==
  /\ failures \in [Clients -> Nat]
  /\ past \subseteq Tracked
  /\ before \subseteq Tracked \X Tracked
  /\ \A c, d \in Tracked : c # d => ~(<<c, d>> \in before <=> <<d, c>> \in before)
  /\ \A c, d, e \in Tracked :
       <<c, d>> \in before /\ <<d, e>> \in before => <<c, e>> \in before /\ c # e

\* The table never outgrows its cap: eviction makes room in the critical
\* section that adds a client.
TableBounded == Cardinality(Tracked) <= MaxTracked
=============================================================================
