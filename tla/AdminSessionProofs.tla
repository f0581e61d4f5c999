------------------------- MODULE AdminSessionProofs -------------------------
(***************************************************************************)
(* Proofs about AdminSession, for any clients, requests and bounds.        *)
(***************************************************************************)
EXTENDS AdminSession, WellFoundedInduction, NaturalsInduction, FiniteSetTheorems, TLAPS

\* No token and no login under way is ahead of the stored epoch, a settings
\* update that is about to write read the stored epoch, and the epoch has moved
\* past every revoked token.
EpochInv ==
  /\ epoch \in Nat
  /\ rpc \in [Requests -> Places]
  /\ readEpoch \in [Requests -> Nat]
  /\ \A t \in issued : t.epoch \in Nat /\ t.epoch <= epoch
  /\ \A q \in Requests : rpc[q] = "loginSign" => readEpoch[q] <= epoch
  /\ \A q \in Requests : rpc[q] = "torWrite" => readEpoch[q] = epoch
  /\ \A t \in revoked : t.epoch \in Nat /\ t.epoch < epoch

\* Every step keeps the epochs in order, if no logout falls into an update.
LEMMA EpochStep == ASSUME ~TorOverlaps, EpochInv, [Next]_vars PROVE EpochInv'
<1> USE DEF EpochInv, Places, sessionVars, requestVars, At, Goto, Reply
<1>1. ASSUME NEW q \in Requests, NEW c \in Clients, LoginArrives(q, c) PROVE EpochInv'
  BY <1>1 DEF LoginArrives
<1>2. ASSUME NEW q \in Requests, WrongPassword(q) \/ RightPassword(q) PROVE EpochInv'
  BY <1>2 DEF WrongPassword, RightPassword
<1>3. ASSUME NEW q \in Requests, LoginReads(q) PROVE EpochInv'
  BY <1>3 DEF LoginReads
<1>4. ASSUME NEW q \in Requests, LoginIssues(q) PROVE EpochInv'
  BY <1>4 DEF LoginIssues, Token
<1>5. ASSUME NEW q \in Requests, NEW t \in issued, NEW place \in {"logout", "torRead"},
             Authorize(q, t, place)
      PROVE  EpochInv'
  BY <1>5 DEF Authorize
<1>6. ASSUME NEW q \in Requests, Logout(q) PROVE EpochInv'
  BY <1>6 DEF Logout, UpdateUnderWay
<1>7. ASSUME NEW q \in Requests, TorReads(q) PROVE EpochInv'
  BY <1>7 DEF TorReads
<1>8. ASSUME NEW q \in Requests, TorWrites(q) PROVE EpochInv'
  BY <1>8 DEF TorWrites
<1>9. ASSUME NEW q \in Requests, Fails(q) PROVE EpochInv'
  BY <1>9 DEF Fails
<1>10. ASSUME NEW c \in Clients, WindowEnds(c), UNCHANGED <<sessionVars, requestVars>>
       PROVE  EpochInv'
  BY <1>10
<1>11. ASSUME NEW t \in issued, Expires(t) PROVE EpochInv'
  BY <1>11 DEF Expires
<1>12. CASE Restart
  BY <1>12 DEF Restart
<1>13. CASE UNCHANGED vars
  BY <1>13 DEF vars
<1> QED BY <1>1, <1>2, <1>3, <1>4, <1>5, <1>6, <1>7, <1>8, <1>9, <1>10, <1>11, <1>12, <1>13
        DEF Next

\* If no logout falls into a settings update, logging out revokes for good.
THEOREM LogoutRevokes ==
  ASSUME ~TorOverlaps
  PROVE  Spec => []RevokedStaysRevoked
<1>1. Init => EpochInv
  BY DEF Init, EpochInv, Places
<1>2. EpochInv /\ [Next]_vars => EpochInv'
  BY EpochStep
<1>3. EpochInv => RevokedStaysRevoked
  BY DEF EpochInv, RevokedStaysRevoked, Accepted
<1> QED BY <1>1, <1>2, <1>3, PTL DEF Spec

-----------------------------------------------------------------------------
(* The limit on guesses.                                                   *)

\* The requests that have passed the limit and have yet to compare a password.
Comparing(c) == {q \in Requests : rpc[q] = "compare" /\ client[q] = c}

\* Once a client has used up its guesses, the attempts that passed the limit
\* before are all that can still be counted.
GuessInv ==
  /\ failures \in [Clients -> Nat]
  /\ rpc \in [Requests -> Places]
  /\ client \in [Requests -> Clients \cup {Nobody}]
  /\ \A q \in Requests : rpc[q] = "compare" => client[q] \in Clients
  /\ \A c \in Clients :
       failures[c] >= MaxFailures =>
         failures[c] + Cardinality(Comparing(c)) < MaxFailures + Cardinality(Requests)

\* The numbers of requests are numbers.
LEMMA Counts ==
  /\ Cardinality(Requests) \in Nat
  /\ \A c : /\ IsFiniteSet(Comparing(c))
            /\ Cardinality(Comparing(c)) \in Nat
            /\ Cardinality(Comparing(c)) <= Cardinality(Requests)
<1>1. \A c : Comparing(c) \subseteq Requests
  BY DEF Comparing
<1> QED BY <1>1, FS_Subset, FS_CardinalityType, SessionAssumption

\* A step that counts no failure and lets nobody with used up guesses pass.
LEMMA FewerGuesses ==
  ASSUME GuessInv,
         failures' \in [Clients -> Nat],
         rpc' \in [Requests -> Places],
         client' \in [Requests -> Clients \cup {Nobody}],
         \A q \in Requests : rpc'[q] = "compare" => client'[q] \in Clients,
         \A c \in Clients : /\ failures'[c] <= failures[c]
                            /\ failures'[c] < MaxFailures \/ Comparing(c)' \subseteq Comparing(c)
  PROVE  GuessInv'
<1> SUFFICES ASSUME NEW c \in Clients, failures'[c] >= MaxFailures
             PROVE  failures'[c] + Cardinality(Comparing(c)') < MaxFailures + Cardinality(Requests)
  BY DEF GuessInv
<1>1. failures[c] \in Nat /\ failures'[c] \in Nat /\ MaxFailures \in Nat
  BY LimiterAssumption DEF GuessInv
<1>2. Cardinality(Comparing(c)') <= Cardinality(Comparing(c)) /\ Cardinality(Comparing(c)') \in Nat
  BY <1>1, Counts, FS_Subset, FS_CardinalityType
<1> QED BY <1>1, <1>2, Counts DEF GuessInv

\* Forgetting clients takes failures away.
LEMMA WithoutIsLess ==
  ASSUME NEW f \in [Clients -> Nat], NEW gone
  PROVE  /\ Without(f, gone) \in [Clients -> Nat]
         /\ \A c \in Clients : Without(f, gone)[c] \in {0, f[c]} /\ Without(f, gone)[c] <= f[c]
         /\ \A c \in Clients : c \in gone => Without(f, gone)[c] = 0
  BY DEF Without

\* The step that counts a failure ends the attempt it counts; the step that lets
\* an attempt pass finds guesses left.
LEMMA GuessStep == ASSUME GuessInv, [Next]_vars PROVE GuessInv'
<1> USE LimiterAssumption
<1>1. ASSUME NEW q \in Requests, NEW c \in Clients, LoginArrives(q, c) PROVE GuessInv'
  <2>1. failures' = Without(failures, past)
    BY <1>1 DEF LoginArrives, CheckLimit, Forget
  <2>2. \A d \in Clients : d # c => Comparing(d)' \subseteq Comparing(d)
    BY <1>1 DEF LoginArrives, requestVars, Comparing, GuessInv, At
  <2>3. failures'[c] < MaxFailures \/ Comparing(c)' \subseteq Comparing(c)
    <3>1. CASE Refused(c)
      BY <1>1, <3>1 DEF LoginArrives, requestVars, Comparing
    <3>2. CASE ~Refused(c)
      BY <2>1, <3>2, WithoutIsLess DEF Refused, GuessInv
    <3> QED BY <3>1, <3>2
  <2>4. /\ rpc' \in [Requests -> Places]
        /\ client' \in [Requests -> Clients \cup {Nobody}]
        /\ \A p \in Requests : rpc'[p] = "compare" => client'[p] \in Clients
    BY <1>1 DEF LoginArrives, requestVars, GuessInv, Places
  <2> QED BY <2>1, <2>2, <2>3, <2>4, WithoutIsLess, FewerGuesses DEF GuessInv
<1>2. ASSUME NEW q \in Requests, WrongPassword(q) PROVE GuessInv'
  <2> DEFINE gone == past \cup Evicted(client[q], Tracked \ past)
             rest == Without(failures, gone)
  <2>1. /\ client[q] \in Clients
        /\ failures' = [rest EXCEPT ![client[q]] = @ + 1]
    BY <1>2 DEF WrongPassword, RecordFailure, GuessInv, At
  <2> HIDE DEF rest
  <2>2. /\ rest \in [Clients -> Nat]
        /\ \A c \in Clients : rest[c] <= failures[c]
    BY WithoutIsLess DEF rest, GuessInv
  <2>3. /\ rpc' = [rpc EXCEPT ![q] = "idle"] /\ client' = [client EXCEPT ![q] = Nobody]
        /\ rpc[q] = "compare"
    BY <1>2 DEF WrongPassword, Reply, At
  <2>4. /\ rpc' \in [Requests -> Places]
        /\ client' \in [Requests -> Clients \cup {Nobody}]
        /\ \A p \in Requests : rpc'[p] = "compare" => client'[p] \in Clients
    BY <2>3 DEF GuessInv, Places
  <2>5. \A c \in Clients : Comparing(c)' \subseteq Comparing(c)
    BY <2>3 DEF Comparing, GuessInv
  <2>6. \A c \in Clients :
          c = client[q] => Comparing(c)' = Comparing(c) \ {q} /\ q \in Comparing(c)
    BY <2>3, SessionAssumption DEF Comparing, GuessInv
  <2>7. failures' \in [Clients -> Nat]
    BY <2>1, <2>2
  <2> SUFFICES ASSUME NEW c \in Clients, failures'[c] >= MaxFailures
               PROVE  failures'[c] + Cardinality(Comparing(c)')
                        < MaxFailures + Cardinality(Requests)
    BY <2>4, <2>7 DEF GuessInv
  <2>8. failures[c] \in Nat /\ rest[c] \in Nat /\ MaxFailures \in Nat
    BY <2>2 DEF GuessInv
  <2>9. CASE c = client[q]
    <3>1. failures'[c] <= failures[c] + 1
      BY <2>1, <2>2, <2>8, <2>9
    <3>2. Cardinality(Comparing(c)') = Cardinality(Comparing(c)) - 1
      BY <2>6, <2>9, Counts, FS_RemoveElement
    <3>3. failures'[c] \in Nat
      BY <2>7
    <3> QED BY <2>8, <3>1, <3>2, <3>3, Counts DEF GuessInv
  <2>10. CASE c # client[q]
    <3>1. failures'[c] <= failures[c] /\ failures'[c] \in Nat
      BY <2>1, <2>2, <2>7, <2>10
    <3>2. /\ Cardinality(Comparing(c)') \in Nat
          /\ Cardinality(Comparing(c)') <= Cardinality(Comparing(c))
      BY <2>5, Counts, FS_Subset, FS_CardinalityType
    <3> QED BY <2>8, <3>1, <3>2, Counts DEF GuessInv
  <2> QED BY <2>9, <2>10
<1>3. ASSUME NEW q \in Requests, RightPassword(q) PROVE GuessInv'
  <2>1. failures' = Without(failures, {client[q]})
    BY <1>3 DEF RightPassword, ClearFailures, Forget
  <2>2. rpc' = [rpc EXCEPT ![q] = "loginRead"] /\ client' = client
    BY <1>3 DEF RightPassword, Goto
  <2>3. /\ rpc' \in [Requests -> Places]
        /\ \A p \in Requests : rpc'[p] = "compare" => client'[p] \in Clients
        /\ \A c \in Clients : Comparing(c)' \subseteq Comparing(c)
    BY <2>2 DEF GuessInv, Places, Comparing
  <2> QED BY <2>1, <2>2, <2>3, WithoutIsLess, FewerGuesses DEF GuessInv
<1>4. ASSUME NEW q \in Requests,
             \/ LoginReads(q) \/ LoginIssues(q) \/ Logout(q) \/ TorReads(q) \/ TorWrites(q)
             \/ Fails(q)
             \/ \E t \in issued, place \in {"logout", "torRead"} : Authorize(q, t, place)
      PROVE  GuessInv'
  <2>1. failures' = failures
    BY <1>4 DEF LoginReads, LoginIssues, Logout, TorReads, TorWrites, Fails, Authorize, limiterVars
  <2>2. PICK place \in Places \ {"compare"}, sender \in {client[q], Nobody} :
          rpc' = [rpc EXCEPT ![q] = place] /\ client' = [client EXCEPT ![q] = sender]
    BY <1>4 DEF LoginReads, LoginIssues, Logout, TorReads, TorWrites, Fails, Authorize,
                Goto, Reply, Places, GuessInv
  <2>3. /\ rpc' \in [Requests -> Places]
        /\ client' \in [Requests -> Clients \cup {Nobody}]
        /\ \A p \in Requests : rpc'[p] = "compare" => client'[p] \in Clients
        /\ \A c \in Clients : Comparing(c)' \subseteq Comparing(c)
    BY <2>2 DEF GuessInv, Comparing
  <2> QED BY <2>1, <2>3, FewerGuesses DEF GuessInv
<1>5. CASE Restart
  <2>1. failures' = [c \in Clients |-> 0] /\ rpc' = [q \in Requests |-> "idle"]
        /\ client' = [q \in Requests |-> Nobody]
    BY <1>5 DEF Restart
  <2> QED BY <2>1 DEF GuessInv, Places
<1>6. ASSUME UNCHANGED <<failures, requestVars>> PROVE GuessInv'
  BY <1>6 DEF GuessInv, requestVars, Comparing
<1>7. ASSUME NEW c \in Clients, WindowEnds(c), UNCHANGED <<sessionVars, requestVars>>
      PROVE  GuessInv'
  BY <1>7, <1>6 DEF WindowEnds
<1>8. ASSUME NEW t \in issued, Expires(t) PROVE GuessInv'
  BY <1>8, <1>6 DEF Expires, limiterVars
<1>9. CASE UNCHANGED vars
  BY <1>9, <1>6 DEF vars, limiterVars
<1> QED BY <1>1, <1>2, <1>3, <1>4, <1>5, <1>7, <1>8, <1>9 DEF Next

\* Requests of one client that overlap can count more failures than the limit
\* (app.go:635), but by less than their number, however many clients there are.
THEOREM GuessesLimited == Spec => []GuessesBounded
<1>1. Init => GuessInv
  BY LimiterAssumption DEF Init, LimiterInit, GuessInv, Places
<1>2. GuessInv /\ [Next]_vars => GuessInv'
  BY GuessStep
<1>3. GuessInv => GuessesBounded
  BY Counts, LimiterAssumption DEF GuessInv, GuessesBounded
<1> QED BY <1>1, <1>2, <1>3, PTL DEF Spec

-----------------------------------------------------------------------------
(* The table of the limiter, and the types.                                *)

\* Of some tracked clients, finitely many, one was seen longest ago: the one that
\* the fewest of them were seen before.
LEMMA OldestIs ==
  ASSUME LimiterTypeOK, NEW kept, kept \subseteq Tracked, IsFiniteSet(kept), kept # {}
  PROVE  Oldest(kept) \in kept
<1> DEFINE Earlier(c) == {d \in kept : <<d, c>> \in before}
           Ranks == {Cardinality(Earlier(c)) : c \in kept}
<1>1. \A c : /\ IsFiniteSet(Earlier(c)) /\ Cardinality(Earlier(c)) \in Nat
  <2>1. \A c : Earlier(c) \subseteq kept
    OBVIOUS
  <2> QED BY <2>1, FS_Subset, FS_CardinalityType
<1>2. PICK m \in Ranks : \A n \in Ranks : ~(<<n, m>> \in OpToRel(<, Nat))
  <2>1. Ranks \subseteq Nat /\ Ranks # {}
    BY <1>1
  <2> QED BY <2>1, NatLessThanWellFounded, WFMin
<1>3. PICK c \in kept : m = Cardinality(Earlier(c))
  OBVIOUS
<1>4. ASSUME NEW d \in kept \ {c}, <<c, d>> \notin before PROVE FALSE
  <2>1. c \in Tracked /\ d \in Tracked /\ c # d
    BY <1>3
  <2>2. <<d, c>> \in before
    BY <1>4, <2>1 DEF LimiterTypeOK
  <2>3. d \in Earlier(c) /\ d \notin Earlier(d) /\ Earlier(d) \subseteq Earlier(c)
    BY <2>1, <2>2 DEF LimiterTypeOK
  <2> DEFINE some == Earlier(d)
             all == Earlier(c)
  <2>4. IsFiniteSet(all) /\ Cardinality(all) \in Nat /\ Cardinality(some) \in Nat
    BY <1>1
  <2>5. Cardinality(some) \in Ranks
    OBVIOUS
  <2>6. m = Cardinality(all)
    BY <1>3
  <2>7. some \subseteq all \ {d} /\ d \in all
    BY <2>3
  <2> HIDE DEF some, all, Ranks
  <2>8. Cardinality(all \ {d}) = Cardinality(all) - 1 /\ IsFiniteSet(all \ {d})
    BY <2>4, <2>7, FS_RemoveElement
  <2>9. Cardinality(some) <= Cardinality(all \ {d})
    BY <2>7, <2>8, FS_Subset
  <2>10. Cardinality(some) < m
    BY <2>4, <2>6, <2>8, <2>9
  <2>11. <<Cardinality(some), m>> \in OpToRel(<, Nat)
    BY <2>4, <2>6, <2>10 DEF OpToRel
  <2> QED BY <1>2, <2>5, <2>11
<1>5. \A d \in kept \ {c} : <<c, d>> \in before
  BY <1>4
<1> QED BY <1>3, <1>5 DEF Oldest

\* The table is as it should be.
LimiterInv == LimiterTypeOK /\ IsFiniteSet(Tracked) /\ TableBounded

\* Deleting entries leaves it so.
LEMMA ForgetKeeps == ASSUME LimiterInv, NEW gone, Forget(gone) PROVE LimiterInv'
<1>1. /\ failures \in [Clients -> Nat] /\ failures' = Without(failures, gone)
      /\ past' = past \ gone /\ before' = {u \in before : u[1] \notin gone /\ u[2] \notin gone}
  BY DEF Forget, LimiterInv, LimiterTypeOK
<1>2. failures' \in [Clients -> Nat] /\ Tracked' = Tracked \ gone
  BY <1>1 DEF Without, Tracked
<1> HIDE DEF Tracked
<1>3. LimiterTypeOK'
  <2>1. past' \subseteq Tracked' /\ before' \subseteq Tracked' \X Tracked'
    BY <1>1, <1>2 DEF LimiterInv, LimiterTypeOK
  <2>2. \A c, d \in Tracked' : <<c, d>> \in before' <=> <<c, d>> \in before
    BY <1>1, <1>2
  <2> QED BY <1>2, <2>1, <2>2 DEF LimiterInv, LimiterTypeOK
<1>4. IsFiniteSet(Tracked') /\ Cardinality(Tracked') <= Cardinality(Tracked)
      /\ Cardinality(Tracked') \in Nat /\ Cardinality(Tracked) \in Nat
  BY <1>2, FS_Subset, FS_CardinalityType DEF LimiterInv
<1> QED BY <1>3, <1>4, LimiterAssumption DEF LimiterInv, TableBounded

\* A window that ends changes no count and no order.
LEMMA WindowKeeps == ASSUME LimiterInv, NEW c \in Clients, WindowEnds(c) PROVE LimiterInv'
<1>1. failures' = failures /\ before' = before /\ past' = past \cup {c} /\ c \in Tracked
  BY DEF WindowEnds
<1>2. Tracked' = Tracked
  BY <1>1 DEF Tracked
<1> QED BY <1>1, <1>2 DEF LimiterInv, LimiterTypeOK, TableBounded

\* Counting a failure adds a client only where there is room.
LEMMA RecordKeeps == ASSUME LimiterInv, NEW c \in Clients, RecordFailure(c) PROVE LimiterInv'
<1> DEFINE gone == past \cup Evicted(c, Tracked \ past)
           rest == Without(failures, gone)
<1>1. /\ failures' = [rest EXCEPT ![c] = @ + 1] /\ past' = {}
      /\ before' = {u \in Tracked' \X Tracked' : u[1] # c /\ (u[2] = c \/ u \in before)}
  BY DEF RecordFailure
<1> HIDE DEF gone
<1>2. /\ rest \in [Clients -> Nat]
      /\ \A d \in Clients : rest[d] = IF d \in gone THEN 0 ELSE failures[d]
  BY DEF LimiterInv, LimiterTypeOK, Without
<1> HIDE DEF rest
<1>3. failures' \in [Clients -> Nat] /\ Tracked' = (Tracked \ gone) \cup {c}
  BY <1>1, <1>2 DEF Tracked, LimiterInv, LimiterTypeOK
<1>4. LimiterTypeOK'
  <2>1. past' \subseteq Tracked' /\ before' \subseteq Tracked' \X Tracked'
    BY <1>1
  <2>2. \A d, e \in Tracked' : <<d, e>> \in before' <=> d # c /\ (e = c \/ <<d, e>> \in before)
    BY <1>1
  <2>3. \A d \in Tracked' : d # c => d \in Tracked
    BY <1>3
  <2> HIDE DEF Tracked
  <2>4. ASSUME NEW d \in Tracked', NEW e \in Tracked', d # e
        PROVE  ~(<<d, e>> \in before' <=> <<e, d>> \in before')
    <3>1. CASE d = c
      BY <2>2, <2>4, <3>1
    <3>2. CASE e = c
      BY <2>2, <2>4, <3>2
    <3>3. CASE d # c /\ e # c
      <4>1. d \in Tracked /\ e \in Tracked
        BY <2>3, <3>3
      <4>2. ~(<<d, e>> \in before <=> <<e, d>> \in before)
        BY <2>4, <4>1 DEF LimiterInv, LimiterTypeOK
      <4> QED BY <2>2, <3>3, <4>2
    <3> QED BY <3>1, <3>2, <3>3
  <2>5. ASSUME NEW d \in Tracked', NEW e \in Tracked', NEW f \in Tracked',
               <<d, e>> \in before', <<e, f>> \in before'
        PROVE  <<d, f>> \in before' /\ d # f
    <3>1. d # c /\ e # c /\ <<d, e>> \in before /\ d \in Tracked /\ e \in Tracked
      BY <2>2, <2>3, <2>5
    <3>2. CASE f = c
      BY <2>2, <3>1, <3>2
    <3>3. CASE f # c
      <4>1. f \in Tracked /\ <<e, f>> \in before
        BY <2>2, <2>3, <2>5, <3>3
      <4>2. <<d, f>> \in before /\ d # f
        BY <3>1, <4>1 DEF LimiterInv, LimiterTypeOK
      <4> QED BY <2>2, <3>1, <4>2
    <3> QED BY <3>2, <3>3
  <2> QED BY <1>3, <2>1, <2>4, <2>5 DEF LimiterTypeOK
<1>5. IsFiniteSet(Tracked') /\ Cardinality(Tracked') <= MaxTracked
  <2> DEFINE kept == Tracked \ past
             left == Tracked \ gone
  <2>1. /\ IsFiniteSet(Tracked) /\ IsFiniteSet(kept) /\ Cardinality(kept) \in Nat
        /\ Cardinality(Tracked) \in Nat /\ Cardinality(kept) <= Cardinality(Tracked)
        /\ Cardinality(Tracked) <= MaxTracked /\ MaxTracked \in Nat \ {0}
    BY FS_Subset, FS_CardinalityType, LimiterAssumption DEF LimiterInv, TableBounded
  <2>2. left = kept \ Evicted(c, kept)
    BY DEF gone
  <2>3. Tracked' = left \cup {c}
    BY <1>3
  <2> HIDE DEF kept, left
  <2>4. /\ IsFiniteSet(left) /\ Cardinality(left) \in Nat
        /\ Cardinality(left) <= Cardinality(kept)
    BY <2>1, <2>2, FS_Subset, FS_CardinalityType
  <2>5. /\ IsFiniteSet(left \cup {c})
        /\ Cardinality(left \cup {c}) =
             IF c \in left THEN Cardinality(left) ELSE Cardinality(left) + 1
    BY <2>4, FS_AddElement
  <2>6. CASE c \in kept
    <3>1. Evicted(c, kept) = {}
      BY <2>6 DEF Evicted
    <3>2. c \in left
      BY <2>2, <2>6, <3>1
    <3> QED BY <2>1, <2>3, <2>4, <2>5, <3>2
  <2>7. CASE c \notin kept /\ ~(Cardinality(kept) >= MaxTracked)
    BY <2>1, <2>3, <2>4, <2>5, <2>7
  <2>8. CASE c \notin kept /\ Cardinality(kept) >= MaxTracked
    <3>1. Evicted(c, kept) = {Oldest(kept)}
      BY <2>8 DEF Evicted
    <3>2. kept # {} /\ kept \subseteq Tracked
      BY <2>1, <2>8, FS_EmptySet DEF kept
    <3>3. Oldest(kept) \in kept
      BY <2>1, <3>2, OldestIs DEF LimiterInv
    <3>4. Cardinality(left) = Cardinality(kept) - 1
      BY <2>1, <2>2, <3>1, <3>3, FS_RemoveElement
    <3> QED BY <2>1, <2>3, <2>4, <2>5, <3>4
  <2> QED BY <2>6, <2>7, <2>8
<1> QED BY <1>4, <1>5 DEF LimiterInv, TableBounded

\* What the types rest on besides: tokens are counted, and a request that
\* compares a password has a client.
SessionTypeOK ==
  /\ epoch \in Nat /\ starts \in Nat /\ logouts \in Nat
  /\ issued \subseteq Tokens /\ expired \subseteq issued /\ revoked \subseteq issued
  /\ IsFiniteSet(issued)
  /\ rpc \in [Requests -> Places]
  /\ client \in [Requests -> Clients \cup {Nobody}]
  /\ readEpoch \in [Requests -> Nat]
  /\ \A q \in Requests : rpc[q] = "compare" => client[q] \in Clients

\* Every step keeps the session's variables in their ranges.
LEMMA SessionStep == ASSUME SessionTypeOK, [Next]_vars PROVE SessionTypeOK'
<1> USE DEF SessionTypeOK, Places, sessionVars, requestVars, At, Goto, Reply
<1>1. ASSUME NEW q \in Requests, NEW c \in Clients, LoginArrives(q, c) PROVE SessionTypeOK'
  BY <1>1 DEF LoginArrives
<1>2. ASSUME NEW q \in Requests, WrongPassword(q) \/ RightPassword(q) PROVE SessionTypeOK'
  BY <1>2 DEF WrongPassword, RightPassword
<1>3. ASSUME NEW q \in Requests, LoginReads(q) PROVE SessionTypeOK'
  BY <1>3 DEF LoginReads
<1>4. ASSUME NEW q \in Requests, LoginIssues(q) PROVE SessionTypeOK'
  <2> DEFINE new == Token(readEpoch[q])
  <2>1. new \in Tokens
    <3>1. Cardinality(issued) \in Nat /\ readEpoch[q] \in Nat /\ Secret \in Nat
      BY FS_CardinalityType DEF Secret
    <3> QED BY <3>1 DEF Token, Tokens
  <2>2. IsFiniteSet(issued \cup {new})
    BY FS_AddElement
  <2> HIDE DEF new
  <2>3. /\ issued' = issued \cup {new}
        /\ UNCHANGED <<epoch, starts, expired, logouts, revoked>>
        /\ rpc' = [rpc EXCEPT ![q] = "idle"]
        /\ client' = [client EXCEPT ![q] = Nobody]
        /\ readEpoch' = [readEpoch EXCEPT ![q] = 0]
    BY <1>4 DEF LoginIssues, new
  <2> QED BY <2>1, <2>2, <2>3
<1>5. ASSUME NEW q \in Requests, NEW t \in issued, NEW place \in {"logout", "torRead"},
             Authorize(q, t, place)
      PROVE  SessionTypeOK'
  BY <1>5 DEF Authorize
<1>6. ASSUME NEW q \in Requests, Logout(q) PROVE SessionTypeOK'
  BY <1>6 DEF Logout
<1>7. ASSUME NEW q \in Requests, TorReads(q) PROVE SessionTypeOK'
  BY <1>7 DEF TorReads
<1>8. ASSUME NEW q \in Requests, TorWrites(q) PROVE SessionTypeOK'
  BY <1>8 DEF TorWrites
<1>9. ASSUME NEW q \in Requests, Fails(q) PROVE SessionTypeOK'
  BY <1>9 DEF Fails
<1>10. ASSUME UNCHANGED <<sessionVars, requestVars>> PROVE SessionTypeOK'
  BY <1>10
<1>11. ASSUME NEW t \in issued, Expires(t) PROVE SessionTypeOK'
  BY <1>11 DEF Expires
<1>12. CASE Restart
  BY <1>12 DEF Restart
<1>13. CASE UNCHANGED vars
  BY <1>10, <1>13 DEF vars
<1> QED BY <1>1, <1>2, <1>3, <1>4, <1>5, <1>6, <1>7, <1>8, <1>9, <1>10, <1>11, <1>12, <1>13
        DEF Next

\* A table without a tracked client is as it should be.
LEMMA EmptyTable ==
  ASSUME failures = [c \in Clients |-> 0], past = {}, before = {} PROVE LimiterInv
<1>1. Tracked = {} /\ failures \in [Clients -> Nat]
  BY DEF Tracked
<1> QED BY <1>1, FS_EmptySet, LimiterAssumption DEF LimiterInv, LimiterTypeOK, TableBounded

\* Every step of the session leaves the limiter's table as it should be: the
\* handlers change it only through the limiter's operations.
LEMMA LimiterStep == ASSUME SessionTypeOK, LimiterInv, [Next]_vars PROVE LimiterInv'
<1>1. ASSUME UNCHANGED limiterVars PROVE LimiterInv'
  BY <1>1 DEF limiterVars, LimiterInv, LimiterTypeOK, TableBounded, Tracked
<1>2. ASSUME NEW q \in Requests, NEW c \in Clients, LoginArrives(q, c) PROVE LimiterInv'
  BY <1>2, ForgetKeeps DEF LoginArrives, CheckLimit
<1>3. ASSUME NEW q \in Requests, WrongPassword(q) PROVE LimiterInv'
  <2>1. RecordFailure(client[q]) /\ client[q] \in Clients
    BY <1>3 DEF WrongPassword, At, SessionTypeOK
  <2> QED BY <2>1, RecordKeeps
<1>4. ASSUME NEW q \in Requests, RightPassword(q) PROVE LimiterInv'
  BY <1>4, ForgetKeeps DEF RightPassword, ClearFailures
<1>5. ASSUME NEW q \in Requests,
             \/ LoginReads(q) \/ LoginIssues(q) \/ Logout(q) \/ TorReads(q) \/ TorWrites(q)
             \/ Fails(q)
             \/ \E t \in issued, place \in {"logout", "torRead"} : Authorize(q, t, place)
      PROVE  LimiterInv'
  <2>1. UNCHANGED limiterVars
    BY <1>5 DEF LoginReads, LoginIssues, Logout, TorReads, TorWrites, Fails, Authorize, limiterVars
  <2> QED BY <1>1, <2>1
<1>6. ASSUME NEW c \in Clients, WindowEnds(c) PROVE LimiterInv'
  BY <1>6, WindowKeeps
<1>7. ASSUME NEW t \in issued, Expires(t) PROVE LimiterInv'
  BY <1>1, <1>7 DEF Expires, limiterVars
<1>8. CASE Restart
  <2>1. /\ failures' = [c \in Clients |-> 0] /\ past' = {} /\ before' = {}
    BY <1>8 DEF Restart
  <2>2. Tracked' = {} /\ failures' \in [Clients -> Nat]
    BY <2>1 DEF Tracked
  <2> QED BY <2>1, <2>2, FS_EmptySet, LimiterAssumption DEF LimiterInv, LimiterTypeOK, TableBounded
<1>9. CASE UNCHANGED vars
  BY <1>1, <1>9 DEF vars
<1> QED BY <1>2, <1>3, <1>4, <1>5, <1>6, <1>7, <1>8, <1>9 DEF Next

\* The invariant of the session and the limiter together.
THEOREM TableInvariant == Spec => [](SessionTypeOK /\ LimiterInv)
<1>1. Init => SessionTypeOK /\ LimiterInv
  <2>1. Init => SessionTypeOK
    BY FS_EmptySet DEF Init, SessionTypeOK, Places
  <2>2. Init => LimiterInv
    BY EmptyTable DEF Init, LimiterInit
  <2> QED BY <2>1, <2>2
<1>2. (SessionTypeOK /\ LimiterInv) /\ [Next]_vars => (SessionTypeOK /\ LimiterInv)'
  BY SessionStep, LimiterStep
<1> QED BY <1>1, <1>2, PTL DEF Spec

\* Every variable of the session and of the limiter stays in its range; above all
\* the order in which the tracked clients were seen (app.go:2481) stays total
\* and without cycles, through prunings, evictions and restarts.
THEOREM TypesCorrect == Spec => []TypeOK
<1>1. SessionTypeOK /\ LimiterInv => TypeOK
  BY DEF SessionTypeOK, LimiterInv, TypeOK
<1> QED BY <1>1, TableInvariant, PTL

\* The table of tracked clients never outgrows maxTrackedLoginClients
\* (app.go:2461): whoever was seen longest ago is found and makes room.
THEOREM TableCorrect == Spec => []TableBounded
<1>1. SessionTypeOK /\ LimiterInv => TableBounded
  BY DEF LimiterInv
<1> QED BY <1>1, TableInvariant, PTL
=============================================================================
