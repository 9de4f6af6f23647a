------------------------- MODULE EurekaClientProofs -------------------------
(***************************************************************************)
(* Safety of the registration client for every value of its constants.     *)
(***************************************************************************)
EXTENDS EurekaClient, TLAPS

\* How the owner's progress, the flag and the thread's label go together.
LifeInv ==
    /\ owner \in {"starting", "running"} => m_thread_running
    /\ owner \in {"stopping", "deleted"} => ~m_thread_running
    /\ pc = "unborn" <=> owner \in {"constructed", "starting"}
    /\ pc = "dead" => owner \in {"stopping", "deleted"}
    /\ owner = "deleted" => pc = "dead"

\* What a stop that has begun may already have cost, by the thread's label.
StopInv ==
    /\ owner \notin {"stopping", "deleted"} => stopAge = 0
    /\ pc \in {"first", "sleep"} => stopAge = 0
    /\ pc = "act" => stopAge <= HEART_BEAT_INTERVAL + SLEEP_SLACK
    /\ stopAge <= ROUND

\* How long the registry can have gone without news, by the calls it missed.
LeaseInv ==
    /\ pc \in {"unborn", "first"} => ~registered
    /\ registered /\ pc \in {"test", "sleep"} =>
          misses = MISS_CAP \/ leaseAge <= CURL_TIMEOUT + misses * ROUND
    /\ registered /\ pc = "act" =>
          misses = MISS_CAP \/ leaseAge <= (misses + 1) * ROUND

\* Every call that an entry missed and nobody answered is a failed try.
CountInv == registered /\ ~refused => GivenUp \/ try_count >= misses

IInv == TypeOK /\ LifeInv /\ StopInv /\ LeaseInv /\ CountInv

-----------------------------------------------------------------------------
(* Every request, whatever its fate, in terms of the state it changes.       *)

\* What curl_easy_perform can do to the registry and to the clock.
LEMMA PerformEffect ==
    ASSUME IInv, NEW renewal \in BOOLEAN, NEW handle \in BOOLEAN,
           NEW answered \in BOOLEAN, Perform(renewal, handle, answered)
    PROVE  \E d \in 0..CURL_TIMEOUT :
              /\ stopAge' = IF owner = "stopping" THEN stopAge + d ELSE stopAge
              /\ \/ /\ registered' = registered
                    /\ leaseAge' = AtMost(leaseAge + d, LEASE_DURATION + 1)
                    /\ misses' = AtMost(misses + 1, MISS_CAP)
                    /\ refused' = (refused \/ answered)
                 \/ /\ registered' = TRUE
                    /\ leaseAge' \in 0..d
                    /\ misses' = 0
                    /\ refused' = FALSE
<1>1. CASE ~handle /\ ~answered /\ Elapse(0) /\ Unapplied(answered, 0)
  <2>1. 0 \in 0..CURL_TIMEOUT
    BY ConstantsAssumption
  <2> QED BY <1>1, <2>1 DEF Elapse, Unapplied
<1>2. CASE \E d \in 0..CURL_TIMEOUT :
              /\ Elapse(d)
              /\ Unapplied(answered, d) \/ \E since \in 0..d : Applied(renewal, since)
  <2>1. PICK d \in 0..CURL_TIMEOUT :
              /\ Elapse(d)
              /\ Unapplied(answered, d) \/ \E since \in 0..d : Applied(renewal, since)
    BY <1>2
  <2>2. CASE Unapplied(answered, d)
    BY <2>1, <2>2 DEF Elapse, Unapplied
  <2>3. CASE \E since \in 0..d : Applied(renewal, since)
    BY <2>1, <2>3 DEF Elapse, Applied
  <2> QED BY <2>1, <2>2, <2>3
<1> QED BY <1>1, <1>2 DEF Perform

\* A request ends a round of the loop: from "first" or "act" the thread goes
\* back to the test, and the accounts of LeaseInv and StopInv still balance.
LEMMA RequestStep ==
    ASSUME IInv, NEW renewal \in BOOLEAN, NEW handle \in BOOLEAN,
           NEW answered \in BOOLEAN, Perform(renewal, handle, answered),
           pc \in {"first", "act"}, pc' = "test", UNCHANGED owned
    PROVE  /\ registered' \in BOOLEAN
           /\ leaseAge' \in 0..(LEASE_DURATION + 1)
           /\ misses' \in 0..MISS_CAP
           /\ refused' \in BOOLEAN
           /\ stopAge' \in Nat
           /\ m_res' \in BOOLEAN
           /\ LifeInv' /\ StopInv' /\ LeaseInv'
<1> USE ConstantsAssumption
<1>1. PICK d \in 0..CURL_TIMEOUT :
              /\ stopAge' = IF owner = "stopping" THEN stopAge + d ELSE stopAge
              /\ \/ /\ registered' = registered
                    /\ leaseAge' = AtMost(leaseAge + d, LEASE_DURATION + 1)
                    /\ misses' = AtMost(misses + 1, MISS_CAP)
                    /\ refused' = (refused \/ answered)
                 \/ /\ registered' = TRUE
                    /\ leaseAge' \in 0..d
                    /\ misses' = 0
                    /\ refused' = FALSE
  BY PerformEffect
<1>2. /\ registered' \in BOOLEAN
      /\ leaseAge' \in 0..(LEASE_DURATION + 1)
      /\ misses' \in 0..MISS_CAP
      /\ stopAge' \in Nat
  <2>1. CASE registered' = TRUE /\ leaseAge' \in 0..d /\ misses' = 0
    BY <1>1, <2>1 DEF IInv, TypeOK
  <2>2. CASE /\ registered' = registered
             /\ leaseAge' = AtMost(leaseAge + d, LEASE_DURATION + 1)
             /\ misses' = AtMost(misses + 1, MISS_CAP)
    <3>1. registered' \in BOOLEAN
      BY <2>2 DEF IInv, TypeOK
    <3>2. leaseAge' \in 0..(LEASE_DURATION + 1) /\ misses' \in 0..MISS_CAP
      BY <2>2 DEF IInv, TypeOK, AtMost
    <3>3. stopAge' \in Nat
      BY <1>1 DEF IInv, TypeOK
    <3> QED BY <3>1, <3>2, <3>3
  <2> QED BY <1>1, <2>1, <2>2
<1>3. LifeInv'
  BY DEF IInv, LifeInv, owned
<1>4. StopInv'
  BY <1>1 DEF IInv, TypeOK, StopInv, LifeInv, ROUND, owned
<1>5. LeaseInv'
  <2>1. ROUND \in Nat
    BY DEF ROUND
  <2>2. CASE registered' = TRUE /\ leaseAge' \in 0..d /\ misses' = 0
    BY <1>1, <2>1, <2>2 DEF LeaseInv
  <2>3. CASE /\ registered' = registered
             /\ leaseAge' = AtMost(leaseAge + d, LEASE_DURATION + 1)
             /\ misses' = AtMost(misses + 1, MISS_CAP)
    <3>1. SUFFICES ASSUME registered, misses' # MISS_CAP
                   PROVE  leaseAge' <= CURL_TIMEOUT + misses' * ROUND
      BY <2>3 DEF LeaseInv
    <3>2. pc = "act"
      BY <3>1 DEF IInv, LeaseInv
    <3>3. misses' = misses + 1 /\ misses # MISS_CAP
      BY <2>3, <3>1 DEF IInv, TypeOK, AtMost
    <3>4. leaseAge <= (misses + 1) * ROUND
      BY <3>1, <3>2, <3>3 DEF IInv, LeaseInv
    <3>5. leaseAge' <= leaseAge + CURL_TIMEOUT
      BY <2>3 DEF IInv, TypeOK, AtMost
    <3>6. (misses + 1) * ROUND \in Nat
      BY <2>1 DEF IInv, TypeOK
    <3> QED BY <1>2, <3>3, <3>4, <3>5, <3>6 DEF IInv, TypeOK
  <2> QED BY <1>1, <2>2, <2>3
<1>6. m_res' \in BOOLEAN /\ refused' \in BOOLEAN
  BY <1>1 DEF Perform, IInv, TypeOK
<1> QED BY <1>2, <1>3, <1>4, <1>5, <1>6

\* A request that is answered without effect ends the account of CountInv; one
\* that is not answered is counted, or leaves the client in its fallback.
LEMMA RequestCount ==
    ASSUME IInv, NEW renewal \in BOOLEAN, NEW handle \in BOOLEAN,
           NEW answered \in BOOLEAN, Perform(renewal, handle, answered),
           try_count' \in Nat,
           ~registered \/ answered \/ try_count' > MAX_TRY \/ try_count' = try_count + 1
    PROVE  CountInv'
<1> USE ConstantsAssumption
<1>1. \/ /\ registered' = registered
         /\ misses' = AtMost(misses + 1, MISS_CAP)
         /\ refused' = (refused \/ answered)
      \/ misses' = 0
  BY PerformEffect
<1>2. CASE misses' = 0
  BY <1>2 DEF CountInv
<1>3. CASE /\ registered' = registered
           /\ misses' = AtMost(misses + 1, MISS_CAP)
           /\ refused' = (refused \/ answered)
  <2>1. SUFFICES ASSUME registered, ~refused, ~answered, ~(try_count' > MAX_TRY)
                 PROVE  try_count' >= misses'
    BY <1>3 DEF CountInv, GivenUp
  <2>2. try_count' = try_count + 1 /\ try_count \in Nat
    BY <2>1 DEF IInv, TypeOK
  <2>3. try_count >= misses
    BY <2>1, <2>2 DEF IInv, CountInv, GivenUp
  <2>4. misses \in Nat /\ misses' <= misses + 1
    BY <1>3 DEF IInv, TypeOK, AtMost
  <2>5. misses' \in Nat
    BY <1>3 DEF IInv, TypeOK, AtMost
  <2> QED BY <2>2, <2>3, <2>4, <2>5
<1> QED BY <1>1, <1>2, <1>3

-----------------------------------------------------------------------------
(* The invariant is inductive.                                               *)

\* The constructor establishes it.
LEMMA InitIInv == Init => IInv
<1> USE ConstantsAssumption
<1> SUFFICES ASSUME Init PROVE IInv
  OBVIOUS
<1>1. TypeOK
  <2>1. m_thread_running \in BOOLEAN
    BY DEF Init, Construct
  <2>2. /\ try_count \in 0..(MAX_TRY + 1)
        /\ m_headers \in 0..HEADER_CAP
        /\ leaseAge \in 0..(LEASE_DURATION + 1)
        /\ misses \in 0..MISS_CAP
        /\ stopAge \in Nat
    BY DEF Init, Construct
  <2> QED BY <2>1, <2>2, Zenon DEF Init, Construct, TypeOK, Owners, Labels
<1>2. LifeInv /\ StopInv /\ LeaseInv /\ CountInv
  BY DEF Init, Construct, LifeInv, StopInv, LeaseInv, CountInv, ROUND
<1> QED BY <1>1, <1>2 DEF IInv

\* registerEureka and sendHeartBeat leave the handles and the list well typed.
LEMMA HandleTypes ==
    ASSUME TypeOK, NEW handle \in BOOLEAN,
           RegisterHandle(handle) \/ HeartBeatHandle(handle)
    PROVE  /\ m_curl_handler_register' \in BOOLEAN
           /\ m_curl_handler_heartbeat' \in BOOLEAN
           /\ m_headers' \in 0..HEADER_CAP
<1> USE ConstantsAssumption
<1>1. CASE RegisterHandle(handle)
  BY <1>1 DEF TypeOK, RegisterHandle, curl, AtMost
<1>2. CASE HeartBeatHandle(handle)
  BY <1>2 DEF TypeOK, HeartBeatHandle, curl
<1> QED BY <1>1, <1>2

\* The steps of heartBeatTimer preserve it.
LEMMA ThreadStep == IInv /\ Thread => IInv'
<1> USE ConstantsAssumption
<1> SUFFICES ASSUME IInv, Thread PROVE IInv'
  OBVIOUS
<1>1. CASE FirstRegister
  <2>1. PICK answered \in BOOLEAN : registerEureka(answered)
    BY <1>1 DEF FirstRegister
  <2>2. PICK handle \in BOOLEAN :
          RegisterHandle(handle) /\ Perform(FALSE, handle, answered)
    BY <2>1 DEF registerEureka
  <2>3. /\ registered' \in BOOLEAN
        /\ leaseAge' \in 0..(LEASE_DURATION + 1)
        /\ misses' \in 0..MISS_CAP
        /\ refused' \in BOOLEAN
        /\ stopAge' \in Nat
        /\ m_res' \in BOOLEAN
        /\ LifeInv' /\ StopInv' /\ LeaseInv'
    BY <1>1, <2>2, RequestStep DEF FirstRegister
  <2>4. TypeOK'
    BY <1>1, <2>2, <2>3, HandleTypes DEF IInv, TypeOK, FirstRegister, owned, Labels
  <2>5. CountInv'
    <3>1. ~registered /\ try_count' = try_count
      BY <1>1 DEF FirstRegister, IInv, LeaseInv
    <3>2. try_count' \in Nat
      BY <3>1 DEF IInv, TypeOK
    <3> QED BY <2>2, <3>1, <3>2, RequestCount
  <2> QED BY <2>3, <2>4, <2>5 DEF IInv
<1>2. CASE TestFlag
  <2>1. TypeOK'
    BY <1>2 DEF IInv, TypeOK, TestFlag, owned, curl, server, Labels
  <2>2. LifeInv' /\ StopInv'
    BY <1>2 DEF IInv, TypeOK, LifeInv, StopInv, TestFlag, owned, Owners, Labels, ROUND
  <2>3. LeaseInv'
    BY <1>2 DEF IInv, LeaseInv, TestFlag, server
  <2>4. CountInv'
    BY <1>2 DEF IInv, CountInv, GivenUp, TestFlag, server
  <2> QED BY <2>1, <2>2, <2>3, <2>4 DEF IInv
<1>3. CASE Sleep
  <2>1. PICK d \in SleepTimes :
          /\ leaseAge' = AtMost(leaseAge + d, LEASE_DURATION + 1)
          /\ Elapse(d)
    BY <1>3 DEF Sleep
  <2>2. d \in Nat /\ d <= HEART_BEAT_INTERVAL + SLEEP_SLACK
    BY DEF SleepTimes
  <2>3. TypeOK'
    BY <1>3, <2>1, <2>2 DEF IInv, TypeOK, Sleep, Elapse, AtMost, owned, curl, Labels
  <2>4. LifeInv' /\ StopInv'
    BY <1>3, <2>1, <2>2 DEF IInv, TypeOK, LifeInv, StopInv, Sleep, Elapse, owned, ROUND
  <2>5. LeaseInv'
    <3>1. SUFFICES ASSUME registered, misses # MISS_CAP
                   PROVE  leaseAge' <= (misses + 1) * ROUND
      BY <1>3 DEF LeaseInv, Sleep
    <3>2. leaseAge <= CURL_TIMEOUT + misses * ROUND
      BY <1>3, <3>1 DEF IInv, LeaseInv, Sleep
    <3>3. /\ misses * ROUND \in Nat
          /\ (misses + 1) * ROUND = misses * ROUND + ROUND
      BY DEF IInv, TypeOK, ROUND
    <3>4. leaseAge' <= leaseAge + HEART_BEAT_INTERVAL + SLEEP_SLACK
      BY <2>1, <2>2 DEF IInv, TypeOK, AtMost
    <3>5. ROUND = HEART_BEAT_INTERVAL + SLEEP_SLACK + CURL_TIMEOUT
      BY DEF ROUND
    <3>6. leaseAge \in Nat /\ leaseAge' \in Nat
      BY <2>3 DEF IInv, TypeOK
    <3> DEFINE m == misses * ROUND
    <3> HIDE DEF m
    <3>7. leaseAge <= CURL_TIMEOUT + m /\ m \in Nat
      BY <3>2, <3>3 DEF m
    <3>8. leaseAge' <= m + ROUND
      BY <3>4, <3>5, <3>6, <3>7
    <3> QED BY <3>3, <3>8 DEF m
  <2>6. CountInv'
    BY <1>3 DEF IInv, CountInv, GivenUp, Sleep
  <2> QED BY <2>3, <2>4, <2>5, <2>6 DEF IInv
<1>4. CASE \E answered \in BOOLEAN : Reregister(answered)
  <2>1. PICK answered \in BOOLEAN : Reregister(answered)
    BY <1>4
  <2>2. PICK handle \in BOOLEAN :
          RegisterHandle(handle) /\ Perform(FALSE, handle, answered)
    BY <2>1 DEF Reregister, TriesAfterRegister, registerEureka
  <2>3. /\ registered' \in BOOLEAN
        /\ leaseAge' \in 0..(LEASE_DURATION + 1)
        /\ misses' \in 0..MISS_CAP
        /\ refused' \in BOOLEAN
        /\ stopAge' \in Nat
        /\ m_res' \in BOOLEAN
        /\ LifeInv' /\ StopInv' /\ LeaseInv'
    BY <2>1, <2>2, RequestStep DEF Reregister, TriesAfterRegister
  <2>4. TypeOK'
    BY <2>1, <2>2, <2>3, HandleTypes DEF IInv, TypeOK, Reregister, TriesAfterRegister, owned, Labels
  <2>5. CountInv'
    <3>1. try_count' \in Nat /\ (answered \/ try_count' > MAX_TRY)
      BY <2>1 DEF Reregister, TriesAfterRegister, GivenUp, IInv, TypeOK
    <3> QED BY <2>2, <3>1, RequestCount
  <2> QED BY <2>3, <2>4, <2>5 DEF IInv
<1>5. CASE \E answered \in BOOLEAN : Beat(answered)
  <2>1. PICK answered \in BOOLEAN : Beat(answered)
    BY <1>5
  <2>2. PICK handle \in BOOLEAN :
          HeartBeatHandle(handle) /\ Perform(TRUE, handle, answered)
    BY <2>1 DEF Beat, TriesAfterBeat, sendHeartBeat
  <2>3. /\ registered' \in BOOLEAN
        /\ leaseAge' \in 0..(LEASE_DURATION + 1)
        /\ misses' \in 0..MISS_CAP
        /\ refused' \in BOOLEAN
        /\ stopAge' \in Nat
        /\ m_res' \in BOOLEAN
        /\ LifeInv' /\ StopInv' /\ LeaseInv'
    BY <2>1, <2>2, RequestStep DEF Beat, TriesAfterBeat
  <2>4. TypeOK'
    BY <2>1, <2>2, <2>3, HandleTypes DEF IInv, TypeOK, Beat, TriesAfterBeat, GivenUp, owned, Labels
  <2>5. CountInv'
    <3>1. try_count' \in Nat /\ (answered \/ try_count' = try_count + 1)
      BY <2>1 DEF Beat, TriesAfterBeat, IInv, TypeOK
    <3> QED BY <2>2, <3>1, RequestCount
  <2> QED BY <2>3, <2>4, <2>5 DEF IInv
<1> QED BY <1>1, <1>2, <1>3, <1>4, <1>5 DEF Thread

\* run() and stop() preserve it.
LEMMA OwnerStep == IInv /\ Owner => IInv'
<1> USE ConstantsAssumption
<1> SUFFICES ASSUME IInv, Owner PROVE IInv'
  OBVIOUS
<1>1. CASE RunSetFlag
  BY <1>1 DEF IInv, TypeOK, LifeInv, StopInv, LeaseInv, CountInv, GivenUp, RunSetFlag, SetFlag, curl, server, Owners
<1>2. CASE RunSpawn
  BY <1>2 DEF IInv, TypeOK, LifeInv, StopInv, LeaseInv, CountInv, GivenUp, RunSpawn, curl, server, Owners, Labels
<1>3. CASE StopClearFlag
  BY <1>3 DEF IInv, TypeOK, LifeInv, StopInv, LeaseInv, CountInv, GivenUp, StopClearFlag, SetFlag, curl, server, Owners, ROUND
<1>4. CASE StopJoinDelete
  BY <1>4 DEF IInv, TypeOK, LifeInv, StopInv, LeaseInv, CountInv, GivenUp, StopJoinDelete, Joined, server, Owners
<1> QED BY <1>1, <1>2, <1>3, <1>4 DEF Owner

\* The registry, dropping the entry, preserves it.
LEMMA RegistryStep == IInv /\ Registry => IInv'
<1> USE ConstantsAssumption
<1> SUFFICES ASSUME IInv, Registry PROVE IInv'
  OBVIOUS
<1>1. /\ UNCHANGED <<owned, pc, try_count, curl, leaseAge, misses, refused, m_res, stopAge>>
      /\ registered' = FALSE
  BY DEF Registry, Evict, Forget
<1> QED BY <1>1 DEF IInv, TypeOK, LifeInv, StopInv, LeaseInv, CountInv, owned, curl

\* Every step preserves it.
LEMMA NextIInv == IInv /\ [Next]_vars => IInv'
<1> SUFFICES ASSUME IInv, [Next]_vars PROVE IInv'
  OBVIOUS
<1>1. CASE UNCHANGED vars
  BY <1>1 DEF IInv, TypeOK, LifeInv, StopInv, LeaseInv, CountInv, GivenUp, vars, curl, server
<1> QED BY <1>1, ThreadStep, OwnerStep, RegistryStep DEF Next

\* The strengthened invariant holds in every reachable state.
THEOREM Invariant == Safety => []IInv
BY InitIInv, NextIInv, PTL DEF Safety

-----------------------------------------------------------------------------
(* The properties that TLC checks on small instances.                        *)

\* Every variable keeps its type; in particular try_count never passes
\* MAX_TRY + 1, for heartbeats cease there.
THEOREM TypeCorrect == Safety => []TypeOK
<1>1. IInv => TypeOK
  BY DEF IInv
<1> QED BY <1>1, Invariant, PTL

\* "delete this" in stop() is never reached while the thread is in its loop.
THEOREM DeleteIsSafe == Safety => []NoUseAfterDelete
<1>1. IInv => NoUseAfterDelete
  BY DEF IInv, LifeInv, NoUseAfterDelete
<1> QED BY <1>1, Invariant, PTL

\* The thread never ends before stop() is called.
THEOREM ThreadServes == Safety => []ServesUntilStopped
<1>1. IInv => ServesUntilStopped
  BY DEF IInv, LifeInv, ServesUntilStopped
<1> QED BY <1>1, Invariant, PTL

\* stop() blocks for one round of the loop at the most.
THEOREM StopIsBounded == Safety => []StopBounded
<1>1. IInv => StopBounded
  BY DEF IInv, StopInv, StopBounded
<1> QED BY <1>1, Invariant, PTL

\* Whatever the interval, the timeout and the lease, an outage of as many
\* calls as fit in the lease never loses the entry.
THEOREM LeaseIsKept == Safety => []LeaseKept
<1> USE ConstantsAssumption
<1>1. IInv => LeaseKept
  <2>1. SUFFICES ASSUME IInv, registered, pc \in {"test", "sleep", "act"},
                        CURL_TIMEOUT + (misses + 1) * ROUND <= LEASE_DURATION
                 PROVE  leaseAge + UntilNextCall <= LEASE_DURATION
    BY DEF LeaseKept
  <2>2. ROUND \in Nat /\ misses \in Nat /\ leaseAge \in Nat
    <3>1. ROUND \in Nat
      BY DEF ROUND
    <3>2. TypeOK
      BY <2>1 DEF IInv
    <3> QED BY <3>1, <3>2 DEF TypeOK
  <2>3. /\ misses * ROUND \in Nat
        /\ (misses + 1) * ROUND = misses * ROUND + ROUND
    BY <2>2
  <2>4. misses # MISS_CAP
    <3>1. SUFFICES ASSUME misses = MISS_CAP PROVE FALSE
      OBVIOUS
    <3>2. misses * ROUND >= LEASE_DURATION
      BY <3>1, MissCapAssumption
    <3> QED BY <2>1, <2>2, <2>3, <3>2
  <2>5. CASE pc = "act"
    BY <2>1, <2>2, <2>3, <2>4, <2>5 DEF IInv, LeaseInv, UntilNextCall
  <2>6. CASE pc \in {"test", "sleep"}
    BY <2>1, <2>2, <2>3, <2>4, <2>6 DEF IInv, LeaseInv, UntilNextCall
  <2> QED BY <2>1, <2>5, <2>6
<1> QED BY <1>1, Invariant, PTL

\* The tries, one a round, are used up before the lease is.
ThresholdFits == (MAX_TRY + 1) * ROUND <= LEASE_DURATION

\* Whenever the tries fit in the lease, an outage that outlasts the lease finds
\* the client registering and not sending heartbeats.
THEOREM LostMeansRegister ==
    ASSUME ThresholdFits
    PROVE  Safety => []RegistersWhenLost
<1> USE ConstantsAssumption
<1>1. IInv => RegistersWhenLost
  <2>1. SUFFICES ASSUME IInv, registered, pc \in {"test", "sleep", "act"},
                        leaseAge > LEASE_DURATION, ~refused, ~GivenUp
                 PROVE  FALSE
    BY DEF RegistersWhenLost
  <2>2. ROUND \in Nat \ {0} /\ CURL_TIMEOUT <= ROUND
    BY DEF ROUND
  <2>3. misses \in Nat /\ leaseAge \in Nat /\ misses <= MAX_TRY
    BY <2>1 DEF IInv, TypeOK, CountInv, GivenUp
  <2>4. (misses + 1) * ROUND <= (MAX_TRY + 1) * ROUND
    BY <2>2, <2>3
  <2>5. misses * ROUND + ROUND = (misses + 1) * ROUND /\ misses * ROUND \in Nat
    BY <2>2, <2>3
  <2>6. misses # MISS_CAP
    BY <2>2, <2>4, <2>5, MissCapAssumption DEF ThresholdFits
  <2>7. leaseAge <= misses * ROUND + ROUND
    BY <2>1, <2>2, <2>3, <2>5, <2>6 DEF IInv, LeaseInv
  <2> DEFINE needed == (misses + 1) * ROUND
             allowed == (MAX_TRY + 1) * ROUND
  <2>8. /\ needed \in Nat /\ allowed \in Nat
        /\ leaseAge <= needed /\ needed <= allowed /\ allowed <= LEASE_DURATION
    BY <2>2, <2>3, <2>4, <2>5, <2>7 DEF ThresholdFits
  <2> HIDE DEF needed, allowed
  <2> QED BY <2>1, <2>3, <2>8
<1> QED BY <1>1, Invariant, PTL

-----------------------------------------------------------------------------
(* Refinement: the client and its thread implement WorkerLifecycle.          *)

\* A constructed client is an idle owner without workers.
LEMMA RefinementInit == Init => Lifecycle!Init
BY DEF Init, Construct, Lifecycle!Init, LifecyclePhase

\* A step of the client is a step of the lifecycle or changes nothing there.
LEMMA RefinementStep == IInv /\ [Next]_vars => [Lifecycle!Next]_(Lifecycle!vars)
<1> SUFFICES ASSUME IInv, [Next]_vars
             PROVE  [Lifecycle!Next]_(Lifecycle!vars)
  OBVIOUS
<1> USE DEF Lifecycle!vars, LifecyclePhase
<1>1. CASE UNCHANGED <<owner, pc>>
  BY <1>1
<1>2. CASE RunSetFlag
  BY <1>2 DEF RunSetFlag, SetFlag
<1>3. CASE RunSpawn
  <2>1. Lifecycle!Spawn("heartBeatTimer")
    BY <1>3 DEF RunSpawn, Lifecycle!Spawn, IInv, LifeInv
  <2> QED BY <2>1 DEF Lifecycle!Next
<1>4. CASE StopClearFlag
  <2>1. Lifecycle!RequestStop
    BY <1>4 DEF StopClearFlag, SetFlag, Lifecycle!RequestStop
  <2> QED BY <2>1 DEF Lifecycle!Next
<1>5. CASE StopJoinDelete
  <2>1. Lifecycle!Release
    BY <1>5 DEF StopJoinDelete, Joined, Lifecycle!Release
  <2> QED BY <2>1 DEF Lifecycle!Next
<1>6. CASE TestFlag
  <2>1. CASE m_thread_running
    BY <1>6, <2>1 DEF TestFlag, owned
  <2>2. CASE ~m_thread_running
    <3>1. owner = "stopping"
      BY <1>6, <2>2 DEF TestFlag, IInv, TypeOK, LifeInv, Owners
    <3>2. Lifecycle!Leave("heartBeatTimer")
      BY <1>6, <2>2, <3>1 DEF TestFlag, owned, Lifecycle!Leave
    <3> QED BY <3>2 DEF Lifecycle!Next
  <2> QED BY <2>1, <2>2
<1>7. CASE FirstRegister \/ Sleep \/ \E a \in BOOLEAN : Reregister(a) \/ Beat(a)
  BY <1>7 DEF FirstRegister, Sleep, Reregister, TriesAfterRegister, Beat, TriesAfterBeat, owned
<1>8. CASE Registry \/ UNCHANGED vars
  BY <1>1, <1>8 DEF Registry, Evict, Forget, owned, vars
<1> QED BY <1>2, <1>3, <1>4, <1>5, <1>6, <1>7, <1>8 DEF Next, Owner, Thread

\* Every behaviour of the client is one of the abstract lifecycle: spawn,
\* request to stop, leave, release, in this order.
THEOREM Refinement == Safety => Lifecycle!Safety
BY RefinementInit, RefinementStep, Invariant, PTL DEF Safety, Lifecycle!Safety
=============================================================================
