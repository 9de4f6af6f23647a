---------------------------- MODULE EurekaClient ----------------------------
(***************************************************************************)
(* The service-registration client (src/src/eureka/eureka_client.cpp).     *)
(*                                                                         *)
(* Two actors share one EurekaClient object: its owner, who constructs it, *)
(* calls run() and later stop(), and the thread run() starts, which stays   *)
(* in heartBeatTimer().  The registry (an external Eureka server) and the   *)
(* network between them decide what happens to every request.  Time is      *)
(* kept in seconds, as the durations the code names: it passes while the    *)
(* thread sleeps or waits for curl, and only then.                          *)
(***************************************************************************)
EXTENDS Integers

CONSTANTS
    HEART_BEAT_INTERVAL,  \* seconds between two rounds of the loop
    SLEEP_SLACK,          \* how much longer than asked a sleep may last
    CURL_TIMEOUT,         \* CURLOPT_TIMEOUT of both handles
    LEASE_DURATION,       \* the lease asked for in setJsonData
    MAX_TRY,              \* the 6 of "try_count > 6"
    MISS_CAP,             \* bound on the history counter misses
    HEADER_CAP            \* bound on the length of m_headers

\* One round of the loop lasts at most this long.
ROUND == HEART_BEAT_INTERVAL + SLEEP_SLACK + CURL_TIMEOUT

ASSUME ConstantsAssumption ==
    /\ HEART_BEAT_INTERVAL \in Nat \ {0}
    /\ SLEEP_SLACK \in Nat
    /\ CURL_TIMEOUT \in Nat \ {0}
    /\ LEASE_DURATION \in Nat
    /\ LEASE_DURATION >= CURL_TIMEOUT
    /\ MAX_TRY \in Nat
    /\ MISS_CAP \in Nat
    /\ HEADER_CAP \in Nat \ {0}

\* The counter is capped only where the lease is long gone.
ASSUME MissCapAssumption == MISS_CAP * ROUND >= LEASE_DURATION

VARIABLES
    owner,             \* where the owner is: see Owners
    m_thread_running,  \* the flag shared by run(), stop() and the loop
    pc,                \* where the thread is: see Labels
    try_count,         \* local of heartBeatTimer
    m_curl_handler_register,   \* is the handle non-null?
    m_curl_handler_heartbeat,  \* is the handle non-null?
    m_headers,         \* length of the header list
    m_res,             \* did the last call return CURLE_OK?
    registered,        \* does the registry hold an entry for us?
    leaseAge,          \* seconds since the registry last heard from us
    misses,            \* history: calls in a row that had no effect there
    refused,           \* history: was one of these answered all the same?
    stopAge            \* history: seconds since stop() cleared the flag

owned  == <<owner, m_thread_running>>
curl   == <<m_curl_handler_register, m_curl_handler_heartbeat, m_headers>>
server == <<registered, leaseAge, misses, refused>>
vars   == <<owner, m_thread_running, pc, try_count, curl, server, m_res, stopAge>>

Owners == {"constructed", "starting", "running", "stopping", "deleted"}
Labels == {"unborn", "first", "test", "sleep", "act", "dead"}

AtMost(n, cap) == IF n <= cap THEN n ELSE cap

-----------------------------------------------------------------------------
(* The registry, external: what the client's calls and failures show of it. *)

\* A request that reached the registry "since" seconds before it returned.  A
\* renewal has no effect where there is no entry (the registry answers 404).
Applied(renewal, since) ==
    /\ renewal => registered
    /\ registered' = TRUE
    /\ leaseAge' = since
    /\ misses' = 0
    /\ refused' = FALSE

\* A call that took d seconds and had no effect at the registry.
Unapplied(answered, d) ==
    /\ leaseAge' = AtMost(leaseAge + d, LEASE_DURATION + 1)
    /\ misses' = AtMost(misses + 1, MISS_CAP)
    /\ refused' = (refused \/ answered)
    /\ UNCHANGED registered

\* The lease ran out.
Evict ==
    /\ registered
    /\ leaseAge > LEASE_DURATION
    /\ registered' = FALSE
    /\ UNCHANGED <<owned, pc, try_count, curl, leaseAge, misses, refused, m_res, stopAge>>

\* The registry restarts and loses its entries.
Forget ==
    /\ registered
    /\ registered' = FALSE
    /\ UNCHANGED <<owned, pc, try_count, curl, leaseAge, misses, refused, m_res, stopAge>>

-----------------------------------------------------------------------------
(* curl_easy_perform: it lasts at most CURL_TIMEOUT and returns CURLE_OK     *)
(* exactly when an answer arrived, whatever its HTTP status, for neither     *)
(* handle sets CURLOPT_FAILONERROR.  A request may have its effect and its   *)
(* answer be lost, and may be answered with an error and have none.          *)

Elapse(d) ==
    stopAge' = IF owner = "stopping" THEN stopAge + d ELSE stopAge

Perform(renewal, handle, answered) ==
    /\ m_res' = answered
    /\ \/ ~handle /\ ~answered /\ Elapse(0) /\ Unapplied(answered, 0)
       \/ /\ handle
          /\ \E d \in 0..CURL_TIMEOUT :
                /\ Elapse(d)
                /\ \/ Unapplied(answered, d)
                   \/ \E since \in 0..d : Applied(renewal, since)

\* registerEureka: a null handle is created first, and a header appended even
\* when curl_easy_init fails; performing on a null handle is an error.
RegisterHandle(handle) ==
    IF m_curl_handler_register
    THEN handle /\ UNCHANGED curl
    ELSE /\ m_curl_handler_register' = handle
         /\ m_headers' = AtMost(m_headers + 1, HEADER_CAP)
         /\ UNCHANGED m_curl_handler_heartbeat

registerEureka(answered) ==
    \E handle \in BOOLEAN :
        /\ RegisterHandle(handle)
        /\ Perform(FALSE, handle, answered)

HeartBeatHandle(handle) ==
    IF m_curl_handler_heartbeat
    THEN handle /\ UNCHANGED curl
    ELSE /\ m_curl_handler_heartbeat' = handle
         /\ UNCHANGED <<m_curl_handler_register, m_headers>>

sendHeartBeat(answered) ==
    \E handle \in BOOLEAN :
        /\ HeartBeatHandle(handle)
        /\ Perform(TRUE, handle, answered)

-----------------------------------------------------------------------------
(* heartBeatTimer, the thread.                                               *)

\* The first registration: its result is ignored.
FirstRegister ==
    /\ pc = "first"
    /\ \E answered \in BOOLEAN : registerEureka(answered)
    /\ pc' = "test"
    /\ UNCHANGED <<owned, try_count>>

TestFlag ==
    /\ pc = "test"
    /\ pc' = IF m_thread_running THEN "sleep" ELSE "dead"
    /\ UNCHANGED <<owned, try_count, curl, server, m_res, stopAge>>

\* Mutant: the interval taken for minutes.
SleepTimes_Minutes == {60 * HEART_BEAT_INTERVAL}

SleepTimes == {HEART_BEAT_INTERVAL, HEART_BEAT_INTERVAL + SLEEP_SLACK}

Sleep ==
    /\ pc = "sleep"
    /\ \E d \in SleepTimes :
          /\ leaseAge' = AtMost(leaseAge + d, LEASE_DURATION + 1)
          /\ Elapse(d)
    /\ pc' = "act"
    /\ UNCHANGED <<owned, try_count, curl, m_res, registered, misses, refused>>

\* Mutant: twice as many tries.
GivenUp_Late == try_count > 2 * MAX_TRY

\* Mutant: one try too many.
GivenUp_OneMore == try_count > MAX_TRY + 1

GivenUp == try_count > MAX_TRY

\* Mutant: a registration that succeeds does not reset the counter.
TriesAfterRegister_Kept(answered) == try_count

TriesAfterRegister(answered) == IF answered THEN 0 ELSE try_count

Reregister(answered) ==
    /\ pc = "act"
    /\ GivenUp
    /\ registerEureka(answered)
    /\ try_count' = TriesAfterRegister(answered)
    /\ pc' = "test"
    /\ UNCHANGED owned

\* Mutant: a heartbeat that succeeds resets the counter.
TriesAfterBeat_Reset(answered) == IF answered THEN 0 ELSE try_count + 1

TriesAfterBeat(answered) == IF answered THEN try_count ELSE try_count + 1

Beat(answered) ==
    /\ pc = "act"
    /\ ~GivenUp
    /\ sendHeartBeat(answered)
    /\ try_count' = TriesAfterBeat(answered)
    /\ pc' = "test"
    /\ UNCHANGED owned

Thread == \/ FirstRegister \/ TestFlag \/ Sleep
          \/ \E answered \in BOOLEAN : Reregister(answered) \/ Beat(answered)

-----------------------------------------------------------------------------
(* The owner.                                                                *)

Construct ==
    /\ owner = "constructed"
    /\ m_thread_running \in BOOLEAN    \* the constructor does not set it
    /\ pc = "unborn"
    /\ try_count = 0
    /\ m_curl_handler_register = FALSE
    /\ m_curl_handler_heartbeat = FALSE
    /\ m_headers = 0
    /\ m_res = TRUE

\* Mutant: the flag is not assigned.
SetFlag_Lost(value) == UNCHANGED m_thread_running

SetFlag(value) == m_thread_running' = value

RunSetFlag ==
    /\ owner = "constructed"
    /\ owner' = "starting"
    /\ SetFlag(TRUE)
    /\ UNCHANGED <<pc, try_count, curl, server, m_res, stopAge>>

RunSpawn ==
    /\ owner = "starting"
    /\ owner' = "running"
    /\ pc' = "first"
    /\ UNCHANGED <<m_thread_running, try_count, curl, server, m_res, stopAge>>

StopClearFlag ==
    /\ owner = "running"
    /\ owner' = "stopping"
    /\ SetFlag(FALSE)
    /\ UNCHANGED <<pc, try_count, curl, server, m_res, stopAge>>

\* Mutant: the thread is not joined.
Joined_Never == TRUE

Joined == pc = "dead"

\* join() returns once the thread is over; the destructor closes the handles.
StopJoinDelete ==
    /\ owner = "stopping"
    /\ Joined
    /\ owner' = "deleted"
    /\ m_curl_handler_register' = FALSE
    /\ m_curl_handler_heartbeat' = FALSE
    /\ UNCHANGED <<m_thread_running, pc, try_count, m_headers, server, m_res, stopAge>>

Owner == RunSetFlag \/ RunSpawn \/ StopClearFlag \/ StopJoinDelete

Registry == Evict \/ Forget

Init ==
    /\ Construct
    /\ registered = FALSE
    /\ leaseAge = 0
    /\ misses = 0
    /\ refused = FALSE
    /\ stopAge = 0

Next == Owner \/ Thread \/ Registry

Safety == Init /\ [][Next]_vars

\* The thread is scheduled by the operating system and join() returns; when
\* the owner calls run() and stop(), and what the registry does, is free.
Spec == Safety /\ WF_vars(Thread) /\ WF_vars(StopJoinDelete)

-----------------------------------------------------------------------------
(* Properties.                                                               *)

TypeOK ==
    /\ owner \in Owners
    /\ m_thread_running \in BOOLEAN
    /\ pc \in Labels
    /\ try_count \in 0..(MAX_TRY + 1)
    /\ m_curl_handler_register \in BOOLEAN
    /\ m_curl_handler_heartbeat \in BOOLEAN
    /\ m_headers \in 0..HEADER_CAP
    /\ m_res \in BOOLEAN
    /\ registered \in BOOLEAN
    /\ leaseAge \in 0..(LEASE_DURATION + 1)
    /\ misses \in 0..MISS_CAP
    /\ refused \in BOOLEAN
    /\ stopAge \in Nat

\* stop() ends in "delete this": no thread may then be left in heartBeatTimer,
\* which reads m_thread_running, the handles and the strings of the object.
NoUseAfterDelete == owner = "deleted" => pc = "dead"

\* The thread leaves its loop only because stop() was called, never because it
\* read the flag before run() had set it.
ServesUntilStopped == pc = "dead" => owner \in {"stopping", "deleted"}

\* stop() blocks its caller for one round of the loop at the most: the thread
\* may just have tested the flag, and then sleeps and makes one more call.
StopBounded == stopAge <= ROUND

\* Seconds until the thread's next call is over.
UntilNextCall == IF pc = "act" THEN CURL_TIMEOUT ELSE ROUND

\* As long as few enough calls in a row are lost, the next one reaches the
\* registry before the lease of setJsonData runs out; the switch from
\* heartbeats to registrations in mid-outage costs nothing.
LeaseKept ==
    /\ registered
    /\ pc \in {"test", "sleep", "act"}
    /\ CURL_TIMEOUT + (misses + 1) * ROUND <= LEASE_DURATION
    => leaseAge + UntilNextCall <= LEASE_DURATION

\* When no call is answered any more and the lease runs out, the client has
\* already changed over to registrations: the first call that gets through
\* creates the entry again, where a heartbeat would be answered 404.
RegistersWhenLost ==
    /\ registered
    /\ pc \in {"test", "sleep", "act"}
    /\ leaseAge > LEASE_DURATION
    /\ ~refused
    => GivenUp

\* Failed heartbeats are counted even when others succeed in between, so an
\* unreliable network leads to registrations again and again.
FailuresForceRegister ==
    []<><<Beat(FALSE)>>_vars => []<><<\E a \in BOOLEAN : Reregister(a)>>_vars

\* When from some point on every call is answered, the client does not stay in
\* its fallback: it returns to heartbeats for good, or is being stopped.
BackToHeartbeats ==
    <>[]m_res => <>[](~GivenUp \/ owner \in {"stopping", "deleted"})

\* The object and its thread implement the promise of WorkerLifecycle.
LifecyclePhase ==
    CASE owner \in {"constructed", "starting"} -> "idle"
      [] owner = "running"  -> "open"
      [] owner = "stopping" -> "closing"
      [] owner = "deleted"  -> "closed"

Lifecycle == INSTANCE WorkerLifecycle WITH
    Workers <- {"heartBeatTimer"},
    phase   <- LifecyclePhase,
    alive   <- IF pc \in {"unborn", "dead"} THEN {} ELSE {"heartBeatTimer"}

\* stop() returns, and the thread and the owner keep to the abstract order of
\* spawn, request, leave and release.
LifecycleSpec == Lifecycle!Spec
=============================================================================
