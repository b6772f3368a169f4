--------------------------- MODULE PanosClientProofs ---------------------------
(***************************************************************************)
(* Proofs that the client of PanosClient conserves its permits, keeps      *)
(* auth_healthy in step with the key, and leaves no log job behind, for    *)
(* every number of calls, clients, permits, jobs and slots.                *)
(***************************************************************************)
EXTENDS PanosClient, FiniteSetTheorems, TLAPS

\* A call that has a request has a client, and one that polls has a log job that the
\* device has started.
CallOK(t) ==
    /\ call[t].pc \notin {"idle", "read"} => t \in Queries
    /\ call[t].pc # "idle" => call[t].client \in Clients
    /\ call[t].pc \in {"idle", "pause"} => req[t].at = "none"
    /\ call[t].pc \in {"idle", "read", "submit"} => call[t].job = None
    /\ call[t].pc \in {"poll", "pause", "finish"} =>
        call[t].job \in JobIds /\ slot[call[t].job] # "none"

\* What an answer that is not read yet says of the key and of the log job.
AnswerOK(t) ==
    req[t].at = "answered" =>
        /\ req[t].answer \in Answers
        /\ req[t].stale = FALSE =>
            /\ req[t].answer \in {"ok", "done"} => key = "valid"
            /\ req[t].answer \in Rejections => key = req[t].answer
        /\ call[t].pc = "submit" /\ req[t].answer = "ok" =>
            req[t].job \in JobIds /\ slot[req[t].job] # "none"
        /\ call[t].pc = "poll" /\ req[t].answer = "done" =>
            slot[call[t].job] \in {"done", "finished"}
        /\ call[t].pc = "finish" /\ req[t].answer = "ok" =>
            slot[call[t].job] \in {"done", "finished"}

CallsOK == \A t \in Callers : CallOK(t) /\ AnswerOK(t)
LearnedOK == \A j \in learned : slot[j] # "none"

ClientInv ==
    /\ ClientTypeOK
    /\ CallsOK
    /\ LearnedOK
    /\ PermitsConserved
    /\ HealthTracksKey
    /\ AbandonedJobsEnd

-----------------------------------------------------------------------------
(* Permits. *)

Holders(c) == {t \in Callers : HoldsPermit(t) /\ call[t].client = c}

\* The calls other than t keep their requests and their clients.
OthersKept(t) ==
    \A u \in Callers \ {t} : req'[u] = req[u] /\ call'[u] = call[u]

\* Finitely many calls hold finitely many permits.
LEMMA HoldersFinite ==
    ASSUME NEW c
    PROVE  IsFiniteSet(Holders(c)) /\ Cardinality(Holders(c)) \in Nat
<1>1. Holders(c) \in SUBSET Callers /\ IsFiniteSet(Callers)
  BY ClientAssumption DEF Holders, Callers
<1>2. IsFiniteSet(Holders(c))
  BY <1>1, FS_Subset
<1> QED
  BY <1>2, FS_CardinalityType

\* A step that keeps who holds which permit keeps the sum.
LEMMA PermitsKept ==
    ASSUME ClientTypeOK, PermitsConserved, UNCHANGED free,
           \A u \in Callers : /\ HoldsPermit(u)' <=> HoldsPermit(u)
                              /\ HoldsPermit(u) => call'[u].client = call[u].client
    PROVE  PermitsConserved'
<1>1. ASSUME NEW c \in Clients PROVE Holders(c)' = Holders(c)
  BY DEF Holders
<1> QED
  BY <1>1, Zenon DEF PermitsConserved, Holders

\* A call that ends its request returns the permit it held, and no other.
LEMMA PermitDropped ==
    ASSUME ClientTypeOK, PermitsConserved, NEW t \in Callers, CallOK(t), DropPermit(t),
           OthersKept(t), ~HoldsPermit(t)'
    PROVE  PermitsConserved' /\ free' \in [Clients -> 0..MaxConcurrency]
<1>1. CASE ~HoldsPermit(t)
  <2>1. UNCHANGED free
    BY <1>1 DEF DropPermit
  <2>2. ASSUME NEW u \in Callers
        PROVE  /\ HoldsPermit(u)' <=> HoldsPermit(u)
               /\ HoldsPermit(u) => call'[u].client = call[u].client
    BY <1>1 DEF OthersKept, HoldsPermit
  <2> QED
    BY <2>1, <2>2, PermitsKept DEF ClientTypeOK
<1>2. CASE HoldsPermit(t)
  <2>d. PICK d \in Clients : d = call[t].client
    BY <1>2 DEF HoldsPermit, CallOK, ClientTypeOK
  <2>1. free' = [free EXCEPT ![d] = @ + 1] /\ t \in Holders(d)
    BY <1>2, <2>d DEF DropPermit, HoldsPermit, CallOK, ClientTypeOK, Holders
  <2>2. Holders(d)' = Holders(d) \ {t}
    BY <1>2, <2>d DEF Holders, HoldsPermit, OthersKept
  <2>3. ASSUME NEW c \in Clients, c # d PROVE Holders(c)' = Holders(c)
    BY <1>2, <2>3, <2>d DEF Holders, HoldsPermit, OthersKept
  <2>4. Cardinality(Holders(d)') = Cardinality(Holders(d)) - 1
    BY <2>1, <2>2, HoldersFinite, FS_RemoveElement
  <2>5. \A c \in Clients : free[c] + Cardinality(Holders(c)) = MaxConcurrency
    BY Zenon DEF PermitsConserved, Holders
  <2>6. Cardinality(Holders(d)) \in Nat /\ Cardinality(Holders(d)') \in Nat
    <3>1. IsFiniteSet(Holders(d)) /\ Cardinality(Holders(d)) \in Nat
      BY HoldersFinite
    <3>2. IsFiniteSet(Holders(d)')
      BY <2>2, <3>1, FS_RemoveElement
    <3> QED
      BY <3>1, <3>2, FS_CardinalityType
  <2>7. free[d] < MaxConcurrency /\ free[d] \in Nat
    BY <2>1, <2>4, <2>5, <2>6, ClientAssumption DEF ClientTypeOK
  <2>8. free' \in [Clients -> 0..MaxConcurrency]
    BY <2>1, <2>7, ClientAssumption DEF ClientTypeOK
  <2>9. ASSUME NEW c \in Clients PROVE free'[c] + Cardinality(Holders(c)') = MaxConcurrency
    <3>1. CASE c = d
      BY <2>1, <2>4, <2>5, <2>6, <2>7, <3>1, ClientAssumption DEF ClientTypeOK
    <3>2. CASE c # d
      BY <2>1, <2>3, <2>5, <3>2 DEF ClientTypeOK
    <3> QED
      BY <3>1, <3>2
  <2>10. PermitsConserved'
    BY <2>9, Zenon DEF PermitsConserved, Holders
  <2> QED
    BY <2>8, <2>10
<1> QED
  BY <1>1, <1>2

\* A waiting call takes a permit that is free.
LEMMA PermitTaken ==
    ASSUME ClientTypeOK, PermitsConserved, NEW t \in Callers, CallOK(t), TakePermit(t)
    PROVE  PermitsConserved' /\ free' \in [Clients -> 0..MaxConcurrency]
<1>d. PICK d \in Clients : d = call[t].client
  BY DEF TakePermit, CallOK, ClientTypeOK
<1>1. free' = [free EXCEPT ![d] = @ - 1] /\ free[d] > 0 /\ t \notin Holders(d)
  BY <1>d DEF TakePermit, HoldsPermit, CallOK, ClientTypeOK, Holders
<1>2. /\ req'[t].at = "sent" /\ call' = call
      /\ \A u \in Callers \ {t} : req'[u] = req[u]
  BY DEF TakePermit, ClientTypeOK
<1>3. Holders(d)' = Holders(d) \cup {t}
  BY <1>2, <1>d DEF Holders, HoldsPermit
<1>4. ASSUME NEW c \in Clients, c # d PROVE Holders(c)' = Holders(c)
  BY <1>2, <1>4, <1>d DEF Holders, HoldsPermit
<1>5. Cardinality(Holders(d)') = Cardinality(Holders(d)) + 1 /\ Cardinality(Holders(d)) \in Nat
  BY <1>1, <1>3, HoldersFinite, FS_AddElement
<1>6. \A c \in Clients : free[c] + Cardinality(Holders(c)) = MaxConcurrency
  BY Zenon DEF PermitsConserved, Holders
<1>7. free' \in [Clients -> 0..MaxConcurrency]
  BY <1>1, ClientAssumption DEF ClientTypeOK
<1>8. ASSUME NEW c \in Clients PROVE free'[c] + Cardinality(Holders(c)') = MaxConcurrency
  <2>1. CASE c = d
    <3>1. free'[d] = free[d] - 1 /\ free[d] \in Nat
      BY <1>1, ClientAssumption DEF ClientTypeOK
    <3> QED
      BY <1>5, <1>6, <2>1, <3>1, ClientAssumption
  <2>2. CASE c # d
    BY <1>1, <1>4, <1>6, <2>2 DEF ClientTypeOK
  <2> QED
    BY <2>1, <2>2
<1>9. PermitsConserved'
  BY <1>8, Zenon DEF PermitsConserved, Holders
<1> QED
  BY <1>7, <1>9

-----------------------------------------------------------------------------
(* Health, log jobs and the calls that a step leaves alone. *)

CallRecords == [pc : {"idle", "read", "submit", "poll", "pause", "finish"},
                client : Clients \union {None}, job : JobIds \union {None}]
RequestRecords == [at : {"none", "waiting", "sent", "answered"}, answer : Answers \union {None},
                   job : JobIds \union {None}, stale : BOOLEAN]

\* A log job starts once, ends once, and is not started again.
SlotsAdvance ==
    \A j \in JobIds :
        /\ slot[j] # "none" => slot'[j] # "none"
        /\ slot[j] \in {"done", "finished"} => slot'[j] \in {"done", "finished"}
        /\ slot'[j] = "running" => slot[j] \in {"none", "running"}

\* What holds of a call still holds when the step is another call's or the device's.
LEMMA CallKept ==
    ASSUME NEW t \in Callers, CallOK(t), AnswerOK(t), SlotsAdvance, UNCHANGED key,
           call'[t] = call[t], req'[t] = req[t]
    PROVE  CallOK(t)' /\ AnswerOK(t)'
<1>1. CallOK(t)'
  BY DEF CallOK, SlotsAdvance
<1>2. AnswerOK(t)'
  <2>1. CASE req[t].at = "answered"
    <3>1. req[t].answer = "done" /\ call[t].pc = "poll" => slot'[call[t].job] \in {"done", "finished"}
      BY <2>1 DEF CallOK, AnswerOK, SlotsAdvance
    <3>2. req[t].answer = "ok" /\ call[t].pc = "finish" => slot'[call[t].job] \in {"done", "finished"}
      BY <2>1 DEF CallOK, AnswerOK, SlotsAdvance
    <3>3. req[t].answer = "ok" /\ call[t].pc = "submit" =>
            req[t].job \in JobIds /\ slot'[req[t].job] # "none"
      BY <2>1 DEF AnswerOK, SlotsAdvance
    <3>4. /\ req[t].answer \in Answers
          /\ req[t].stale = FALSE =>
              /\ req[t].answer \in {"ok", "done"} => key = "valid"
              /\ req[t].answer \in Rejections => key = req[t].answer
      BY <2>1, Zenon DEF AnswerOK
    <3> QED
      BY <3>1, <3>2, <3>3, <3>4, Zenon DEF AnswerOK
  <2>2. CASE req[t].at # "answered"
    BY <2>2 DEF AnswerOK
  <2> QED
    BY <2>1, <2>2
<1> QED
  BY <1>1, <1>2

\* An answer given under the present key sets auth_healthy to what it says of the key;
\* an older one withdraws the claim.
LEMMA HealthCompleted ==
    ASSUME ClientInv, NEW t \in Callers, Complete(t), UNCHANGED key
    PROVE  HealthTracksKey' /\ healthy' \in [Clients -> BOOLEAN] /\ judged' \subseteq Clients
<1>d. PICK d \in Clients : d = call[t].client
  BY DEF ClientInv, CallsOK, CallOK, ClientTypeOK, Complete
<1> DEFINE a == req[t].answer
           h == HealthAfter(t)
<1>1. healthy \in [Clients -> BOOLEAN] /\ judged \subseteq Clients /\ AnswerOK(t)
  BY DEF ClientInv, ClientTypeOK, CallsOK
<1>2. a \in Answers
  BY <1>1, Zenon DEF AnswerOK, Complete
<1>3. h \in BOOLEAN
  BY <1>1, <1>d DEF HealthAfter
<1>4. healthy' = [healthy EXCEPT ![d] = h]
  BY <1>d, Zenon DEF Complete
<1> HIDE DEF h
<1>5. healthy' \in [Clients -> BOOLEAN] /\ healthy'[d] = h
      /\ \A c \in Clients : c # d => healthy'[c] = healthy[c]
  BY <1>1, <1>3, <1>4, Zenon
<1>6. judged' \subseteq judged \union {d}
  BY <1>d DEF Complete
<1>7. d \in judged' => (h <=> key = "valid")
  <2>1. CASE a = "error"
    <3>1. h = healthy[d] /\ judged' = judged
      BY <2>1, <1>d DEF h, HealthAfter, Complete
    <3> QED
      BY <3>1, Zenon DEF ClientInv, HealthTracksKey
  <2>2. CASE a # "error" /\ req[t].stale
    BY <2>2, <1>d, Zenon DEF Complete
  <2>3. CASE a # "error" /\ ~req[t].stale
    <3>1. req[t].stale = FALSE
      BY <2>3 DEF ClientInv, ClientTypeOK
    <3>2. (a \in {"ok", "done"} => key = "valid") /\ (a \in Rejections => key = a)
      BY <3>1, <1>1, Zenon DEF AnswerOK, Complete
    <3>3. CASE t \in Listers
      <4>1. judged' = judged
        BY <2>3, <3>3, Zenon DEF Complete
      <4>2. CASE a = "denied"
        <5>1. h = FALSE
          BY <4>2 DEF h, HealthAfter
        <5>2. key # "valid"
          BY <3>2, <4>2 DEF Rejections
        <5> QED
          BY <5>1, <5>2
      <4>3. CASE a # "denied"
        <5>1. h = healthy[d]
          BY <4>3, <3>3, <1>d DEF h, HealthAfter
        <5> QED
          BY <5>1, <4>1, Zenon DEF ClientInv, HealthTracksKey
      <4> QED
        BY <4>2, <4>3
    <3>4. CASE t \notin Listers
      <4>1. CASE a \in Rejections
        <5>1. h = FALSE
          BY <4>1, <3>4 DEF h, HealthAfter, Rejections
        <5>2. key # "valid"
          BY <3>2, <4>1 DEF Rejections
        <5> QED
          BY <5>1, <5>2
      <4>2. CASE a \in {"ok", "done"}
        <5>1. h = TRUE
          BY <4>2, <3>4 DEF h, HealthAfter
        <5> QED
          BY <5>1, <3>2, <4>2
      <4> QED
        BY <4>1, <4>2, <2>3, <1>2 DEF Answers
    <3> QED
      BY <3>3, <3>4
  <2> QED
    BY <2>1, <2>2, <2>3, Zenon
<1>8. ASSUME NEW c \in judged' PROVE healthy'[c] <=> key' = "valid"
  <2>1. CASE c = d
    BY <2>1, <1>5, <1>7, Zenon
  <2>2. CASE c # d
    <3>1. c \in judged /\ c \in Clients /\ healthy'[c] = healthy[c]
      BY <2>2, <1>1, <1>5, <1>6, Zenon
    <3> QED
      BY <3>1, Zenon DEF ClientInv, HealthTracksKey
  <2> QED
    BY <2>1, <2>2
<1> QED
  BY <1>1, <1>5, <1>6, <1>8, Zenon DEF HealthTracksKey

-----------------------------------------------------------------------------
(* The two kinds of steps: a call's request ends, or the device answers it. *)

\* A request that is read to its end, or given up.
Ended(t) == Complete(t) \/ (DropPermit(t) /\ UNCHANGED <<healthy, judged>>)

\* When the request of call t ends, it remains to show what the call does next, that a
\* job the query now knows has been started, and that it lets go of no running job.
LEMMA EndedPreserves ==
    ASSUME ClientInv, NEW t \in Callers, Ended(t), UNCHANGED <<current, built, slot, key>>,
           call' \in [Callers -> CallRecords], OthersKept(t), CallOK(t)',
           \/ req' = [req EXCEPT ![t] = NoRequest]
           \/ req' = [req EXCEPT ![t] = Request],
           \A j \in learned' :
              /\ j \in learned \/ (j = call'[t].job /\ j \in JobIds /\ slot[j] # "none")
              /\ j = call[t].job /\ slot[j] = "running" => j = call'[t].job
    PROVE  ClientInv'
<1>1. req' \in [Callers -> RequestRecords] /\ req'[t].at \in {"none", "waiting"}
  <2>1. req \in [Callers -> RequestRecords]
    BY DEF ClientInv, ClientTypeOK, RequestRecords
  <2>2. NoRequest \in RequestRecords /\ NoRequest.at = "none"
    BY DEF RequestRecords, NoRequest
  <2>3. Request \in RequestRecords /\ Request.at = "waiting"
    BY DEF RequestRecords, NoRequest, Request
  <2> QED
    BY <2>1, <2>2, <2>3
<1>2. PermitsConserved' /\ free' \in [Clients -> 0..MaxConcurrency]
  <2>1. ~HoldsPermit(t)'
    BY <1>1 DEF HoldsPermit
  <2>2. ClientTypeOK /\ PermitsConserved /\ CallOK(t) /\ DropPermit(t)
    BY DEF ClientInv, CallsOK, Ended, Complete
  <2> QED
    BY <2>1, <2>2, PermitDropped
<1>3. HealthTracksKey' /\ healthy' \in [Clients -> BOOLEAN] /\ judged' \subseteq Clients
  <2>1. CASE Complete(t)
    BY <2>1, HealthCompleted
  <2>2. CASE UNCHANGED <<healthy, judged>>
    BY <2>2, Zenon DEF ClientInv, ClientTypeOK, HealthTracksKey
  <2> QED
    BY <2>1, <2>2 DEF Ended
<1>4. ClientTypeOK'
  <2>1. learned' \subseteq JobIds
    BY DEF ClientInv, ClientTypeOK
  <2> QED
    BY <1>1, <1>2, <1>3, <2>1, Zenon DEF ClientInv, ClientTypeOK, CallRecords, RequestRecords
<1>5. CallsOK'
  <2>1. SlotsAdvance
    BY DEF SlotsAdvance, ClientInv, ClientTypeOK
  <2>2. ASSUME NEW u \in Callers, u # t PROVE CallOK(u)' /\ AnswerOK(u)'
    BY <2>1, <2>2, CallKept DEF OthersKept, ClientInv, CallsOK
  <2>3. AnswerOK(t)'
    BY <1>1 DEF AnswerOK
  <2> QED
    BY <2>2, <2>3, Zenon DEF CallsOK
<1>6. LearnedOK'
  BY DEF LearnedOK, ClientInv
<1>7. AbandonedJobsEnd'
  <2> SUFFICES ASSUME NEW j \in learned', slot[j] = "running"
               PROVE  \E q \in Queries : call'[q].job = j
    BY DEF AbandonedJobsEnd, InUse
  <2>1. CASE j = call'[t].job
    <3>1. j # None
      BY <1>4, ClientAssumption DEF ClientTypeOK
    <3> QED
      BY <2>1, <3>1 DEF CallOK, CallRecords
  <2>2. CASE j # call'[t].job
    <3>1. j \in learned /\ j # call[t].job
      BY <2>2
    <3>2. PICK q \in Queries : call[q].job = j
      BY <3>1 DEF ClientInv, AbandonedJobsEnd, InUse
    <3>3. q \in Callers /\ q # t
      BY <3>1, <3>2 DEF Callers
    <3> QED
      BY <3>2, <3>3 DEF OthersKept
  <2> QED
    BY <2>1, <2>2
<1> QED
  BY <1>2, <1>3, <1>4, <1>5, <1>6, <1>7 DEF ClientInv

\* When the device answers call t, it remains to show that the answer fits.
LEMMA AnsweredPreserves ==
    ASSUME ClientInv, NEW t \in Callers, req[t].at = "sent", AnswerOK(t)',
           NEW answer \in Answers, NEW j \in JobIds \union {None}, Answered(t, answer, j),
           slot' \in [JobIds -> {"none", "running", "done", "finished"}], SlotsAdvance,
           UNCHANGED <<current, built, free, healthy, call, key, judged, learned>>
    PROVE  ClientInv'
<1>1. req' \in [Callers -> RequestRecords] /\ req'[t].at = "answered"
      /\ \A u \in Callers \ {t} : req'[u] = req[u]
  BY DEF ClientInv, ClientTypeOK, RequestRecords, Answered
<1>2. ClientTypeOK'
  BY <1>1, Zenon DEF ClientInv, ClientTypeOK, RequestRecords
<1>3. PermitsConserved'
  <2>1. ASSUME NEW u \in Callers
        PROVE  /\ HoldsPermit(u)' <=> HoldsPermit(u)
               /\ HoldsPermit(u) => call'[u].client = call[u].client
    BY <1>1 DEF HoldsPermit
  <2> QED
    BY <2>1, PermitsKept DEF ClientInv
<1>4. CallsOK'
  <2>1. ASSUME NEW u \in Callers, u # t PROVE CallOK(u)' /\ AnswerOK(u)'
    BY <1>1, <2>1, CallKept DEF ClientInv, CallsOK
  <2>2. CallOK(t)'
    BY <1>1 DEF ClientInv, CallsOK, CallOK, SlotsAdvance
  <2> QED
    BY <2>1, <2>2, Zenon DEF CallsOK
<1>5. LearnedOK' /\ AbandonedJobsEnd'
  BY DEF ClientInv, ClientTypeOK, LearnedOK, AbandonedJobsEnd, InUse, SlotsAdvance
<1>6. HealthTracksKey'
  BY Zenon DEF ClientInv, HealthTracksKey
<1> QED
  BY <1>2, <1>3, <1>4, <1>5, <1>6 DEF ClientInv

-----------------------------------------------------------------------------
(* The actions. *)

\* Before any call: every client has all its permits and is taken to be healthy.
LEMMA InitHolds == ClientInit => ClientInv
<1> SUFFICES ASSUME ClientInit PROVE ClientInv
  OBVIOUS
<1>1. IdleCall \in CallRecords /\ NoRequest \in RequestRecords
  BY DEF IdleCall, NoRequest, CallRecords, RequestRecords
<1>2. healthy \in [Clients -> BOOLEAN]
  BY DEF ClientInit
<1>3. free \in [Clients -> 0..MaxConcurrency]
  BY ClientAssumption DEF ClientInit
<1>4. ClientTypeOK
  BY <1>1, <1>2, <1>3 DEF ClientInit, ClientTypeOK, CallRecords, RequestRecords
<1>5. \A t \in Callers : call[t] = IdleCall /\ req[t] = NoRequest
  BY DEF ClientInit
<1>6. CallsOK /\ LearnedOK /\ HealthTracksKey /\ AbandonedJobsEnd
  BY <1>5 DEF CallsOK, CallOK, AnswerOK, LearnedOK, HealthTracksKey, AbandonedJobsEnd,
     IdleCall, NoRequest, ClientInit
<1>7. ASSUME NEW c \in Clients PROVE free[c] + Cardinality(Holders(c)) = MaxConcurrency
  <2>1. Holders(c) = {}
    BY <1>5 DEF Holders, HoldsPermit, NoRequest
  <2> QED
    BY <2>1, FS_EmptySet, ClientAssumption DEF ClientInit
<1>8. PermitsConserved
  BY <1>7, Zenon DEF PermitsConserved, Holders
<1> QED
  BY <1>4, <1>6, <1>8 DEF ClientInv

\* A tool call picks up the published client; a query's backoff ends.
LEMMA CallPreserves ==
    ASSUME ClientInv, NEW t \in Callers,
           ReadCall(t) \/ (t \in Queries /\ (QueryCall(t) \/ PollAgain(t)))
    PROVE  ClientInv'
<1>1. /\ call \in [Callers -> CallRecords] /\ current \in Clients
      /\ CallOK(t)
  BY DEF ClientInv, ClientTypeOK, CallRecords, CallsOK
<1>2. /\ Ended(t) /\ UNCHANGED <<current, built, slot, key, learned>>
      /\ req' = [req EXCEPT ![t] = Request]
  <2>1. /\ UNCHANGED <<free, healthy, judged, current, built, slot, key, learned>>
        /\ req' = [req EXCEPT ![t] = Request]
        /\ call[t].pc \in {"idle", "pause"}
    BY DEF ReadCall, QueryCall, PollAgain
  <2>2. ~HoldsPermit(t)
    BY <1>1, <2>1 DEF CallOK, HoldsPermit
  <2>3. DropPermit(t)
    BY <2>1, <2>2, Zenon DEF DropPermit
  <2> QED
    BY <2>1, <2>3, Zenon DEF Ended
<1>3. call' \in [Callers -> CallRecords]
  <2>1. CASE ReadCall(t) \/ QueryCall(t)
    <3>1. \A pc \in {"read", "submit"} :
            [IdleCall EXCEPT !.pc = pc, !.client = current] \in CallRecords
      BY <1>1 DEF CallRecords, IdleCall
    <3>2. \E pc \in {"read", "submit"} :
            call' = [call EXCEPT ![t] = [IdleCall EXCEPT !.pc = pc, !.client = current]]
      BY <2>1 DEF ReadCall, QueryCall
    <3> QED
      BY <1>1, <3>1, <3>2
  <2>2. CASE PollAgain(t)
    <3>1. [call[t] EXCEPT !.pc = "poll"] \in CallRecords
      BY <1>1 DEF CallRecords
    <3> QED
      BY <1>1, <2>2, <3>1 DEF PollAgain, Goto
  <2> QED
    BY <2>1, <2>2
<1>4. OthersKept(t)
  BY <1>1, <1>2 DEF ReadCall, QueryCall, PollAgain, Goto, OthersKept, ClientInv, ClientTypeOK
<1>5. call'[t].job = call[t].job /\ CallOK(t)'
  <2>1. CASE ReadCall(t)
    BY <1>1, <2>1 DEF ReadCall, CallOK, IdleCall
  <2>2. CASE t \in Queries /\ QueryCall(t)
    BY <1>1, <2>2 DEF QueryCall, CallOK, IdleCall
  <2>3. CASE t \in Queries /\ PollAgain(t)
    BY <1>1, <2>3 DEF PollAgain, Goto, CallOK, CallRecords
  <2> QED
    BY <2>1, <2>2, <2>3
<1> QED
  BY <1>2, <1>3, <1>4, <1>5, EndedPreserves

\* A waiting call gets a permit.
LEMMA TakePermitPreserves ==
    ASSUME ClientInv, NEW t \in Callers, TakePermit(t)
    PROVE  ClientInv'
<1>1. req \in [Callers -> RequestRecords] /\ CallOK(t)
  BY DEF ClientInv, ClientTypeOK, CallsOK, RequestRecords
<1>2. req' \in [Callers -> RequestRecords] /\ req'[t].at = "sent"
      /\ \A u \in Callers \ {t} : req'[u] = req[u]
  <2> DEFINE r == [req[t] EXCEPT !.at = "sent"]
  <2>1. req' = [req EXCEPT ![t] = r]
    BY DEF TakePermit
  <2>2. req[t] \in RequestRecords
    BY <1>1
  <2>3. r \in RequestRecords /\ r.at = "sent"
    BY <2>2 DEF RequestRecords
  <2> HIDE DEF r
  <2> QED
    BY <1>1, <2>1, <2>3
<1>3. PermitsConserved' /\ free' \in [Clients -> 0..MaxConcurrency]
  BY <1>1, PermitTaken DEF ClientInv
<1>4. ClientTypeOK'
  BY <1>2, <1>3, Zenon DEF ClientInv, ClientTypeOK, RequestRecords, TakePermit
<1>5. CallsOK'
  <2>1. SlotsAdvance
    BY DEF SlotsAdvance, ClientInv, ClientTypeOK, TakePermit
  <2>2. ASSUME NEW u \in Callers, u # t PROVE CallOK(u)' /\ AnswerOK(u)'
    BY <1>2, <2>1, <2>2, CallKept DEF ClientInv, CallsOK, TakePermit
  <2>3. CallOK(t)' /\ AnswerOK(t)'
    BY <1>1, <1>2 DEF CallOK, AnswerOK, TakePermit
  <2> QED
    BY <2>2, <2>3, Zenon DEF CallsOK
<1>6. LearnedOK' /\ AbandonedJobsEnd'
  BY DEF ClientInv, LearnedOK, AbandonedJobsEnd, InUse, TakePermit
<1>7. HealthTracksKey'
  BY Zenon DEF ClientInv, HealthTracksKey, TakePermit
<1> QED
  BY <1>3, <1>4, <1>5, <1>6, <1>7 DEF ClientInv

\* A call returns: a query that still has a running job must have lost track of it.
LEMMA ReturnPreserves ==
    ASSUME ClientInv, NEW t \in Callers, Ended(t), Return(t),
           req' = [req EXCEPT ![t] = NoRequest], UNCHANGED <<current, built, slot, key>>,
           \/ learned' = learned /\ (call[t].job \in JobIds => slot[call[t].job] # "running")
           \/ LosesTrack(t)
    PROVE  ClientInv'
<1>1. call \in [Callers -> CallRecords] /\ req \in [Callers -> RequestRecords]
      /\ learned \subseteq JobIds
  BY DEF ClientInv, ClientTypeOK, CallRecords, RequestRecords
<1>2. call' \in [Callers -> CallRecords] /\ call'[t] = IdleCall /\ req'[t] = NoRequest
  BY <1>1 DEF Return, CallRecords, IdleCall
<1>3. OthersKept(t)
  BY <1>1 DEF OthersKept, Return
<1>4. CallOK(t)'
  BY <1>2 DEF CallOK, IdleCall, NoRequest
<1>5. ASSUME NEW j \in learned' PROVE j \in learned /\ ~(j = call[t].job /\ slot[j] = "running")
  BY <1>1 DEF LosesTrack
<1> QED
  BY <1>2, <1>3, <1>4, <1>5, EndedPreserves

\* A request given up counts as ended.
LEMMA GivenUp ==
    ASSUME NEW t, Complete(t) \/ GiveUp(t)
    PROVE  Ended(t)
BY DEF Ended, GiveUp

\* A call that only changes where it is.
LEMMA Moved ==
    ASSUME ClientInv, NEW t \in Callers, NEW pc \in {"pause", "finish"}, Goto(t, pc)
    PROVE  /\ call' \in [Callers -> CallRecords]
           /\ \A u \in Callers \ {t} : call'[u] = call[u]
           /\ call'[t].job = call[t].job /\ call'[t].client = call[t].client
           /\ call'[t].pc = pc
<1>1. call \in [Callers -> CallRecords]
  BY DEF ClientInv, ClientTypeOK, CallRecords
<1> QED
  BY <1>1 DEF Goto, CallRecords

\* A read returns.
LEMMA ReadReturnPreserves ==
    ASSUME ClientInv, NEW t \in Callers, ReadReturn(t)
    PROVE  ClientInv'
<1>1. Ended(t)
  BY GivenUp DEF ReadReturn
<1>2. call[t].job \notin JobIds
  BY ClientAssumption DEF ReadReturn, ClientInv, CallsOK, CallOK
<1> QED
  BY <1>1, <1>2, ReturnPreserves DEF ReadReturn

\* The submission of a query returns, with a job or in vain.
LEMMA SubmitReturnPreserves ==
    ASSUME ClientInv, NEW t \in Callers, SubmitReturn(t)
    PROVE  ClientInv'
<1>1. Ended(t) /\ UNCHANGED <<current, built, slot, key>>
  BY GivenUp DEF SubmitReturn
<1>2. call \in [Callers -> CallRecords] /\ req \in [Callers -> RequestRecords]
      /\ CallOK(t) /\ AnswerOK(t) /\ call[t].pc = "submit"
  BY DEF ClientInv, ClientTypeOK, CallsOK, CallRecords, RequestRecords, SubmitReturn
<1>3. CASE /\ req[t].at = "answered" /\ req[t].answer = "ok"
           /\ call' = [call EXCEPT ![t].pc = "poll", ![t].job = req[t].job]
           /\ req' = [req EXCEPT ![t] = Request]
           /\ learned' = learned \union {req[t].job}
  <2>1. req[t].job \in JobIds /\ slot[req[t].job] # "none"
    BY <1>2, <1>3, Zenon DEF AnswerOK
  <2>2. [call[t] EXCEPT !.pc = "poll", !.job = req[t].job] \in CallRecords
    BY <1>2, <2>1 DEF CallRecords
  <2>3. call' = [call EXCEPT ![t] = [call[t] EXCEPT !.pc = "poll", !.job = req[t].job]]
    BY <1>3
  <2>4. call' \in [Callers -> CallRecords]
    BY <1>2, <2>2, <2>3
  <2>5. OthersKept(t)
    BY <1>2, <1>3 DEF OthersKept
  <2>6. /\ call'[t].pc = "poll" /\ call'[t].job = req[t].job
        /\ call'[t].client = call[t].client
    BY <1>2, <2>3 DEF CallRecords
  <2>7. CallOK(t)'
    BY <1>1, <1>2, <2>1, <2>6 DEF CallOK
  <2>8. call[t].job \notin learned'
    BY <1>2, <1>3, <2>1, ClientAssumption DEF CallOK, ClientInv, ClientTypeOK
  <2>9. \A j \in learned' : j \in learned \/ (j = call'[t].job /\ j \in JobIds /\ slot[j] # "none")
    BY <1>3, <2>1, <2>6
  <2> QED
    BY <1>1, <1>3, <2>4, <2>5, <2>7, <2>8, <2>9, EndedPreserves
<1>4. CASE Return(t) /\ req' = [req EXCEPT ![t] = NoRequest] /\ UNCHANGED learned
  <2>1. call[t].job \notin JobIds
    BY <1>2, ClientAssumption DEF CallOK
  <2> QED
    BY <1>1, <1>4, <2>1, ReturnPreserves
<1> QED
  BY <1>3, <1>4 DEF SubmitReturn, Complete

\* A poll returns: the query pauses, or it returns and has lost track of its job unless
\* the device said that it is done.
LEMMA PollReturnPreserves ==
    ASSUME ClientInv, NEW t \in Callers, PollReturn(t)
    PROVE  ClientInv'
<1>1. /\ Ended(t) /\ UNCHANGED <<current, built, slot, key>>
      /\ req' = [req EXCEPT ![t] = NoRequest]
  BY GivenUp DEF PollReturn
<1>2. call[t].pc = "poll" /\ CallOK(t) /\ AnswerOK(t)
  BY DEF ClientInv, CallsOK, PollReturn
<1>3. CASE Goto(t, "pause") /\ UNCHANGED learned
  <2>1. /\ call' \in [Callers -> CallRecords]
        /\ \A u \in Callers \ {t} : call'[u] = call[u]
        /\ call'[t].job = call[t].job /\ call'[t].client = call[t].client
        /\ call'[t].pc = "pause"
    BY <1>3, Moved
  <2>2. req'[t] = NoRequest /\ OthersKept(t)
    BY <1>1, <2>1 DEF OthersKept, ClientInv, ClientTypeOK
  <2>3. CallOK(t)'
    BY <1>1, <1>2, <2>1, <2>2 DEF CallOK, NoRequest
  <2> QED
    BY <1>1, <1>3, <2>1, <2>2, <2>3, EndedPreserves
<1>4. CASE /\ Complete(t) /\ req[t].answer = "done" /\ Return(t)
           /\ UNCHANGED learned
  <2>1. slot[call[t].job] \in {"done", "finished"}
    BY <1>2, <1>4, Zenon DEF AnswerOK, Complete
  <2> QED
    BY <1>1, <1>4, <2>1, ReturnPreserves
<1>5. CASE Return(t) /\ LosesTrack(t)
  BY <1>1, <1>5, ReturnPreserves
<1> QED
  BY <1>3, <1>4, <1>5 DEF PollReturn

\* A cancelled query, or one past its deadline, keeps its job until action=finish is sent.
LEMMA AbandonPreserves ==
    ASSUME ClientInv, NEW t \in Callers, t \in Queries, Abandon(t)
    PROVE  ClientInv'
<1>1. /\ Ended(t) /\ UNCHANGED <<current, built, slot, key, learned>>
      /\ req' = [req EXCEPT ![t] = Request] /\ call[t].pc \in {"poll", "pause"} /\ CallOK(t)
  BY DEF Abandon, Ended, ClientInv, CallsOK
<1>2. /\ call' \in [Callers -> CallRecords]
      /\ \A u \in Callers \ {t} : call'[u] = call[u]
      /\ call'[t].job = call[t].job /\ call'[t].client = call[t].client
      /\ call'[t].pc = "finish"
  BY Moved DEF Abandon
<1>3. OthersKept(t)
  BY <1>1, <1>2 DEF OthersKept, ClientInv, ClientTypeOK
<1>4. CallOK(t)'
  BY <1>1, <1>2 DEF CallOK
<1> QED
  BY <1>1, <1>2, <1>3, <1>4, EndedPreserves

\* Whatever action=finish yields, the query returns.
LEMMA FinishReturnPreserves ==
    ASSUME ClientInv, NEW t \in Callers, FinishReturn(t)
    PROVE  ClientInv'
<1>1. /\ Ended(t) /\ Return(t) /\ UNCHANGED <<current, built, slot, key>>
      /\ req' = [req EXCEPT ![t] = NoRequest]
  BY GivenUp DEF FinishReturn
<1>2. CASE Complete(t) /\ req[t].answer = "ok" /\ UNCHANGED learned
  <2>1. slot[call[t].job] \in {"done", "finished"}
    BY <1>2, Zenon DEF FinishReturn, ClientInv, CallsOK, AnswerOK, Complete
  <2> QED
    BY <1>1, <1>2, <2>1, ReturnPreserves
<1>3. CASE LosesTrack(t)
  BY <1>1, <1>3, ReturnPreserves
<1> QED
  BY <1>2, <1>3 DEF FinishReturn

\* The device carries out a request, starting or finishing a log job.
LEMMA ServePreserves ==
    ASSUME ClientInv, NEW t \in Callers, Serve(t)
    PROVE  ClientInv'
<1>1. /\ req[t].at = "sent" /\ key = "valid"
      /\ UNCHANGED <<current, built, free, healthy, call, key, judged, learned>>
  BY DEF Serve
<1>2. /\ call \in [Callers -> CallRecords] /\ req \in [Callers -> RequestRecords]
      /\ slot \in [JobIds -> {"none", "running", "done", "finished"}] /\ CallOK(t)
  BY DEF ClientInv, ClientTypeOK, CallsOK, CallRecords, RequestRecords
<1>3. CASE call[t].pc = "submit" /\ StartJob(t)
  <2>1. CASE \E j \in JobIds : /\ slot[j] = "none"
                               /\ slot' = [slot EXCEPT ![j] = "running"]
                               /\ Answered(t, "ok", j)
    <3>1. PICK j \in JobIds : /\ slot[j] = "none"
                              /\ slot' = [slot EXCEPT ![j] = "running"]
                              /\ Answered(t, "ok", j)
      BY <2>1
    <3>2. /\ slot' \in [JobIds -> {"none", "running", "done", "finished"}]
          /\ slot'[j] = "running" /\ SlotsAdvance
      BY <1>2, <3>1 DEF SlotsAdvance
    <3>3. /\ req'[t].at = "answered" /\ req'[t].answer = "ok" /\ req'[t].job = j
      BY <1>2, <3>1 DEF Answered
    <3>4. AnswerOK(t)'
      BY <1>1, <1>3, <3>2, <3>3 DEF AnswerOK, Answers, Rejections
    <3> QED
      BY <1>1, <3>1, <3>2, <3>4, AnsweredPreserves DEF Answers
  <2>2. CASE Answered(t, "error", None) /\ UNCHANGED slot
    <3>1. SlotsAdvance
      BY <2>2 DEF SlotsAdvance
    <3>2. req'[t].at = "answered" /\ req'[t].answer = "error"
      BY <1>2, <2>2 DEF Answered
    <3>3. AnswerOK(t)'
      BY <3>2 DEF AnswerOK, Answers, Rejections
    <3> QED
      BY <1>1, <1>2, <2>2, <3>1, <3>3, AnsweredPreserves DEF Answers
  <2> QED
    BY <1>3, <2>1, <2>2 DEF StartJob
<1>4. CASE call[t].pc = "poll"
  <2> DEFINE a == IF slot[call[t].job] = "done" THEN "done" ELSE "ok"
  <2>1. Answered(t, a, None) /\ UNCHANGED slot
    BY <1>4 DEF Serve
  <2>2. SlotsAdvance
    BY <2>1 DEF SlotsAdvance
  <2>3. req'[t].at = "answered" /\ req'[t].answer = a
    BY <1>2, <2>1 DEF Answered
  <2>4. a \in Answers
    BY DEF Answers
  <2>5. AnswerOK(t)'
    BY <1>1, <1>4, <2>1, <2>3 DEF AnswerOK, Answers, Rejections
  <2> QED
    BY <1>1, <1>2, <2>1, <2>2, <2>4, <2>5, AnsweredPreserves
<1>5. CASE call[t].pc = "finish"
  <2>1. /\ slot' = [slot EXCEPT ![call[t].job] = "finished"]
        /\ Answered(t, "ok", None) /\ call[t].job \in JobIds /\ slot[call[t].job] # "none"
    BY <1>2, <1>5 DEF Serve, CallOK
  <2>2. /\ slot' \in [JobIds -> {"none", "running", "done", "finished"}]
        /\ slot'[call[t].job] = "finished" /\ SlotsAdvance
    BY <1>2, <2>1 DEF SlotsAdvance
  <2>3. req'[t].at = "answered" /\ req'[t].answer = "ok"
    BY <1>2, <2>1 DEF Answered
  <2>4. AnswerOK(t)'
    BY <1>1, <1>5, <2>2, <2>3 DEF AnswerOK, Answers, Rejections
  <2> QED
    BY <1>1, <2>1, <2>2, <2>4, AnsweredPreserves DEF Answers
<1>6. CASE call[t].pc = "read"
  <2>1. Answered(t, "ok", None) /\ UNCHANGED slot
    BY <1>6 DEF Serve
  <2>2. SlotsAdvance
    BY <2>1 DEF SlotsAdvance
  <2>3. req'[t].at = "answered" /\ req'[t].answer = "ok"
    BY <1>2, <2>1 DEF Answered
  <2>4. AnswerOK(t)'
    BY <1>1, <1>6, <2>3 DEF AnswerOK, Answers, Rejections
  <2> QED
    BY <1>1, <1>2, <2>1, <2>2, <2>4, AnsweredPreserves DEF Answers
<1> QED
  BY <1>3, <1>4, <1>5, <1>6 DEF Serve

\* The device refuses the key, or the request fails.
LEMMA RefusePreserves ==
    ASSUME ClientInv, NEW t \in Callers, Refuse(t)
    PROVE  ClientInv'
<1>1. /\ req[t].at = "sent"
      /\ UNCHANGED <<current, built, free, healthy, call, slot, key, judged, learned>>
  BY DEF Refuse
<1>2. PICK a \in {"error", key} : Answered(t, a, None) /\ (a = key => key # "valid")
  BY DEF Refuse, ClientInv, ClientTypeOK, Rejections
<1>3. key \in {"valid"} \union Rejections
  BY DEF ClientInv, ClientTypeOK
<1>4. a \in Answers /\ a \notin {"ok", "done"}
  BY <1>2, <1>3 DEF Answers, Rejections
<1>5. SlotsAdvance /\ slot' \in [JobIds -> {"none", "running", "done", "finished"}]
  BY <1>1 DEF SlotsAdvance, ClientInv, ClientTypeOK
<1>6. req'[t].at = "answered" /\ req'[t].answer = a
  BY <1>2 DEF Answered, ClientInv, ClientTypeOK
<1>7. AnswerOK(t)'
  BY <1>1, <1>2, <1>3, <1>4, <1>6 DEF AnswerOK, Rejections
<1> QED
  BY <1>1, <1>2, <1>4, <1>5, <1>7, AnsweredPreserves

\* A log job ends of itself.
LEMMA EndJobPreserves ==
    ASSUME ClientInv, NEW j \in JobIds, EndJob(j)
    PROVE  ClientInv'
<1>1. /\ SlotsAdvance /\ slot' \in [JobIds -> {"none", "running", "done", "finished"}]
      /\ \A i \in JobIds : slot'[i] = "running" => slot[i] = "running"
  BY DEF EndJob, SlotsAdvance, ClientInv, ClientTypeOK
<1>2. UNCHANGED <<current, built, free, healthy, call, req, key, judged, learned>>
  BY DEF EndJob
<1>3. ClientTypeOK'
  BY <1>1, <1>2, Zenon DEF ClientInv, ClientTypeOK
<1>4. CallsOK'
  <2>1. ASSUME NEW u \in Callers PROVE CallOK(u)' /\ AnswerOK(u)'
    BY <1>1, <1>2, CallKept DEF ClientInv, CallsOK
  <2> QED
    BY <2>1, Zenon DEF CallsOK
<1>5. PermitsConserved' /\ HealthTracksKey'
  BY <1>2, Zenon DEF ClientInv, PermitsConserved, HealthTracksKey, HoldsPermit
<1>6. LearnedOK' /\ AbandonedJobsEnd'
  BY <1>1, <1>2 DEF ClientInv, ClientTypeOK, LearnedOK, AbandonedJobsEnd, InUse, SlotsAdvance
<1> QED
  BY <1>3, <1>4, <1>5, <1>6 DEF ClientInv

\* The key's status changes: answers on the way are late, and nothing is claimed.
LEMMA KeyChangePreserves ==
    ASSUME ClientInv, NEW k \in {"valid"} \union Rejections, KeyChange(k)
    PROVE  ClientInv'
<1>1. /\ key' = k /\ judged' = {}
      /\ UNCHANGED <<current, built, free, healthy, call, slot, learned>>
  BY DEF KeyChange
<1>2. req \in [Callers -> RequestRecords]
  BY DEF ClientInv, ClientTypeOK, RequestRecords
<1>3. ASSUME NEW u \in Callers
      PROVE  /\ req'[u] \in RequestRecords
             /\ req'[u].at = req[u].at /\ req'[u].answer = req[u].answer
             /\ req'[u].job = req[u].job
             /\ req[u].at = "answered" => req'[u].stale = TRUE
  <2> DEFINE r == [req[u] EXCEPT !.stale = TRUE]
  <2>1. req'[u] = IF req[u].at = "answered" THEN r ELSE req[u]
    BY DEF KeyChange
  <2>2. req[u] \in RequestRecords
    BY <1>2
  <2>3. /\ r \in RequestRecords /\ r.at = req[u].at /\ r.answer = req[u].answer
        /\ r.job = req[u].job /\ r.stale = TRUE
    BY <2>2 DEF RequestRecords
  <2> HIDE DEF r
  <2>4. CASE req[u].at = "answered"
    BY <2>1, <2>3, <2>4, Zenon
  <2>5. CASE req[u].at # "answered"
    BY <2>1, <2>2, <2>5, Zenon
  <2> QED
    BY <2>4, <2>5
<1>4. req' \in [Callers -> RequestRecords]
  <2>1. req' = [u \in Callers |-> req'[u]]
    BY DEF KeyChange
  <2> QED
    BY <1>3, <2>1, Zenon
<1>5. ClientTypeOK'
  BY <1>1, <1>4, Zenon DEF ClientInv, ClientTypeOK, RequestRecords
<1>6. CallsOK'
  <2>1. ASSUME NEW u \in Callers PROVE CallOK(u)'
    BY <1>1, <1>3 DEF ClientInv, CallsOK, CallOK
  <2>2. ASSUME NEW u \in Callers, req[u].at = "answered" PROVE AnswerOK(u)'
    <3>1. AnswerOK(u) /\ req'[u].stale # FALSE
      BY <1>3, <2>2 DEF ClientInv, CallsOK
    <3> QED
      BY <1>1, <1>3, <2>2, <3>1, Zenon DEF AnswerOK
  <2>3. ASSUME NEW u \in Callers, req[u].at # "answered" PROVE AnswerOK(u)'
    BY <1>3, <2>3, Zenon DEF AnswerOK
  <2> QED
    BY <2>1, <2>2, <2>3, Zenon DEF CallsOK
<1>7. PermitsConserved'
  <2>1. ASSUME NEW u \in Callers
        PROVE  /\ HoldsPermit(u)' <=> HoldsPermit(u)
               /\ HoldsPermit(u) => call'[u].client = call[u].client
    BY <1>1, <1>3, Zenon DEF HoldsPermit
  <2> QED
    BY <1>1, <2>1, PermitsKept DEF ClientInv
<1>8. LearnedOK' /\ AbandonedJobsEnd' /\ HealthTracksKey'
  BY <1>1, Zenon DEF ClientInv, LearnedOK, AbandonedJobsEnd, InUse, HealthTracksKey
<1> QED
  BY <1>5, <1>6, <1>7, <1>8 DEF ClientInv

\* A reload publishes a new client; its semaphore and its flag are fresh.
LEMMA ReloadPreserves ==
    ASSUME ClientInv, NEW c \in Clients, Reload(c)
    PROVE  ClientInv'
<1>1. UNCHANGED <<free, healthy, call, req, slot, key, judged, learned>>
  BY DEF Reload
<1>2. current' \in built' /\ built' \subseteq Clients
  BY DEF Reload, ClientInv, ClientTypeOK
<1>3. ClientTypeOK'
  BY <1>1, <1>2, Zenon DEF ClientInv, ClientTypeOK
<1>4. CallsOK' /\ LearnedOK' /\ PermitsConserved' /\ HealthTracksKey' /\ AbandonedJobsEnd'
  BY <1>1, Zenon DEF ClientInv, CallsOK, CallOK, AnswerOK, LearnedOK, PermitsConserved,
     HoldsPermit, HealthTracksKey, AbandonedJobsEnd, InUse
<1> QED
  BY <1>3, <1>4 DEF ClientInv

-----------------------------------------------------------------------------
(* The theorems. *)

\* Every step of calls, device and reloads preserves the invariant.
LEMMA NextPreserves == ClientInv /\ [ClientNext]_clientVars => ClientInv'
<1> SUFFICES ASSUME ClientInv, [ClientNext]_clientVars PROVE ClientInv'
  OBVIOUS
<1>1. CASE \E t \in Readers \union Listers : ReadCall(t)
  BY <1>1, CallPreserves DEF Callers
<1>2. CASE \E q \in Queries : QueryCall(q)
  BY <1>2, CallPreserves DEF Callers
<1>3. CASE \E q \in Queries : Abandon(q)
  BY <1>3, AbandonPreserves DEF Callers
<1>4. CASE \E t \in Callers : CallerStep(t)
  <2>1. PICK t \in Callers : CallerStep(t)
    BY <1>4
  <2>2. PollAgain(t) => t \in Queries
    BY DEF PollAgain, ClientInv, CallsOK, CallOK
  <2> QED
    BY <2>1, <2>2, TakePermitPreserves, ReadReturnPreserves, SubmitReturnPreserves,
       PollReturnPreserves, CallPreserves, FinishReturnPreserves DEF CallerStep, QueryStep
<1>5. CASE \E t \in Callers : Serve(t)
  BY <1>5, ServePreserves
<1>6. CASE \E t \in Callers : Refuse(t)
  BY <1>6, RefusePreserves
<1>7. CASE \E j \in JobIds : EndJob(j)
  BY <1>7, EndJobPreserves
<1>8. CASE \E k \in {"valid"} \union Rejections : KeyChange(k)
  BY <1>8, KeyChangePreserves
<1>9. CASE \E c \in Clients : Reload(c)
  BY <1>9, ReloadPreserves
<1>10. CASE UNCHANGED clientVars
  <2>1. UNCHANGED <<current, built, free, healthy, call, req, slot, key, judged, learned>>
    BY <1>10, Zenon DEF clientVars
  <2>2. ClientTypeOK'
    BY <2>1, Zenon DEF ClientInv, ClientTypeOK
  <2>3. CallsOK' /\ LearnedOK'
    BY <2>1, Zenon DEF ClientInv, CallsOK, CallOK, AnswerOK, LearnedOK
  <2>4. PermitsConserved' /\ HealthTracksKey' /\ AbandonedJobsEnd'
    BY <2>1, Zenon DEF ClientInv, PermitsConserved, HoldsPermit, HealthTracksKey,
       AbandonedJobsEnd, InUse
  <2> QED
    BY <2>2, <2>3, <2>4, Zenon DEF ClientInv
<1> QED
  BY <1>1, <1>2, <1>3, <1>4, <1>5, <1>6, <1>7, <1>8, <1>9, <1>10 DEF ClientNext

\* Whatever calls, deadlines, reloads and the device do, the client keeps its
\* variables in their types and the invariant (PanosClient of client.rs).
THEOREM ClientInvariant == ClientSpec => [](ClientInv /\ ClientTypeOK)
<1>1. ClientInit => ClientInv
  BY InitHolds
<1>2. ClientInv => ClientTypeOK
  BY DEF ClientInv
<1> QED
  BY <1>1, <1>2, NextPreserves, PTL DEF ClientSpec

\* No permit of the semaphore is lost or returned twice, however a request ends and
\* whichever client a reload has published meanwhile (send, post).
THEOREM PermitsAreConserved == ClientSpec => []PermitsConserved
<1>1. ClientInv => PermitsConserved
  BY DEF ClientInv
<1> QED
  BY <1>1, ClientInvariant, PTL

\* auth_healthy follows the key's status once an answer under that status was read
\* (record_auth_failure, record_auth_result).
THEOREM HealthFollowsTheKey == ClientSpec => []HealthTracksKey
<1>1. ClientInv => HealthTracksKey
  BY DEF ClientInv
<1> QED
  BY <1>1, ClientInvariant, PTL

\* A cancelled query or one past its deadline leaves no log job behind
\* (poll_log_job, best_effort_finish_log_job).
THEOREM AbandonedJobsAreFinished == ClientSpec => []AbandonedJobsEnd
<1>1. ClientInv => AbandonedJobsEnd
  BY DEF ClientInv
<1> QED
  BY <1>1, ClientInvariant, PTL
=============================================================================
