--------------------------- MODULE PipelineProofs ---------------------------
(***************************************************************************)
(* Proofs about the runs of the pipeline (PipelineRun): the notices that a *)
(* run tells, the history that it sends to the provider, and what bounds   *)
(* it.  For any number of notices, runs, rounds and calls.                 *)
(***************************************************************************)
EXTENDS PipelineRun, FiniteSetTheorems, SequenceTheorems, TLAPS

-----------------------------------------------------------------------------
(* Notices of the pipeline. *)

\* Where a notice may be: not yet there, in the queue or in a context, and told in neither.
NoticeInv ==
  /\ told \in [Notices -> Nat]
  /\ queue \cap inContext = {}
  /\ inContext # {} => stage = "asking"
  /\ queue \cup inContext \subseteq arrived
  /\ \A n \in Notices : n \notin arrived \/ n \in queue \cup inContext => told[n] = 0
  /\ ToldAtMostOnce

LEMMA NoticeStart == RunInit => NoticeInv
  BY DEF RunInit, NoticeInv, ToldAtMostOnce

\* A step that leaves the notices where they are, and stays out of the first request.
LEMMA NoticesStay ==
  ASSUME NoticeInv, UNCHANGED <<queue, arrived, told>>,
         inContext' = {} \/ (inContext' = inContext /\ (stage = "asking" => stage' = "asking"))
  PROVE  NoticeInv'
  BY DEF NoticeInv, ToldAtMostOnce

LEMMA NoticeStep ==
  ASSUME NoticeInv, [RunNext]_runVars
  PROVE  NoticeInv'
<1>1. CASE BuildContext
  <2>1. /\ stage = "idle" /\ stage' = "asking" /\ inContext' \subseteq queue
        /\ queue' = queue \ inContext' /\ UNCHANGED <<arrived, told>>
    BY <1>1 DEF BuildContext, NoticesFor
  <2>2. QED
    BY <2>1 DEF NoticeInv, ToldAtMostOnce
<1>2. ASSUME NEW n \in Notices, NoticeArrives(n)
      PROVE  NoticeInv'
  BY <1>2 DEF NoticeArrives, NoticeInv, ToldAtMostOnce
<1>3. ASSUME NEW r \in Responses, Answered(r)
      PROVE  NoticeInv'
  <2>1. /\ told' = [n \in Notices |-> told[n] + (IF n \in inContext THEN 1 ELSE 0)]
        /\ inContext' = {} /\ UNCHANGED <<queue, arrived>>
    BY <1>3 DEF Answered, EndRun
  <2>2. QED
    BY <2>1 DEF NoticeInv, ToldAtMostOnce
<1>4. CASE AskFails \/ Cancelled \/ BeginRound \/ Execute \/ CloseRound \/ StoreAll
           \/ (\E r \in Responses : AnsweredAgain(r)) \/ UNCHANGED runVars
  <2>1. UNCHANGED <<queue, arrived, told>>
    BY <1>4 DEF AskFails, Cancelled, BeginRound, Execute, StartUnsafe, RefuseCall, FinishCall,
                CloseRound, StoreAll, AnsweredAgain, runVars, noticeVars
  <2>2. inContext' = {} \/ (inContext' = inContext /\ (stage = "asking" => stage' = "asking"))
    BY <1>4 DEF AskFails, Cancelled, EndRun, BeginRound, Execute, StartUnsafe, RefuseCall, FinishCall,
                CloseRound, StoreAll, AnsweredAgain, runVars, noticeVars
  <2>3. QED
    BY <2>1, <2>2, NoticesStay
<1>5. QED
  BY <1>1, <1>2, <1>3, <1>4 DEF RunNext, Proceed, AskAgain

\* A notice is told at most once, over retries, failures and cancellations.
THEOREM NoticesAreToldOnce == RunSpec => []ToldAtMostOnce
<1>1. NoticeInv => ToldAtMostOnce
  BY DEF NoticeInv
<1>2. QED
  BY NoticeStart, NoticeStep, <1>1, PTL DEF RunSpec

-----------------------------------------------------------------------------
(* The largest number of a set. *)

\* A bounded set of numbers has a largest one: its intervals up to the bound are
\* ordered by inclusion, and the smallest of them starts there.
LEMMA LargestNumber ==
  ASSUME NEW n \in Nat, NEW S, S \subseteq 1 .. n, S # {}
  PROVE  \E x \in S : \A y \in S : x >= y
<1>. DEFINE R == StrictSubsetOrdering(1 .. n)
            T == {x .. n : x \in S}
<1>1. IsFiniteSet(1 .. n)
  BY FS_Interval
<1>2. IsWellFoundedOn(R, SUBSET (1 .. n))
  BY <1>1, FS_StrictSubsetOrderingWellFounded, FS_FiniteSubsetsOfFinite
<1>3. T \subseteq SUBSET (1 .. n) /\ T # {}
  <2>1. \A x \in S : (x .. n) \subseteq 1 .. n
    OBVIOUS
  <2>2. QED
    BY <2>1, Zenon
<1>4. PICK t \in T : \A u \in T : <<u, t>> \notin R
  <2>. HIDE DEF R, T
  <2>1. QED
    BY <1>2, <1>3, WFMin
<1>5. PICK x \in S : t = x .. n
  BY <1>4
<1>6. ASSUME NEW y \in S, ~(x >= y)
      PROVE  FALSE
  <2>1. x \in 1 .. n /\ y \in 1 .. n /\ x < y
    BY <1>6
  <2>2. (y .. n) \subseteq (x .. n) /\ x \in (x .. n) /\ x \notin (y .. n)
    BY <2>1
  <2>3. <<y .. n, x .. n>> \in R
    <3>1. (y .. n) \in SUBSET (1 .. n) /\ (x .. n) \in SUBSET (1 .. n)
      BY <2>1
    <3>2. (y .. n) # (x .. n)
      BY <2>2
    <3>3. QED
      BY <2>2, <3>1, <3>2 DEF StrictSubsetOrdering
  <2>4. QED
    BY <1>4, <1>5, <1>6, <2>3
<1>7. QED
  BY <1>6

LEMMA MaxHolds ==
  ASSUME NEW n \in Nat, NEW S, S \subseteq 1 .. n, S # {}
  PROVE  Max(S) \in S /\ \A y \in S : Max(S) >= y
  BY LargestNumber DEF Max

-----------------------------------------------------------------------------
(* The history of a run. *)

Kinds == {"calls", "full", "ref", "cut", "guidance"}
GuidanceIn(h) == {p \in DOMAIN h : h[p][1] = "guidance"}

\* The calls at position p of the history h are followed by their results.
PairedAt(h, p) ==
  \A i \in 1..h[p][2] :
    /\ p + i \in DOMAIN h
    /\ h[p + i][1] \in {"full", "ref", "cut"}
    /\ h[p + i][2] \in i..h[p][2]
    /\ withIds => h[p + i][2] = i

\* The limits of the loop are overrun by one, and that ends it.
LimitInv == RunTypeOK /\ (stage # "storing" => rounds <= MaxRounds /\ repeats <= MaxCalls)

\* Only the round in hand is open, and its calls are the end of the history.
HistoryInv ==
  /\ response \in Seq(Calls)
  /\ context \in Seq(Kinds \X Nat)
  /\ IsFiniteSet(escalated) /\ IsFiniteSet({t \in Tools : errors[t] # 0})
  /\ Cardinality(GuidanceIn(context)) = Cardinality(escalated)
  /\ stage \in {"idle", "asking"} => context = <<>> /\ escalated = {}
  /\ \A p \in DOMAIN context :
       context[p][1] = "calls" => PairedAt(context, p) \/ (stage = "tools" /\ p = Len(context))
  /\ stage = "tools" => context # <<>> /\ context[Len(context)] = <<"calls", Len(response)>>

\* A call is answered by itself, or by a later call of the same tool.
LEMMA SourceIsLater ==
  ASSUME response \in Seq(Calls), NEW i \in 1 .. Len(response)
  PROVE  SourceOf(i) \in i .. Len(response) /\ (withIds => SourceOf(i) = i)
<1>. DEFINE S == {j \in DOMAIN response : ToolOf[response[j]] = ToolOf[response[i]]}
<1>1. Len(response) \in Nat /\ DOMAIN response = 1 .. Len(response)
  OBVIOUS
<1>2. S \subseteq 1 .. Len(response) /\ i \in S
  BY <1>1
<1>3. Max(S) \in S /\ Max(S) >= i
  <2>. HIDE DEF S
  <2>1. QED
    BY <1>1, <1>2, MaxHolds
<1>4. SourceOf(i) = IF withIds THEN i ELSE Max(S)
  BY DEF SourceOf
<1>5. QED
  BY <1>1, <1>2, <1>3, <1>4

\* Errors are counted for finitely many tools, in natural numbers.
LEMMA ErrorsCount ==
  ASSUME response \in Seq(Calls), errors \in [Tools -> Nat], IsFiniteSet({t \in Tools : errors[t] # 0})
  PROVE  ErrorsAfter \in [Tools -> Nat] /\ IsFiniteSet({t \in Tools : ErrorsAfter[t] # 0})
<1>. DEFINE D == 1 .. Len(response)
            Hit(t) == {i \in DOMAIN response : ToolOf[response[i]] = t /\ result[SourceOf(i)] = "error"}
            Called == {ToolOf[response[i]] : i \in D}
            f == [i \in D |-> ToolOf[response[i]]]
            Old == {t \in Tools : errors[t] # 0}
            New == {t \in Tools : ErrorsAfter[t] # 0}
<1>1. Len(response) \in Nat /\ DOMAIN response = D
  OBVIOUS
<1>2. IsFiniteSet(D)
  BY <1>1, FS_Interval
<1>3. ASSUME NEW t \in Tools
      PROVE  Cardinality(Hit(t)) \in Nat /\ (t \notin Called => Cardinality(Hit(t)) = 0)
  <2>1. Hit(t) \in SUBSET D
    BY <1>1
  <2>2. IsFiniteSet(Hit(t))
    <3>. HIDE DEF Hit, D
    <3>1. QED
      BY <1>2, <2>1, FS_Subset
  <2>3. t \notin Called => Hit(t) = {}
    BY <1>1
  <2>4. QED
    <3>. HIDE DEF Hit, D, Called
    <3>1. QED
      BY <2>2, <2>3, FS_CardinalityType, FS_EmptySet
<1>4. ErrorsAfter = [t \in Tools |-> errors[t] + Cardinality(Hit(t))]
  BY DEF ErrorsAfter
<1>. HIDE DEF Hit
<1>5. ErrorsAfter \in [Tools -> Nat]
  BY <1>3, <1>4
<1>6. New \in SUBSET (Old \cup Called)
  BY <1>3, <1>4
<1>7. IsFiniteSet(Called)
  <2>1. f \in Surjection(D, Called)
    BY DEF Surjection
  <2>. HIDE DEF f, D, Called
  <2>2. QED
    BY <1>2, <2>1, FS_Surjection
<1>8. QED
  <2>1. IsFiniteSet(Old)
    OBVIOUS
  <2>. HIDE DEF Old, Called, New
  <2>2. IsFiniteSet(Old \cup Called)
    BY <1>7, <2>1, FS_Union
  <2>3. IsFiniteSet(New)
    BY <1>6, <2>2, FS_Subset
  <2>4. QED
    BY <1>5, <2>3 DEF New

LEMMA JoinHolds ==
  ASSUME NEW S, NEW s \in Seq(S), NEW t \in Seq(S)
  PROVE  /\ s \o t \in Seq(S) /\ Len(s \o t) = Len(s) + Len(t)
         /\ \A p \in 1 .. Len(s) : (s \o t)[p] = s[p]
         /\ \A k \in 1 .. Len(t) : (s \o t)[Len(s) + k] = t[k]
<1>1. Len(s) \in Nat /\ Len(t) \in Nat
  OBVIOUS
<1>2. /\ s \o t \in Seq(S) /\ Len(s \o t) = Len(s) + Len(t)
      /\ \A i \in 1 .. Len(s) + Len(t) : (s \o t)[i] = IF i <= Len(s) THEN s[i] ELSE t[i - Len(s)]
  BY ConcatProperties
<1>3. ASSUME NEW k \in 1 .. Len(t)
      PROVE  (s \o t)[Len(s) + k] = t[k]
  <2>1. Len(s) + k \in 1 .. Len(s) + Len(t) /\ ~(Len(s) + k <= Len(s)) /\ (Len(s) + k) - Len(s) = k
    BY <1>1
  <2>2. QED
    BY <1>2, <2>1
<1>4. QED
  BY <1>1, <1>2, <1>3

\* What a round appends to the history: one result per call, then the guidance.
LEMMA RoundAppends ==
  ASSUME response \in Seq(Calls), context \in Seq(Kinds \X Nat), NEW stored, NEW tools,
         Cardinality(tools) \in Nat,
         context' = context \o RoundMessages(stored, tools)
  PROVE  /\ context' \in Seq(Kinds \X Nat)
         /\ Len(context') = Len(context) + Len(response) + Cardinality(tools)
         /\ \A p \in 1 .. Len(context) : context'[p] = context[p]
         /\ \A i \in 1 .. Len(response) :
              /\ context'[Len(context) + i][1] \in {"full", "ref", "cut"}
              /\ context'[Len(context) + i][2] = SourceOf(i)
         /\ \A p \in Len(context) + Len(response) + 1 .. Len(context') : context'[p] = <<"guidance", 0>>
<1>. DEFINE R == ResultMessages(stored)
            G == Guidance(tools)
            g == Cardinality(tools)
<1>1. Len(response) \in Nat /\ DOMAIN response = 1 .. Len(response) /\ Len(context) \in Nat /\ g \in Nat
  OBVIOUS
<1>2. /\ \A i \in 1 .. Len(response) : R[i][1] \in {"full", "ref", "cut"} /\ R[i][2] = SourceOf(i)
      /\ \A i \in 1 .. Len(response) : R[i] \in Kinds \X Nat
      /\ R = [i \in 1 .. Len(response) |-> R[i]]
  BY <1>1, SourceIsLater DEF ResultMessages, Kinds
<1>3. \A k \in 1 .. g : G[k] = <<"guidance", 0>> /\ G[k] \in Kinds \X Nat
  BY DEF Guidance, Kinds
<1>4. R \in Seq(Kinds \X Nat) /\ Len(R) = Len(response)
  <2>. HIDE DEF R
  <2>1. QED
    BY <1>1, <1>2
<1>5. G \in Seq(Kinds \X Nat) /\ Len(G) = g
  <2>1. G = [k \in 1 .. g |-> G[k]]
    BY DEF Guidance
  <2>. HIDE DEF G, g
  <2>2. G \in [1 .. g -> Kinds \X Nat]
    BY <1>3, <2>1
  <2>3. QED
    BY <1>1, <2>2
<1>6. context' = context \o (R \o G)
  BY DEF RoundMessages
<1>. HIDE DEF R, G, g
<1>. DEFINE RG == R \o G
            n == Len(response)
<1>7. /\ RG \in Seq(Kinds \X Nat) /\ Len(RG) = n + g
      /\ \A i \in 1 .. n : RG[i] = R[i]
      /\ \A k \in 1 .. g : RG[n + k] = G[k]
  <2>. DEFINE M == Kinds \X Nat
  <2>1. R \in Seq(M) /\ G \in Seq(M)
    BY <1>4, <1>5
  <2>. HIDE DEF M
  <2>2. /\ RG \in Seq(M) /\ Len(RG) = Len(R) + Len(G)
        /\ \A i \in 1 .. Len(R) : RG[i] = R[i]
        /\ \A k \in 1 .. Len(G) : RG[Len(R) + k] = G[k]
    BY <2>1, JoinHolds
  <2>3. QED
    BY <1>4, <1>5, <2>2 DEF M
<1>. HIDE DEF RG
<1>8. /\ context' \in Seq(Kinds \X Nat) /\ Len(context') = Len(context) + (n + g)
      /\ \A p \in 1 .. Len(context) : context'[p] = context[p]
      /\ \A k \in 1 .. n + g : context'[Len(context) + k] = RG[k]
  <2>. DEFINE M == Kinds \X Nat
  <2>1. RG \in Seq(M) /\ context \in Seq(M) /\ context' = context \o RG
    BY <1>6, <1>7 DEF RG
  <2>. HIDE DEF M
  <2>2. /\ context' \in Seq(M) /\ Len(context') = Len(context) + Len(RG)
        /\ \A p \in 1 .. Len(context) : context'[p] = context[p]
        /\ \A k \in 1 .. Len(RG) : context'[Len(context) + k] = RG[k]
    BY <2>1, JoinHolds
  <2>3. QED
    BY <1>7, <2>2 DEF M
<1>9. ASSUME NEW p \in Len(context) + n + 1 .. Len(context')
      PROVE  context'[p] = <<"guidance", 0>>
  <2>. DEFINE k == p - (Len(context) + n)
  <2>1. k \in 1 .. g /\ n + k \in 1 .. n + g /\ p = Len(context) + (n + k)
    BY <1>1, <1>8, <1>9
  <2>. HIDE DEF k
  <2>2. QED
    BY <1>3, <1>7, <1>8, <2>1
<1>10. ASSUME NEW i \in 1 .. n
       PROVE  context'[Len(context) + i] = R[i]
  <2>1. i \in 1 .. n + g
    BY <1>1
  <2>2. QED
    BY <1>7, <1>8, <2>1
<1>11. Len(context') = Len(context) + n + g
  BY <1>1, <1>8
<1>12. QED
  BY <1>1, <1>2, <1>8, <1>9, <1>10, <1>11 DEF g

\* The types, with the limits.
LEMMA LimitStart == RunInit => LimitInv
<1>. SUFFICES ASSUME RunInit
              PROVE  LimitInv
  OBVIOUS
<1>1. 0 \in 0 .. MaxAttempts /\ 0 \in 0 .. MaxRounds + 1 /\ 0 \in 0 .. MaxCalls + 1 /\ 0 \in 0 .. MaxRuns
      /\ 0 <= MaxRounds /\ 0 <= MaxCalls
  BY RunAssumption
<1>2. QED
  BY <1>1 DEF RunInit, LimitInv, RunTypeOK

LEMMA LimitEnds ==
  ASSUME LimitInv, EndRun, UNCHANGED <<runs, queue, arrived>>
  PROVE  LimitInv'
<1>1. 0 \in 0 .. MaxAttempts /\ 0 \in 0 .. MaxRounds + 1 /\ 0 \in 0 .. MaxCalls + 1
      /\ 0 <= MaxRounds /\ 0 <= MaxCalls
  BY RunAssumption
<1>2. QED
  BY <1>1 DEF EndRun, LimitInv, RunTypeOK

LEMMA LimitStep ==
  ASSUME LimitInv, HistoryInv, [RunNext]_runVars
  PROVE  LimitInv'
<1>. USE DEF loopVars, noticeVars
<1>0. /\ MaxRounds \in Nat \ {0} /\ MaxCalls \in Nat \ {0} /\ MaxAttempts \in Nat \ {0} /\ MaxRuns \in Nat
      /\ RunTypeOK
  BY RunAssumption DEF LimitInv
<1>1. CASE BuildContext
  <2>1. attempt' = 1 /\ 1 \in 0 .. MaxAttempts
    BY <1>0, <1>1 DEF BuildContext
  <2>2. runs' \in 0 .. MaxRuns
    BY <1>0, <1>1 DEF BuildContext, RunTypeOK
  <2>3. queue' \cup inContext' \subseteq arrived'
    BY <1>0, <1>1 DEF BuildContext, RunTypeOK, NoticesFor
  <2>4. QED
    BY <1>1, <2>1, <2>2, <2>3 DEF BuildContext, LimitInv, RunTypeOK
<1>2. ASSUME NEW n \in Notices, NoticeArrives(n)
      PROVE  LimitInv'
  BY <1>2 DEF NoticeArrives, LimitInv, RunTypeOK
<1>3. ASSUME NEW r \in Responses, Answered(r)
      PROVE  LimitInv'
  <2>1. CASE r = <<>>
    BY <1>3, <2>1, LimitEnds DEF Answered
  <2>2. CASE r # <<>>
    <3>1. 0 \in 0 .. MaxAttempts
      BY <1>0
    <3>2. QED
      BY <1>3, <2>2, <3>1 DEF Answered, LimitInv, RunTypeOK
  <2>3. QED
    BY <2>1, <2>2
<1>4. CASE AskFails
  <2>1. PICK transient \in BOOLEAN :
          IF transient /\ attempt < MaxAttempts
          THEN attempt' = attempt + 1 /\ UNCHANGED <<stage, inline, withIds, inContext, loopVars>>
          ELSE EndRun
    BY <1>4 DEF AskFails
  <2>2. CASE transient /\ attempt < MaxAttempts
    <3>1. attempt' \in 0 .. MaxAttempts
      <4>1. attempt' = attempt + 1
        BY <2>1, <2>2
      <4>2. attempt \in 0 .. MaxAttempts
        BY <1>0 DEF RunTypeOK
      <4>3. QED
        BY <1>0, <2>2, <4>1, <4>2
    <3>2. QED
      BY <1>4, <2>1, <2>2, <3>1 DEF AskFails, LimitInv, RunTypeOK
  <2>3. CASE ~(transient /\ attempt < MaxAttempts)
    BY <1>4, <2>1, <2>3, LimitEnds DEF AskFails
  <2>4. QED
    BY <2>2, <2>3
<1>5. CASE Cancelled \/ StoreAll
  BY <1>5, LimitEnds DEF Cancelled, StoreAll
<1>6. CASE BeginRound
  <2>. DEFINE n == IF RoundSignature(response) = lastSig THEN repeats + 1 ELSE 1
  <2>1. rounds <= MaxRounds /\ repeats <= MaxCalls /\ rounds \in Nat /\ repeats \in Nat
    BY <1>0, <1>6 DEF BeginRound, LimitInv, RunTypeOK
  <2>2. /\ rounds' = rounds + 1 /\ repeats' = n
        /\ IF n > MaxCalls \/ rounds + 1 > MaxRounds THEN stage' = "storing" ELSE stage' = "tools"
        /\ UNCHANGED <<inline, withIds, attempt, response, errors, escalated, runs, queue, arrived, inContext>>
    BY <1>6 DEF BeginRound
  <2>3. n \in Nat /\ n <= MaxCalls + 1 /\ rounds + 1 <= MaxRounds + 1
    BY <1>0, <2>1
  <2>. HIDE DEF n
  <2>4. rounds' \in 0 .. MaxRounds + 1 /\ repeats' \in 0 .. MaxCalls + 1
    BY <1>0, <2>1, <2>2, <2>3
  <2>5. stage' # "storing" => rounds' <= MaxRounds /\ repeats' <= MaxCalls
    BY <1>0, <2>1, <2>2, <2>3
  <2>6. QED
    BY <1>0, <2>2, <2>4, <2>5 DEF LimitInv, RunTypeOK
<1>7. CASE Execute
  <2>1. UNCHANGED <<stage, inline, withIds, attempt, response, rounds, repeats, errors, escalated,
                    runs, queue, arrived, inContext>>
    BY <1>7 DEF Execute, StartUnsafe, RefuseCall, FinishCall
  <2>2. QED
    BY <2>1 DEF LimitInv, RunTypeOK
<1>8. CASE CloseRound
  <2>1. errors' \in [Tools -> Nat]
    BY <1>0, <1>8, ErrorsCount DEF CloseRound, HistoryInv, RunTypeOK
  <2>2. escalated' \subseteq Tools
    BY <1>0, <1>8 DEF CloseRound, RunTypeOK
  <2>3. QED
    BY <1>8, <2>1, <2>2 DEF CloseRound, LimitInv, RunTypeOK
<1>9. ASSUME NEW r \in Responses, AnsweredAgain(r)
      PROVE  LimitInv'
  BY <1>9 DEF AnsweredAgain, LimitInv, RunTypeOK
<1>10. CASE UNCHANGED runVars
  BY <1>10 DEF runVars, LimitInv, RunTypeOK
<1>11. QED
  BY <1>1, <1>2, <1>3, <1>4, <1>5, <1>6, <1>7, <1>8, <1>9, <1>10 DEF RunNext, Proceed, AskAgain

\* The history: it is emptied with the run, ...
LEMMA EmptyHistory ==
  /\ <<>> \in Seq(Calls) /\ <<>> \in Seq(Kinds \X Nat) /\ GuidanceIn(<<>>) = {} /\ DOMAIN <<>> = {}
  /\ IsFiniteSet({}) /\ Cardinality({}) = 0
<1>1. <<>> \in Seq(Calls) /\ <<>> \in Seq(Kinds \X Nat) /\ DOMAIN <<>> = {}
  OBVIOUS
<1>2. GuidanceIn(<<>>) = {}
  BY <1>1 DEF GuidanceIn
<1>3. QED
  BY <1>1, <1>2, FS_EmptySet

LEMMA HistoryStart == RunInit => HistoryInv
<1>. SUFFICES ASSUME RunInit
              PROVE  HistoryInv
  OBVIOUS
<1>1. context = <<>> /\ escalated = {} /\ response = <<>> /\ stage # "tools" /\ {t \in Tools : errors[t] # 0} = {}
  BY DEF RunInit
<1>2. QED
  BY <1>1, EmptyHistory DEF HistoryInv

LEMMA HistoryEnds == EndRun => HistoryInv'
<1>. SUFFICES ASSUME EndRun
              PROVE  HistoryInv'
  OBVIOUS
<1>1. /\ context' = <<>> /\ escalated' = {} /\ response' = <<>> /\ stage' # "tools"
      /\ {t \in Tools : errors'[t] # 0} = {}
  BY DEF EndRun
<1>2. QED
  BY <1>1, EmptyHistory DEF HistoryInv

\* ... kept while nothing is appended, ...
LEMMA HistoryKept ==
  ASSUME HistoryInv, UNCHANGED <<context, escalated, errors>>, response' \in Seq(Calls),
         stage' \in {"idle", "asking"} => context = <<>> /\ escalated = {},
         stage' = "tools" => stage = "tools" /\ response' = response,
         stage = "tools" => stage' = "tools",
         withIds' = withIds \/ context = <<>>
  PROVE  HistoryInv'
<1>1. ASSUME NEW p \in DOMAIN context, context[p][1] = "calls"
      PROVE  PairedAt(context, p)' \/ (stage' = "tools" /\ p = Len(context))
  <2>1. p \in 1 .. Len(context) /\ context # <<>>
    BY <1>1 DEF HistoryInv
  <2>2. withIds' = withIds
    BY <2>1
  <2>3. QED
    BY <1>1, <2>2 DEF HistoryInv, PairedAt
<1>2. GuidanceIn(context)' = GuidanceIn(context)
  BY DEF GuidanceIn
<1>3. QED
  BY <1>1, <1>2 DEF HistoryInv

\* ... extended by the calls of a round, ...
LEMMA HistoryOpens ==
  ASSUME HistoryInv, stage # "tools", stage' = "tools", context' = Append(context, <<"calls", Len(response)>>),
         UNCHANGED <<response, escalated, errors, withIds>>
  PROVE  HistoryInv'
<1>1. /\ Len(context) \in Nat /\ Len(response) \in Nat /\ DOMAIN context = 1 .. Len(context)
      /\ <<"calls", Len(response)>> \in Kinds \X Nat
  BY DEF HistoryInv, Kinds
<1>2. /\ context' \in Seq(Kinds \X Nat) /\ Len(context') = Len(context) + 1
      /\ \A p \in 1 .. Len(context) : context'[p] = context[p]
      /\ context'[Len(context) + 1] = <<"calls", Len(response)>>
      /\ DOMAIN context' = 1 .. Len(context) + 1
  BY <1>1 DEF HistoryInv
<1>3. \A p \in DOMAIN context' : p \in DOMAIN context \/ p = Len(context')
  BY <1>1, <1>2
<1>4. ASSUME NEW p \in DOMAIN context', context'[p][1] = "calls"
      PROVE  PairedAt(context, p)' \/ p = Len(context')
  <2>1. SUFFICES ASSUME p \in DOMAIN context
                 PROVE  PairedAt(context, p)'
    BY <1>3
  <2>2. context'[p] = context[p] /\ PairedAt(context, p)
    BY <1>1, <1>2, <1>4, <2>1 DEF HistoryInv
  <2>3. ASSUME NEW i \in 1 .. context'[p][2]
        PROVE  /\ p + i \in DOMAIN context'
               /\ context'[p + i][1] \in {"full", "ref", "cut"}
               /\ context'[p + i][2] \in i .. context'[p][2]
               /\ withIds' => context'[p + i][2] = i
    <3>1. /\ p + i \in DOMAIN context
          /\ context[p + i][1] \in {"full", "ref", "cut"}
          /\ context[p + i][2] \in i .. context[p][2]
          /\ withIds => context[p + i][2] = i
      BY <2>2, <2>3 DEF PairedAt
    <3>2. context'[p + i] = context[p + i] /\ p + i \in DOMAIN context'
      BY <1>1, <1>2, <3>1
    <3>3. QED
      BY <2>2, <3>1, <3>2
  <2>4. QED
    BY <2>3 DEF PairedAt
<1>5. GuidanceIn(context)' = GuidanceIn(context)
  BY <1>1, <1>2, <1>3 DEF GuidanceIn
<1>6. context' # <<>>
  BY <1>1, <1>2
<1>7. QED
  BY <1>1, <1>2, <1>4, <1>5, <1>6 DEF HistoryInv

\* ... and closed by their results and the guidance.
LEMMA HistoryCloses ==
  ASSUME RunTypeOK, HistoryInv, CloseRound
  PROVE  HistoryInv'
<1>. DEFINE new == {t \in Tools : ErrorsAfter[t] >= Threshold} \ escalated
            L == Len(context)
            n == Len(response)
            g == Cardinality(new)
<1>1. /\ stage = "tools" /\ stage' = "asked again" /\ errors' = ErrorsAfter
      /\ UNCHANGED <<withIds, response>>
      /\ escalated' = escalated \cup new
      /\ \E stored : context' = context \o RoundMessages(stored, new)
  BY DEF CloseRound
<1>2. /\ response \in Seq(Calls) /\ context \in Seq(Kinds \X Nat) /\ IsFiniteSet(escalated)
      /\ Cardinality(GuidanceIn(context)) = Cardinality(escalated)
      /\ context # <<>> /\ context[L] = <<"calls", n>>
      /\ \A p \in DOMAIN context : context[p][1] = "calls" => PairedAt(context, p) \/ p = L
  BY <1>1 DEF HistoryInv
<1>3. L \in Nat \ {0} /\ n \in Nat /\ DOMAIN context = 1 .. L
  BY <1>2
<1>4. ErrorsAfter \in [Tools -> Nat] /\ IsFiniteSet({t \in Tools : ErrorsAfter[t] # 0})
  BY ErrorsCount DEF HistoryInv, RunTypeOK
<1>5. IsFiniteSet(new)
  <2>1. new \in SUBSET {t \in Tools : ErrorsAfter[t] # 0}
    BY <1>4, RunAssumption
  <2>. HIDE DEF new
  <2>2. QED
    BY <1>4, <2>1, FS_Subset
<1>6. new \cap escalated = {}
  OBVIOUS
<1>. HIDE DEF new
<1>7. g \in Nat
  BY <1>5, FS_CardinalityType
<1>8. IsFiniteSet(escalated') /\ Cardinality(escalated') = Cardinality(escalated) + g
  <2>1. escalated \cap new = {}
    BY <1>6
  <2>2. /\ IsFiniteSet(escalated \cup new)
        /\ Cardinality(escalated \cup new) = Cardinality(escalated) + g - Cardinality({})
    BY <1>2, <1>5, <2>1, FS_Union
  <2>3. Cardinality({}) = 0 /\ Cardinality(escalated) \in Nat
    BY <1>2, FS_EmptySet, FS_CardinalityType
  <2>. HIDE DEF g
  <2>4. Cardinality(escalated \cup new) = Cardinality(escalated) + g
    BY <1>7, <2>2, <2>3
  <2>5. QED
    BY <1>1, <2>2, <2>4
<1>9. /\ context' \in Seq(Kinds \X Nat) /\ Len(context') = L + n + g
      /\ \A p \in 1 .. L : context'[p] = context[p]
      /\ \A i \in 1 .. n : context'[L + i][1] \in {"full", "ref", "cut"} /\ context'[L + i][2] = SourceOf(i)
      /\ \A p \in L + n + 1 .. L + n + g : context'[p] = <<"guidance", 0>>
  <2>1. PICK stored : context' = context \o RoundMessages(stored, new)
    BY <1>1
  <2>2. /\ context' \in Seq(Kinds \X Nat)
        /\ Len(context') = Len(context) + Len(response) + Cardinality(new)
        /\ \A p \in 1 .. Len(context) : context'[p] = context[p]
        /\ \A i \in 1 .. Len(response) :
             /\ context'[Len(context) + i][1] \in {"full", "ref", "cut"}
             /\ context'[Len(context) + i][2] = SourceOf(i)
        /\ \A p \in Len(context) + Len(response) + 1 .. Len(context') : context'[p] = <<"guidance", 0>>
    <3>1. response \in Seq(Calls) /\ context \in Seq(Kinds \X Nat) /\ Cardinality(new) \in Nat
      BY <1>2, <1>7
    <3>2. QED
      BY <2>1, <3>1, RoundAppends
  <2>3. QED
    BY <2>2
<1>. HIDE DEF g
<1>10. /\ DOMAIN context' = 1 .. L + n + g
       /\ \A p \in DOMAIN context' :
            \/ p \in 1 .. L
            \/ p \in L + n + 1 .. L + n + g
            \/ \E i \in 1 .. n : p = L + i
  <2>1. DOMAIN context' = 1 .. L + n + g
    BY <1>9
  <2>2. ASSUME NEW p \in 1 .. L + n + g, p \notin 1 .. L, p \notin L + n + 1 .. L + n + g
        PROVE  \E i \in 1 .. n : p = L + i
    <3>1. p - L \in 1 .. n /\ p = L + (p - L)
      BY <1>3, <1>7, <2>2
    <3>2. QED
      BY <3>1
  <2>3. QED
    BY <2>1, <2>2
<1>11. ASSUME NEW p \in DOMAIN context', context'[p][1] = "calls"
       PROVE  PairedAt(context, p)'
  <2>1. p \in 1 .. L /\ context'[p] = context[p]
    <3>1. context'[p][1] # "guidance" /\ context'[p][1] \notin {"full", "ref", "cut"}
      BY <1>11
    <3>2. p \notin L + n + 1 .. L + n + g
      BY <1>9, <3>1
    <3>3. ~ \E i \in 1 .. n : p = L + i
      BY <1>9, <3>1
    <3>4. QED
      BY <1>9, <1>10, <1>11, <3>2, <3>3
  <2>2. ASSUME NEW i \in 1 .. context'[p][2]
        PROVE  /\ p + i \in DOMAIN context'
               /\ context'[p + i][1] \in {"full", "ref", "cut"}
               /\ context'[p + i][2] \in i .. context'[p][2]
               /\ withIds' => context'[p + i][2] = i
    <3>1. CASE p = L
      <4>1. context'[p][2] = n /\ i \in 1 .. n
        BY <1>2, <2>1, <2>2, <3>1
      <4>2. L + i \in DOMAIN context'
        BY <1>3, <1>7, <1>10, <4>1
      <4>3. SourceOf(i) \in i .. n /\ (withIds => SourceOf(i) = i)
        BY <1>2, <4>1, SourceIsLater
      <4>4. QED
        BY <1>1, <1>9, <3>1, <4>1, <4>2, <4>3
    <3>2. CASE p # L
      <4>1. PairedAt(context, p)
        BY <1>2, <1>3, <1>11, <2>1, <3>2
      <4>2. /\ p + i \in 1 .. L
            /\ context[p + i][1] \in {"full", "ref", "cut"}
            /\ context[p + i][2] \in i .. context[p][2]
            /\ withIds => context[p + i][2] = i
        BY <1>3, <2>1, <2>2, <4>1 DEF PairedAt
      <4>3. context'[p + i] = context[p + i] /\ p + i \in DOMAIN context'
        BY <1>3, <1>7, <1>9, <1>10, <4>2
      <4>4. QED
        BY <1>1, <2>1, <4>2, <4>3
    <3>3. QED
      BY <3>1, <3>2
  <2>3. QED
    BY <2>2 DEF PairedAt
<1>12. Cardinality(GuidanceIn(context)') = Cardinality(GuidanceIn(context)) + g
  <2>. DEFINE G == GuidanceIn(context)
              H == L + n + 1 .. L + n + g
  <2>1. GuidanceIn(context)' = G \cup H
    <3>1. \A p \in 1 .. L : p \in GuidanceIn(context)' <=> p \in G
      BY <1>3, <1>7, <1>9, <1>10 DEF GuidanceIn
    <3>2. \A p \in H : p \in GuidanceIn(context)' /\ p \in DOMAIN context'
      BY <1>3, <1>7, <1>9, <1>10 DEF GuidanceIn
    <3>3. \A p \in GuidanceIn(context)' : p \in 1 .. L \/ p \in H
      BY <1>9, <1>10 DEF GuidanceIn
    <3>4. G \subseteq 1 .. L
      BY <1>3 DEF GuidanceIn
    <3>5. QED
      BY <3>1, <3>2, <3>3, <3>4
  <2>2. G \in SUBSET (1 .. L)
    BY <1>3 DEF GuidanceIn
  <2>3. IsFiniteSet(G)
    <3>1. IsFiniteSet(1 .. L)
      BY <1>3, FS_Interval
    <3>. HIDE DEF G
    <3>2. QED
      BY <2>2, <3>1, FS_Subset
  <2>4. IsFiniteSet(H) /\ Cardinality(H) = g
    <3>1. L + n + 1 \in Int /\ L + n + g \in Int
      BY <1>3, <1>7
    <3>2. /\ IsFiniteSet(H)
          /\ Cardinality(H) = IF L + n + 1 > L + n + g THEN 0 ELSE (L + n + g) - (L + n + 1) + 1
      BY <3>1, FS_Interval
    <3>3. QED
      BY <1>3, <1>7, <3>2
  <2>5. G \cap H = {}
    BY <1>3, <1>7, <2>2
  <2>. HIDE DEF G, H
  <2>6. Cardinality(G \cup H) = Cardinality(G) + g - Cardinality({})
    BY <2>3, <2>4, <2>5, FS_Union
  <2>7. Cardinality({}) = 0 /\ Cardinality(G) \in Nat
    BY <2>3, FS_EmptySet, FS_CardinalityType
  <2>8. QED
    BY <1>7, <2>1, <2>6, <2>7 DEF G
<1>13. QED
  BY <1>1, <1>2, <1>4, <1>8, <1>9, <1>11, <1>12 DEF HistoryInv

LEMMA HistoryStep ==
  ASSUME LimitInv, HistoryInv, [RunNext]_runVars
  PROVE  HistoryInv'
<1>. USE DEF loopVars, noticeVars
<1>0. Responses \subseteq Seq(Calls) /\ RunTypeOK /\ response \in Seq(Calls)
  BY RunAssumption DEF LimitInv, HistoryInv
<1>1. CASE BuildContext
  <2>1. UNCHANGED <<context, escalated, errors, response>> /\ stage = "idle" /\ stage' = "asking"
    BY <1>1 DEF BuildContext
  <2>2. context = <<>> /\ escalated = {}
    BY <2>1 DEF HistoryInv
  <2>3. QED
    BY <1>0, <2>1, <2>2, HistoryKept
<1>2. ASSUME NEW k \in Notices, NoticeArrives(k)
      PROVE  HistoryInv'
  BY <1>0, <1>2, HistoryKept DEF NoticeArrives, HistoryInv
<1>3. ASSUME NEW r \in Responses, Answered(r)
      PROVE  HistoryInv'
  <2>1. CASE r = <<>>
    BY <1>3, <2>1, HistoryEnds DEF Answered
  <2>2. CASE r # <<>>
    <3>1. /\ UNCHANGED <<context, escalated, errors, withIds>> /\ response' \in Seq(Calls)
          /\ stage = "asking" /\ stage' = "round"
      BY <1>0, <1>3, <2>2 DEF Answered
    <3>2. QED
      BY <3>1, HistoryKept
  <2>3. QED
    BY <2>1, <2>2
<1>4. CASE AskFails
  <2>1. \/ EndRun
        \/ stage = "asking" /\ UNCHANGED <<stage, withIds, context, escalated, errors, response>>
    BY <1>4 DEF AskFails
  <2>2. QED
    BY <1>0, <2>1, HistoryEnds, HistoryKept DEF HistoryInv
<1>5. CASE Cancelled \/ StoreAll
  BY <1>5, HistoryEnds DEF Cancelled, StoreAll
<1>6. CASE BeginRound
  <2>1. /\ stage = "round" /\ UNCHANGED <<response, escalated, errors, withIds>>
        /\ \/ stage' = "storing" /\ context' = context
           \/ stage' = "tools" /\ context' = Append(context, <<"calls", Len(response)>>)
    BY <1>6 DEF BeginRound
  <2>2. QED
    BY <1>0, <2>1, HistoryKept, HistoryOpens
<1>7. CASE Execute
  <2>1. UNCHANGED <<stage, withIds, response, errors, escalated, context>> /\ stage = "tools"
    BY <1>7 DEF Execute, StartUnsafe, RefuseCall, FinishCall
  <2>2. QED
    BY <1>0, <2>1, HistoryKept
<1>8. CASE CloseRound
  BY <1>0, <1>8, HistoryCloses
<1>9. ASSUME NEW r \in Responses, AnsweredAgain(r)
      PROVE  HistoryInv'
  <2>1. /\ UNCHANGED <<context, escalated, errors, withIds>> /\ response' \in Seq(Calls)
        /\ stage = "asked again" /\ stage' \in {"storing", "round"}
    BY <1>0, <1>9 DEF AnsweredAgain
  <2>2. QED
    BY <2>1, HistoryKept
<1>10. CASE UNCHANGED runVars
  BY <1>0, <1>10, HistoryKept DEF runVars, HistoryInv
<1>11. QED
  BY <1>1, <1>2, <1>3, <1>4, <1>5, <1>6, <1>7, <1>8, <1>9, <1>10 DEF RunNext, Proceed, AskAgain

LEMMA HistoryPaired == HistoryInv => HistoryIsPaired
  BY DEF HistoryInv, HistoryIsPaired, PairedAt, GuidanceIn

\* Whatever the provider calls, with ids or without, inline or not: whenever it is asked again,
\* each message with calls is followed by their results, and no guidance is lost.
THEOREM HistoryStaysPaired == RunSpec => []HistoryIsPaired
<1>. DEFINE Both == LimitInv /\ HistoryInv
<1>1. RunInit => Both
  BY LimitStart, HistoryStart
<1>2. Both /\ [RunNext]_runVars => Both'
  BY LimitStep, HistoryStep
<1>3. Both => HistoryIsPaired
  BY HistoryPaired
<1>4. QED
  BY <1>1, <1>2, <1>3, PTL DEF RunSpec

-----------------------------------------------------------------------------
(* What bounds a run. *)

\* The smallest number of a set, as the largest of its mirror image.
LEMMA MinHolds ==
  ASSUME NEW n \in Nat, NEW S, S \subseteq 1 .. n, S # {}
  PROVE  Min(S) \in S
<1>. DEFINE T == {(n + 1) - x : x \in S}
<1>1. T \subseteq 1 .. n /\ T # {}
  <2>1. \A x \in S : (n + 1) - x \in 1 .. n
    OBVIOUS
  <2>2. QED
    BY <2>1, Zenon
<1>2. PICK t \in T : \A u \in T : t >= u
  <2>. HIDE DEF T
  <2>1. QED
    BY <1>1, LargestNumber
<1>3. PICK x \in S : t = (n + 1) - x
  BY <1>2
<1>4. \A y \in S : x <= y
  <2>1. ASSUME NEW y \in S
        PROVE  x <= y
    <3>1. (n + 1) - y \in T /\ x \in 1 .. n /\ y \in 1 .. n
      OBVIOUS
    <3>2. QED
      BY <1>2, <1>3, <3>1
  <2>2. QED
    BY <2>1
<1>5. QED
  BY <1>4 DEF Min

CallStates == {"todo", "running", "ok", "error"}

\* Every call of the round in hand has a state.
ResultInv == stage = "tools" => result \in [DOMAIN response -> CallStates]

\* The start of a call, its refusal and its end: one call changes.
LEMMA ToolCallStep ==
  ASSUME HistoryInv, ResultInv, Execute
  PROVE  /\ stage = "tools" /\ UNCHANGED <<stage, attempt, response, rounds>>
         /\ \E i \in DOMAIN response, o \in CallStates :
              /\ result' = [result EXCEPT ![i] = o]
              /\ \/ result[i] = "todo" /\ o = "running"
                 \/ result[i] = "running" /\ o \in {"ok", "error"}
<1>1. stage = "tools" /\ UNCHANGED <<stage, attempt, response, rounds>>
  BY DEF Execute, StartUnsafe, RefuseCall, FinishCall
<1>2. DOMAIN result = DOMAIN response
  BY <1>1 DEF ResultInv
<1>3. CASE StartUnsafe
  <2>. DEFINE S == {i \in DOMAIN result : result[i] = "todo"}
  <2>1. S # {} /\ result' = [result EXCEPT ![Min(S)] = "running"]
    BY <1>3 DEF StartUnsafe
  <2>2. Len(response) \in Nat /\ S \subseteq 1 .. Len(response)
    BY <1>2 DEF HistoryInv
  <2>3. Min(S) \in S
    <3>. HIDE DEF S
    <3>1. QED
      BY <2>1, <2>2, MinHolds
  <2>4. QED
    BY <1>1, <1>2, <2>1, <2>3 DEF CallStates
<1>4. ASSUME NEW i \in DOMAIN result, RefuseCall(i)
      PROVE  result' = [result EXCEPT ![i] = "error"] /\ result[i] = "running"
  BY <1>4 DEF RefuseCall
<1>5. ASSUME NEW i \in DOMAIN result, NEW o \in {"ok", "error"}, FinishCall(i, o)
      PROVE  result' = [result EXCEPT ![i] = o] /\ result[i] = "running"
  BY <1>5 DEF FinishCall
<1>6. QED
  BY <1>1, <1>2, <1>3, <1>4, <1>5 DEF Execute, CallStates

LEMMA ResultStart == RunInit => ResultInv
  BY DEF RunInit, ResultInv

LEMMA ResultStep ==
  ASSUME HistoryInv, ResultInv, [RunNext]_runVars
  PROVE  ResultInv'
<1>. USE DEF loopVars
<1>1. CASE Execute
  <2>1. PICK i \in DOMAIN response, o \in CallStates : result' = [result EXCEPT ![i] = o]
    BY <1>1, ToolCallStep
  <2>2. result \in [DOMAIN response -> CallStates] /\ response' = response
    BY <1>1, ToolCallStep DEF ResultInv
  <2>3. QED
    BY <2>1, <2>2 DEF ResultInv
<1>2. CASE BeginRound
  BY <1>2 DEF BeginRound, ResultInv, CallStates
<1>3. CASE BuildContext \/ AskAgain \/ CloseRound \/ StoreAll \/ Cancelled
  BY <1>3 DEF BuildContext, AskAgain, Answered, AnsweredAgain, CloseRound, StoreAll, Cancelled, EndRun, ResultInv
<1>4. CASE AskFails
  BY <1>4 DEF AskFails, EndRun, ResultInv
<1>5. CASE UNCHANGED runVars \/ \E n \in Notices : NoticeArrives(n)
  BY <1>5 DEF runVars, NoticeArrives, ResultInv
<1>6. QED
  BY <1>1, <1>2, <1>3, <1>4, <1>5 DEF RunNext, Proceed

\* Every step of a run uses up what it has of rounds, stages, attempts and calls.
LEMMA RunMoves ==
  ASSUME LimitInv, HistoryInv, ResultInv, [RunNext]_runVars,
         ~ UNCHANGED <<stage, inline, withIds, attempt, loopVars, runs, inContext, told>>,
         stage # "idle"
  PROVE  \/ stage' = "idle"
         \/ rounds < rounds' /\ rounds' <= MaxRounds + 1
         \/ rounds' = rounds /\ Ahead[stage'] < Ahead[stage]
         \/ UNCHANGED <<rounds, stage>> /\ attempt < attempt' /\ attempt' <= MaxAttempts
         \/ /\ UNCHANGED <<rounds, stage, response>> /\ stage = "tools"
            /\ \A i \in DOMAIN response : Steps[result'[i]] <= Steps[result[i]]
            /\ \E i \in DOMAIN response : Steps[result'[i]] < Steps[result[i]]
<1>0. /\ rounds \in Nat /\ attempt \in Nat /\ MaxRounds \in Nat /\ MaxAttempts \in Nat
      /\ stage # "storing" => rounds <= MaxRounds
  <2>1. MaxRounds \in Nat /\ MaxAttempts \in Nat
    BY RunAssumption
  <2>2. rounds \in 0 .. MaxRounds + 1 /\ attempt \in 0 .. MaxAttempts
    BY DEF LimitInv, RunTypeOK
  <2>3. stage # "storing" => rounds <= MaxRounds
    BY DEF LimitInv
  <2>4. QED
    BY <2>1, <2>2, <2>3
<1>1. /\ Ahead["asked again"] < Ahead["tools"] /\ Ahead["round"] < Ahead["asking"]
      /\ Ahead["round"] < Ahead["asked again"] /\ Ahead["storing"] < Ahead["asked again"]
  BY DEF Ahead
<1>2. CASE Execute
  <2>1. PICK i \in DOMAIN response, o \in CallStates :
          /\ result' = [result EXCEPT ![i] = o]
          /\ \/ result[i] = "todo" /\ o = "running"
             \/ result[i] = "running" /\ o \in {"ok", "error"}
    BY <1>2, ToolCallStep
  <2>2. UNCHANGED <<rounds, stage, response>> /\ stage = "tools" /\ result \in [DOMAIN response -> CallStates]
    BY <1>2, ToolCallStep DEF ResultInv
  <2>3. Steps["todo"] = 2 /\ Steps["running"] = 1 /\ Steps["ok"] = 0 /\ Steps["error"] = 0
    BY DEF Steps
  <2>4. result'[i] = o /\ \A j \in DOMAIN response : j # i => result'[j] = result[j]
    BY <2>1, <2>2
  <2>5. Steps[result'[i]] < Steps[result[i]]
    BY <2>1, <2>3, <2>4
  <2>6. ASSUME NEW j \in DOMAIN response
        PROVE  Steps[result'[j]] <= Steps[result[j]]
    <3>1. Steps[result[j]] \in Nat
      BY <2>2, <2>3 DEF CallStates
    <3>2. CASE j = i
      BY <2>1, <2>3, <2>4, <3>2
    <3>3. CASE j # i
      <4>1. result'[j] = result[j]
        BY <2>4, <3>3
      <4>2. QED
        BY <3>1, <4>1
    <3>4. QED
      BY <3>2, <3>3
  <2>7. QED
    BY <2>2, <2>5, <2>6
<1>3. CASE BeginRound
  BY <1>0, <1>3 DEF BeginRound
<1>4. ASSUME NEW r \in Responses, Answered(r)
      PROVE  stage' = "idle" \/ (rounds' = rounds /\ Ahead[stage'] < Ahead[stage])
  <2>1. \/ stage' = "idle"
        \/ stage = "asking" /\ stage' = "round" /\ rounds' = rounds
    BY <1>4 DEF Answered, EndRun
  <2>2. QED
    BY <1>1, <2>1, Zenon
<1>5. ASSUME NEW r \in Responses, AnsweredAgain(r)
      PROVE  rounds' = rounds /\ Ahead[stage'] < Ahead[stage]
  <2>1. stage = "asked again" /\ stage' \in {"storing", "round"} /\ rounds' = rounds
    BY <1>5 DEF AnsweredAgain
  <2>2. QED
    BY <1>1, <2>1, Zenon
<1>6. CASE AskFails
  <2>1. PICK transient \in BOOLEAN :
          IF transient /\ attempt < MaxAttempts
          THEN attempt' = attempt + 1 /\ UNCHANGED <<stage, inline, withIds, inContext, loopVars>>
          ELSE EndRun
    BY <1>6 DEF AskFails
  <2>2. CASE transient /\ attempt < MaxAttempts
    <3>1. attempt' = attempt + 1 /\ UNCHANGED <<rounds, stage>>
      BY <2>1, <2>2 DEF loopVars
    <3>2. QED
      BY <1>0, <2>2, <3>1
  <2>3. CASE ~(transient /\ attempt < MaxAttempts)
    BY <2>1, <2>3 DEF EndRun
  <2>4. QED
    BY <2>2, <2>3
<1>7. CASE CloseRound
  <2>1. stage = "tools" /\ stage' = "asked again" /\ rounds' = rounds
    BY <1>7 DEF CloseRound
  <2>2. QED
    BY <1>1, <2>1, Zenon
<1>8. CASE StoreAll \/ Cancelled
  BY <1>8 DEF StoreAll, Cancelled, EndRun
<1>9. ~ BuildContext
  BY DEF BuildContext
<1>10. ~ (UNCHANGED runVars \/ \E n \in Notices : NoticeArrives(n))
  BY DEF runVars, NoticeArrives, loopVars
<1>11. QED
  BY <1>2, <1>3, <1>4, <1>5, <1>6, <1>7, <1>8, <1>9, <1>10 DEF RunNext, Proceed, AskAgain

\* A run is bounded by the limits of its loop, for any model, tools and errors.
THEOREM RunsGoOn == RunSpec => RunsMoveOn
<1>. DEFINE I == LimitInv /\ HistoryInv /\ ResultInv
<1>1. RunInit => I
  BY LimitStart, HistoryStart, ResultStart
<1>2. I /\ [RunNext]_runVars => I'
  BY LimitStep, HistoryStep, ResultStep
<1>3. I /\ [RunNext]_runVars =>
        [stage # "idle" =>
           \/ stage' = "idle"
           \/ rounds < rounds' /\ rounds' <= MaxRounds + 1
           \/ rounds' = rounds /\ Ahead[stage'] < Ahead[stage]
           \/ UNCHANGED <<rounds, stage>> /\ attempt < attempt' /\ attempt' <= MaxAttempts
           \/ /\ UNCHANGED <<rounds, stage, response>> /\ stage = "tools"
              /\ \A i \in DOMAIN response : Steps[result'[i]] <= Steps[result[i]]
              /\ \E i \in DOMAIN response : Steps[result'[i]] < Steps[result[i]]
        ]_<<stage, inline, withIds, attempt, loopVars, runs, inContext, told>>
  BY RunMoves
<1>4. QED
  <2>. HIDE DEF I
  <2>1. QED
    BY <1>1, <1>2, <1>3, PTL DEF RunSpec, RunsMoveOn

=============================================================================
