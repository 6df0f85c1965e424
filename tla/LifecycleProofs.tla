-------------------------- MODULE LifecycleProofs --------------------------
(***************************************************************************)
(* Proofs about the life of a message (MessageLifecycle).  For any         *)
(* messages and conversations, crashes, link losses and failures, those of *)
(* the cache among them: the types; a row of the server's cache says       *)
(* "processing" only while the job that holds the AI lock is at work on    *)
(* its conversation, or where a crash or a write that raised left it; an   *)
(* answer is stored before it is delivered, unless its write raised.       *)
(* While the link holds and no timeout fires: messages are tracked until   *)
(* they are answered, and each gets its own answer.                        *)
(***************************************************************************)
EXTENDS MessageLifecycle, FiniteSetTheorems, SequenceTheorems, TLAPS

-----------------------------------------------------------------------------
(* What is in a queue, and what is in it once. *)

In(s, y) == \E i \in 1 .. Len(s) : s[i] = y
Once(s, y) == \A i, k \in 1 .. Len(s) : s[i] = y /\ s[k] = y => i = k

LEMMA TailHolds ==
  ASSUME NEW S, NEW s \in Seq(S), s # <<>>
  PROVE  /\ Tail(s) \in Seq(S) /\ In(s, Head(s))
         /\ \A y : /\ In(Tail(s), y) => In(s, y)
                   /\ Once(s, y) => Once(Tail(s), y)
                   /\ Once(s, y) /\ Head(s) = y => ~In(Tail(s), y)
<1>1. /\ Tail(s) \in Seq(S) /\ Len(s) \in Nat \ {0} /\ Len(Tail(s)) = Len(s) - 1
      /\ \A i \in 1 .. Len(Tail(s)) : Tail(s)[i] = s[i + 1]
      /\ Head(s) = s[1]
  OBVIOUS
<1>2. In(s, Head(s))
  BY <1>1 DEF In
<1>3. ASSUME NEW y
      PROVE  /\ In(Tail(s), y) => In(s, y)
             /\ Once(s, y) => Once(Tail(s), y)
             /\ Once(s, y) /\ Head(s) = y => ~In(Tail(s), y)
  <2>1. \A i \in 1 .. Len(Tail(s)) : i + 1 \in 1 .. Len(s) /\ i + 1 # 1
    BY <1>1
  <2>2. In(Tail(s), y) => In(s, y)
    BY <1>1, <2>1 DEF In
  <2>3. ASSUME Once(s, y), NEW i \in 1 .. Len(Tail(s)), NEW k \in 1 .. Len(Tail(s)),
               Tail(s)[i] = y, Tail(s)[k] = y
        PROVE  i = k
    <3>1. s[i + 1] = y /\ s[k + 1] = y
      BY <1>1, <2>3
    <3>2. i + 1 = k + 1
      BY <2>1, <2>3, <3>1 DEF Once
    <3>3. QED
      BY <3>2, <1>1
  <2>4. ASSUME Once(s, y), Head(s) = y, NEW i \in 1 .. Len(Tail(s)), Tail(s)[i] = y
        PROVE  FALSE
    <3>1. s[i + 1] = y /\ s[1] = y /\ 1 \in 1 .. Len(s)
      BY <1>1, <2>4
    <3>2. i + 1 = 1
      BY <2>1, <2>4, <3>1 DEF Once
    <3>3. QED
      BY <2>1, <3>2
  <2>5. QED
    BY <2>2, <2>3, <2>4 DEF In, Once
<1>4. QED
  BY <1>1, <1>2, <1>3

LEMMA AppendHolds ==
  ASSUME NEW S, NEW s \in Seq(S), NEW e \in S
  PROVE  /\ Append(s, e) \in Seq(S)
         /\ \A y : /\ In(Append(s, e), y) => In(s, y) \/ y = e
                   /\ Once(s, y) /\ y # e => Once(Append(s, e), y)
                   /\ ~In(s, e) => Once(Append(s, e), e)
<1>1. /\ Append(s, e) \in Seq(S) /\ Len(s) \in Nat /\ Len(Append(s, e)) = Len(s) + 1
      /\ \A i \in 1 .. Len(s) : Append(s, e)[i] = s[i]
      /\ Append(s, e)[Len(s) + 1] = e
  OBVIOUS
<1>2. \A i \in 1 .. Len(Append(s, e)) : i \in 1 .. Len(s) \/ i = Len(s) + 1
  BY <1>1
<1>3. QED
  BY <1>1, <1>2 DEF In, Once

LEMMA ConcatHolds ==
  ASSUME NEW S, NEW s \in Seq(S), NEW q \in Seq(S)
  PROVE  /\ s \o q \in Seq(S)
         /\ \A y : ~In(q, y) => /\ In(s \o q, y) => In(s, y)
                                /\ Once(s, y) => Once(s \o q, y)
<1>1. s \o q \in Seq(S)
  BY ConcatProperties
<1>2. /\ Len(s) \in Nat /\ Len(q) \in Nat /\ Len(s \o q) = Len(s) + Len(q)
      /\ \A i \in 1 .. Len(s) + Len(q) :
            (s \o q)[i] = IF i <= Len(s) THEN s[i] ELSE q[i - Len(s)]
  BY ConcatProperties, LenProperties
<1>3. \A i \in 1 .. Len(s \o q) : \/ i \in 1 .. Len(s) /\ (s \o q)[i] = s[i]
                                  \/ i - Len(s) \in 1 .. Len(q) /\ (s \o q)[i] = q[i - Len(s)]
  BY <1>2
<1>4. ASSUME NEW y, ~In(q, y)
      PROVE  \A i \in 1 .. Len(s \o q) :
                (s \o q)[i] = y => i \in 1 .. Len(s) /\ s[i] = y
  BY <1>3, <1>4 DEF In
<1>5. QED
  BY <1>1, <1>4 DEF In, Once

-----------------------------------------------------------------------------
(* Types. *)

\* What an event may do to the entries of the bridge: none is new again.
Moves ==
  /\ bridge' \in [Messages -> BridgePhase]
  /\ \A m \in Messages : bridge'[m] = "new" <=> bridge[m] = "new"
  /\ outbox' \subseteq outbox
  /\ answer' \in [Messages -> Messages \cup {None, Apology}]

LEMMA ResolveMoves ==
  ASSUME TypeOK, NEW c, NEW r \in Messages \cup {None, Apology}, Resolve(c, r)
  PROVE  Moves
<1>. DEFINE hit == IF conn THEN PendingIn(c) ELSE {}
<1>1. \A m \in hit : bridge[m] \in Pending
  BY DEF PendingIn, Of
<1>2. /\ bridge' = [m \in Messages |-> IF m \in hit THEN "answered" ELSE bridge[m]]
      /\ answer' = [m \in Messages |-> IF m \in hit THEN r ELSE answer[m]]
      /\ outbox' = outbox
  BY DEF Resolve
<1>. HIDE DEF hit
<1>3. QED
  BY <1>1, <1>2 DEF Moves, TypeOK, BridgePhase, Pending

LEMMA AdvanceMoves ==
  ASSUME TypeOK, NEW c, NEW to \in {"queued", "processing"}, NEW from \in {"ack", "queued"},
         Advance(c, from, to)
  PROVE  Moves
  BY DEF Advance, Moves, TypeOK, BridgePhase, Pending

LEMMA RejectMoves ==
  ASSUME TypeOK, RejectAll
  PROVE  Moves
  BY DEF RejectAll, Moves, TypeOK, BridgePhase, Pending

LEMMA NothingMoves ==
  ASSUME TypeOK, UNCHANGED bridgeVars
  PROVE  Moves
  BY DEF bridgeVars, Moves, TypeOK

\* The queue gains no request to store or to recover.
Drains ==
  \A y \in {"put", "recover"} \X Jobs : /\ In(inbox', y) => In(inbox, y)
                                        /\ Once(inbox, y) => Once(inbox', y)

\* The socket opens: queries only are appended.
LEMMA ConnectQueue ==
  ASSUME TypeOK, Connect
  PROVE  inbox' \in Seq({"put", "query", "recover"} \X Jobs) /\ Drains
<1>1. PICK order \in SetToSeqs({c \in Conversations : PendingIn(c) # {}}) :
         inbox' = inbox \o [i \in DOMAIN order |-> <<"query", order[i]>>]
  BY DEF Connect
<1>. DEFINE queries == [i \in DOMAIN order |-> <<"query", order[i]>>]
<1>2. order \in Seq(Conversations)
  <2>. DEFINE asked == {c \in Conversations : PendingIn(c) # {}}
  <2>1. asked \subseteq Conversations
    OBVIOUS
  <2>2. Cardinality(asked) \in Nat
    BY <2>1, LifecycleAssumption, FS_Subset, FS_CardinalityType
  <2>3. order \in [1 .. Cardinality(asked) -> asked]
    BY DEF SetToSeqs
  <2>. HIDE DEF asked
  <2>4. QED
    BY <2>1, <2>2, <2>3
<1>3. /\ queries \in Seq({"put", "query", "recover"} \X Jobs)
      /\ \A i \in 1 .. Len(queries) : queries[i] = <<"query", order[i]>>
  BY <1>2 DEF Jobs
<1>4. \A y \in {"put", "recover"} \X Jobs : ~In(queries, y)
  BY <1>3 DEF In
<1>5. QED
  BY <1>1, <1>3, <1>4, ConcatHolds DEF Drains, TypeOK

\* A step of the lock changes the turn of one job.
LEMMA TurnTypes ==
  ASSUME TypeOK, NEW j \in Jobs \cup Background,
         Lock!Ask(j) \/ Lock!Start(j) \/ Lock!Finish(j) \/ Lock!Refuse(j)
  PROVE  /\ turn' \in [Jobs \cup Background -> Lock!Stages]
         /\ \A k \in (Jobs \cup Background) \ {j} : turn'[k] = turn[k]
         /\ Lock!Start(j) => turn'[j] = "running"
  BY DEF TypeOK, Lock!Ask, Lock!Start, Lock!Finish, Lock!Refuse, Lock!Stages

\* The message a job works on is known from the moment it asks for the lock.
EntryInv ==
  \A c \in Conversations :
    pc[c] \in {"asked", "held", "typing", "storedDone", "storedError"} => entry[c] # NoRow

LEMMA WorkTypes ==
  ASSUME TypeOK, EntryInv, NEW j \in Jobs,
         pc[j] \in {"asked", "held", "typing", "storedDone", "storedError"}
  PROVE  Work(j) \in Messages /\ Conv(j) \in Conversations
<1>1. CASE j \in Messages
  BY <1>1, LifecycleAssumption DEF Work, Conv
<1>2. CASE j \notin Messages
  <2>1. j \in Conversations /\ entry[j] \in Row /\ entry[j] # NoRow
    BY <1>2 DEF Jobs, EntryInv, TypeOK
  <2>2. entry[j].msg \in Messages
    BY <2>1 DEF Row
  <2>3. QED
    BY <1>2, <2>1, <2>2 DEF Work, Conv
<1>3. QED
  BY <1>1, <1>2

\* What the cache gives to those who read it is a row.
LEMMA ReadTypes ==
  ASSUME TypeOK, NEW c \in Conversations, NEW found \in CacheReads(c)
  PROVE  found \in Row
  BY DEF TypeOK, CacheReads, Row

\* The write of an outcome, done or not.
LEMMA OutcomeTypes ==
  ASSUME TypeOK, NEW c \in Conversations, NEW r \in Row, WriteOutcome(c, r)
  PROVE  /\ row' \in [Conversations -> Row] /\ unsettled' \subseteq Conversations
         /\ UNCHANGED <<leftover, untracked>>
         /\ \A d \in Conversations \ {c} : row'[d] = row[d] /\ (d \in unsettled' <=> d \in unsettled)
         /\ \/ row'[c] = r /\ unsettled' = unsettled \ {c}
            \/ row'[c] = row[c] /\ c \in unsettled' /\ row[c] # NoRow
  BY DEF WriteOutcome, TypeOK

\* What is written into a row is a row.
LEMMA RowTypes ==
  ASSUME TypeOK, NEW c \in Conversations, NEW r \in Row
  PROVE  [row EXCEPT ![c] = r] \in [Conversations -> Row]
  BY DEF TypeOK

LEMMA RowIsRow ==
  ASSUME NEW r \in Row, r # NoRow
  PROVE  r \in [state : RowState, msg : Messages, response : Messages \cup {None}]
  BY DEF Row

\* The end of a run makes a row that says so, and leaves a missing row missing.
LEMMA OutcomeOf ==
  ASSUME TypeOK, NEW j \in Jobs, NEW ok \in BOOLEAN, Store(j, ok),
         Work(j) \in Messages, Conv(j) \in Conversations
  PROVE  \E r \in Row :
           /\ WriteOutcome(Conv(j), r)
           /\ row[Conv(j)] = NoRow <=> r = NoRow
           /\ r # NoRow =>
                /\ r.msg = row[Conv(j)].msg
                /\ r.state = IF ok THEN "done" ELSE "error"
                /\ r.response = IF ok THEN Work(j) ELSE row[Conv(j)].response
<1>. DEFINE c == Conv(j)
            r == IF row[c] = NoRow THEN NoRow
                 ELSE IF ok THEN [row[c] EXCEPT !.state = "done", !.response = Work(j)]
                 ELSE [row[c] EXCEPT !.state = "error"]
<1>1. WriteOutcome(c, r)
  BY DEF Store
<1>2. row[c] \in Row
  BY DEF TypeOK
<1>3. ASSUME row[c] # NoRow
      PROVE  /\ r \in [state : {"done", "error"}, msg : Messages, response : Messages \cup {None}]
             /\ r.msg = row[c].msg
             /\ r.state = IF ok THEN "done" ELSE "error"
             /\ r.response = IF ok THEN Work(j) ELSE row[c].response
  BY <1>2, <1>3, RowIsRow
<1>4. row[c] = NoRow => r = NoRow
  OBVIOUS
<1>. HIDE DEF r
<1>5. r \in Row
  BY <1>3, <1>4 DEF Row, RowState
<1>6. row[c] # NoRow => r # NoRow
  BY <1>3 DEF NoRow
<1>7. QED
  BY <1>1, <1>3, <1>4, <1>5, <1>6

\* The answer to a query, whatever the cache gives.
LEMMA QueryMoves ==
  ASSUME TypeOK, NEW c \in Conversations, AnswerQuery(c)
  PROVE  Moves /\ outbox' = outbox
<1>. PICK found \in CacheReads(c) :
       CASE found.state = "done" -> Resolve(c, found.response)
         [] found.state \in {"error", "absent"} ->
              /\ bridge' = [m \in Messages |->
                              IF conn /\ m \in PendingIn(c) THEN "failed" ELSE bridge[m]]
              /\ UNCHANGED <<outbox, answer>>
         [] OTHER -> UNCHANGED bridgeVars
  BY DEF AnswerQuery
<1>1. CASE found.state = "done"
  <2>1. found \in Row /\ found # NoRow
    BY <1>1, ReadTypes DEF NoRow
  <2>2. found.response \in Messages \cup {None, Apology}
    BY <2>1, RowIsRow
  <2>3. Resolve(c, found.response)
    BY <1>1
  <2>4. QED
    BY <2>2, <2>3, ResolveMoves DEF Resolve
<1>2. CASE found.state \in {"error", "absent"}
  <2>1. \A m \in PendingIn(c) : bridge[m] # "new"
    BY DEF PendingIn, Pending
  <2>2. /\ bridge' = [m \in Messages |-> IF conn /\ m \in PendingIn(c) THEN "failed" ELSE bridge[m]]
        /\ UNCHANGED <<outbox, answer>>
    BY <1>2
  <2>3. QED
    BY <2>1, <2>2 DEF Moves, TypeOK, BridgePhase
<1>3. CASE found.state \notin {"done", "error", "absent"}
  BY <1>3, NothingMoves DEF bridgeVars
<1>4. QED
  BY <1>1, <1>2, <1>3

\* The server's process and the expiry of rows.
LEMMA ServerTypes ==
  ASSUME TypeOK, Boot \/ RequeueLost \/ Serve \/ Crash \/ \E c \in Conversations : Expire(c)
  PROVE  TypeOK'
<1>. USE DEF bridgeVars, linkVars, cacheVars, serverVars, jobVars
<1>1. CASE Boot \/ Serve
  BY <1>1 DEF Boot, Serve, TypeOK
<1>2. CASE RequeueLost
  <2>1. pc' = [j \in Jobs |-> pc[j]] /\ turn' = [j \in Jobs \cup Background |-> turn[j]]
    BY <1>2 DEF RequeueLost, Subscribed
  <2>2. pc' = pc /\ turn' = turn
    BY <2>1 DEF TypeOK
  <2>3. QED
    BY <1>2, <2>2 DEF RequeueLost, TypeOK
<1>3. CASE Crash
  <2>1. Moves
    BY <1>3, RejectMoves, NothingMoves DEF Crash
  <2>2. crashes' \in 0 .. MaxCrashes
    <3>1. crashes \in 0 .. MaxCrashes /\ crashes < MaxCrashes /\ crashes' = crashes + 1
      BY <1>3 DEF Crash, TypeOK
    <3>2. QED
      BY <3>1, LifecycleAssumption
  <2>3. /\ phase' = "down" /\ conn' = FALSE /\ inbox' = <<>> /\ UNCHANGED <<drops, row>>
        /\ leftover' \subseteq Conversations /\ untracked' = {} /\ unsettled' = {}
    BY <1>3 DEF Crash
  <2>4. /\ pc' \in [Jobs -> PC] /\ turn' \in [Jobs \cup Background -> Lock!Stages]
        /\ entry' \in [Conversations -> Row]
    <3>1. "none" \in PC /\ "idle" \in Lock!Stages /\ NoRow \in Row
      BY DEF PC, Lock!Stages, Row
    <3>2. /\ pc' = [j \in Jobs |-> "none"] /\ turn' = [j \in Jobs \cup Background |-> "idle"]
          /\ entry' = [c \in Conversations |-> NoRow]
      BY <1>3 DEF Crash
    <3>3. QED
      BY <3>1, <3>2
  <2>5. inbox' \in Seq({"put", "query", "recover"} \X Jobs)
    BY <2>3
  <2>6. QED
    BY <2>1, <2>2, <2>3, <2>4, <2>5 DEF TypeOK, Moves
<1>4. ASSUME NEW c \in Conversations, Expire(c)
      PROVE  TypeOK'
  <2>1. row' \in [Conversations -> Row]
    BY <1>4, RowTypes DEF Expire, Row
  <2>2. QED
    BY <1>4, <2>1 DEF Expire, TypeOK
<1>5. QED
  BY <1>1, <1>2, <1>3, <1>4

\* The bridge and the link.
LEMMA BridgeTypes ==
  ASSUME TypeOK,
         \/ Connect \/ LoseLink \/ BridgeDies
         \/ \E m \in Messages : Register(m) \/ Send(m) \/ GiveUp(m) \/ InactivityTimeout(m)
  PROVE  TypeOK'
<1>. USE DEF bridgeVars, linkVars, cacheVars, serverVars, jobVars
<1>1. CASE Connect
  <2>4. inbox' \in Seq({"put", "query", "recover"} \X Jobs)
    BY <1>1, ConnectQueue
  <2>5. conn' = TRUE /\ UNCHANGED <<drops, bridgeVars, cacheVars, serverVars, jobVars>>
    BY <1>1 DEF Connect
  <2>6. QED
    BY <2>4, <2>5 DEF TypeOK
<1>2. CASE LoseLink
  <2>1. Moves
    BY <1>2, RejectMoves DEF LoseLink
  <2>2. drops' \in 0 .. MaxDrops
    <3>1. /\ drops \in 0 .. MaxDrops /\ crashes \in 0 .. MaxCrashes
          /\ drops + crashes < MaxDrops /\ drops' = drops + 1
      BY <1>2 DEF LoseLink, TypeOK
    <3>2. QED
      BY <3>1, LifecycleAssumption
  <2>3. conn' = FALSE /\ UNCHANGED <<inbox, cacheVars, serverVars, jobVars>>
    BY <1>2 DEF LoseLink
  <2>4. QED
    BY <2>1, <2>2, <2>3 DEF TypeOK, Moves
<1>3. CASE BridgeDies
  <2>1. Moves
    BY <1>3, RejectMoves DEF BridgeDies
  <2>2. UNCHANGED <<linkVars, cacheVars, serverVars, jobVars>>
    BY <1>3 DEF BridgeDies
  <2>3. QED
    BY <2>1, <2>2 DEF TypeOK, Moves
<1>4. ASSUME NEW m \in Messages, Register(m) \/ GiveUp(m)
      PROVE  TypeOK'
  <2>1. bridge' \in [Messages -> BridgePhase] /\ outbox' \subseteq Messages
    BY <1>4 DEF Register, GiveUp, TypeOK, BridgePhase, Pending
  <2>2. UNCHANGED <<answer, linkVars, cacheVars, serverVars, jobVars>>
    BY <1>4 DEF Register, GiveUp
  <2>3. QED
    BY <2>1, <2>2 DEF TypeOK
<1>5. ASSUME NEW m \in Messages, Send(m)
      PROVE  TypeOK'
  <2>1. pc' \in [Jobs -> PC] /\ outbox' \subseteq Messages
    BY <1>5 DEF Send, TypeOK, PC, Jobs
  <2>2. inbox' \in Seq({"put", "query", "recover"} \X Jobs)
    <3>1. inbox' = Append(inbox, <<"put", m>>)
      BY <1>5 DEF Send
    <3>2. <<"put", m>> \in {"put", "query", "recover"} \X Jobs
      BY DEF Jobs
    <3>3. QED
      BY <3>1, <3>2, AppendHolds DEF TypeOK
  <2>3. UNCHANGED <<bridge, answer, conn, drops, cacheVars, serverVars, entry, turn>>
    BY <1>5 DEF Send
  <2>4. QED
    BY <2>1, <2>2, <2>3 DEF TypeOK
<1>6. ASSUME NEW m \in Messages, InactivityTimeout(m)
      PROVE  TypeOK'
  <2>1. ConvOf[m] \in Conversations
    BY LifecycleAssumption
  <2>2. pc' \in [Jobs -> PC] /\ bridge' \in [Messages -> BridgePhase]
    BY <1>6, <2>1 DEF InactivityTimeout, TypeOK, PC, BridgePhase, Pending
  <2>3. inbox' \in Seq({"put", "query", "recover"} \X Jobs)
    <3>1. inbox' = Append(inbox, <<"recover", ConvOf[m]>>)
      BY <1>6 DEF InactivityTimeout
    <3>2. <<"recover", ConvOf[m]>> \in {"put", "query", "recover"} \X Jobs
      BY <2>1 DEF Jobs
    <3>3. QED
      BY <3>1, <3>2, AppendHolds DEF TypeOK
  <2>4. UNCHANGED <<outbox, answer, conn, drops, cacheVars, serverVars, entry, turn>>
    BY <1>6 DEF InactivityTimeout
  <2>5. QED
    BY <2>2, <2>3, <2>4 DEF TypeOK
<1>7. QED
  BY <1>1, <1>2, <1>3, <1>4, <1>5, <1>6

\* The WebSocket server and the pipeline handler.
LEMMA HandlerTypes ==
  ASSUME TypeOK, EntryInv,
         \/ \E m \in Messages : Put(m) \/ AckAndPublish(m)
         \/ \E c \in Conversations : AnswerQuery(c) \/ RecoverRead(c) \/ RecoverAct(c)
         \/ \E b \in Background : Other(b)
  PROVE  TypeOK'
<1>. USE DEF bridgeVars, linkVars, cacheVars, serverVars, jobVars
<1>1. ASSUME NEW m \in Messages, Put(m)
      PROVE  TypeOK'
  <2>1. ConvOf[m] \in Conversations /\ m \in Jobs
    BY LifecycleAssumption DEF Jobs
  <2>2. row' \in [Conversations -> Row]
    <3>1. [state |-> "queued", msg |-> m, response |-> None] \in Row
      BY DEF Row, RowState
    <3>2. row' = row \/ row' = [row EXCEPT ![ConvOf[m]] = [state |-> "queued", msg |-> m, response |-> None]]
      BY <1>1 DEF Put
    <3>3. QED
      BY <2>1, <3>1, <3>2, RowTypes DEF TypeOK
  <2>3. inbox' \in Seq({"put", "query", "recover"} \X Jobs)
    BY <1>1, TailHolds DEF Put, Serves, TypeOK
  <2>4. /\ pc' \in [Jobs -> PC] /\ leftover' \subseteq Conversations
        /\ untracked' \subseteq Conversations /\ unsettled' \subseteq Conversations
    BY <1>1, <2>1 DEF Put, TypeOK, PC
  <2>5. UNCHANGED <<bridgeVars, conn, drops, serverVars, entry, turn>>
    BY <1>1 DEF Put
  <2>6. QED
    BY <2>2, <2>3, <2>4, <2>5 DEF TypeOK
<1>2. ASSUME NEW m \in Messages, AckAndPublish(m)
      PROVE  TypeOK'
  <2>1. Moves
    BY <1>2, AdvanceMoves DEF AckAndPublish
  <2>2. turn' \in [Jobs \cup Background -> Lock!Stages]
    BY <1>2, TurnTypes DEF AckAndPublish, Jobs
  <2>3. pc' \in [Jobs -> PC]
    BY <1>2 DEF AckAndPublish, TypeOK, PC
  <2>4. UNCHANGED <<linkVars, cacheVars, serverVars, entry>>
    BY <1>2 DEF AckAndPublish
  <2>5. QED
    BY <2>1, <2>2, <2>3, <2>4 DEF TypeOK, Moves
<1>3. ASSUME NEW c \in Conversations, AnswerQuery(c)
      PROVE  TypeOK'
  <2>1. inbox' \in Seq({"put", "query", "recover"} \X Jobs)
    BY <1>3, TailHolds DEF AnswerQuery, Serves, TypeOK
  <2>2. Moves
    BY <1>3, QueryMoves
  <2>3. UNCHANGED <<conn, drops, cacheVars, serverVars, jobVars>>
    BY <1>3 DEF AnswerQuery
  <2>4. QED
    BY <2>1, <2>2, <2>3 DEF TypeOK, Moves
<1>4. ASSUME NEW c \in Conversations, RecoverRead(c)
      PROVE  TypeOK'
  <2>1. inbox' \in Seq({"put", "query", "recover"} \X Jobs)
    BY <1>4, TailHolds DEF RecoverRead, Serves, TypeOK
  <2>2. pc' \in [Jobs -> PC] /\ entry' \in [Conversations -> Row]
    BY <1>4, ReadTypes DEF RecoverRead, TypeOK, PC
  <2>3. UNCHANGED <<bridgeVars, conn, drops, cacheVars, serverVars, turn>>
    BY <1>4 DEF RecoverRead
  <2>4. QED
    BY <2>1, <2>2, <2>3 DEF TypeOK
<1>5. ASSUME NEW c \in Conversations, RecoverAct(c)
      PROVE  TypeOK'
  <2>1. pc' \in [Jobs -> PC] /\ UNCHANGED <<linkVars, cacheVars, serverVars, entry>>
    BY <1>5 DEF RecoverAct, TypeOK, PC
  <2>2. Moves /\ turn' \in [Jobs \cup Background -> Lock!Stages]
    <3>1. CASE entry[c].state \in Unfinished
      BY <1>5, <3>1, NothingMoves, TurnTypes DEF RecoverAct, Jobs
    <3>2. CASE entry[c].state \notin Unfinished
      <4>1. /\ Resolve(c, IF entry[c].state = "done" THEN entry[c].response ELSE Apology)
            /\ turn' = turn
        BY <1>5, <3>2 DEF RecoverAct
      <4>2. entry[c].state = "done" => entry[c] \in Row /\ entry[c] # NoRow
        BY DEF TypeOK, NoRow
      <4>3. (IF entry[c].state = "done" THEN entry[c].response ELSE Apology)
              \in Messages \cup {None, Apology}
        BY <4>2, RowIsRow
      <4>4. QED
        BY <4>1, <4>3, ResolveMoves DEF TypeOK
    <3>3. QED
      BY <3>1, <3>2
  <2>3. QED
    BY <2>1, <2>2 DEF TypeOK, Moves
<1>6. ASSUME NEW b \in Background, Other(b)
      PROVE  TypeOK'
  <2>1. turn' \in [Jobs \cup Background -> Lock!Stages]
    BY <1>6, TurnTypes DEF Other
  <2>2. UNCHANGED <<bridgeVars, linkVars, cacheVars, serverVars, pc, entry>>
    BY <1>6 DEF Other
  <2>3. QED
    BY <2>1, <2>2 DEF TypeOK
<1>7. QED
  BY <1>1, <1>2, <1>3, <1>4, <1>5, <1>6

\* A job under the lock.
LEMMA JobTypes ==
  ASSUME TypeOK, EntryInv, NEW j \in Jobs,
         \/ Acquire(j) \/ Refuse(j) \/ NoProvider(j) \/ StartTyping(j)
         \/ \E ok \in BOOLEAN : Store(j, ok)
         \/ Respond(j)
  PROVE  TypeOK'
<1>. USE DEF bridgeVars, linkVars, cacheVars, serverVars, jobVars
<1>1. CASE Acquire(j) \/ Refuse(j) \/ NoProvider(j)
  <2>1. turn' \in [Jobs \cup Background -> Lock!Stages]
    BY <1>1, TurnTypes DEF Acquire, Refuse, NoProvider
  <2>2. pc' \in [Jobs -> PC]
    BY <1>1 DEF Acquire, Refuse, NoProvider, TypeOK, PC
  <2>3. UNCHANGED <<bridgeVars, linkVars, cacheVars, serverVars, entry>>
    BY <1>1 DEF Acquire, Refuse, NoProvider
  <2>4. QED
    BY <2>1, <2>2, <2>3 DEF TypeOK
<1>2. CASE StartTyping(j)
  <2>1. Conv(j) \in Conversations
    BY <1>2, WorkTypes DEF StartTyping
  <2>2. Moves
    BY <1>2, AdvanceMoves DEF StartTyping
  <2>3. row' \in [Conversations -> Row]
    <3>1. (IF row[Conv(j)] = NoRow THEN row[Conv(j)]
           ELSE [row[Conv(j)] EXCEPT !.state = "processing"]) \in Row
      <4>1. row[Conv(j)] \in Row
        BY <2>1 DEF TypeOK
      <4>2. QED
        BY <4>1, RowIsRow DEF Row, RowState
    <3>2. \/ row' = row
          \/ row' = [row EXCEPT ![Conv(j)] = IF row[Conv(j)] = NoRow THEN row[Conv(j)]
                                             ELSE [row[Conv(j)] EXCEPT !.state = "processing"]]
      BY <1>2 DEF StartTyping
    <3>3. QED
      BY <2>1, <3>1, <3>2, RowTypes DEF TypeOK
  <2>4. pc' \in [Jobs -> PC] /\ unsettled' \subseteq Conversations
    BY <1>2 DEF StartTyping, TypeOK, PC
  <2>5. UNCHANGED <<leftover, untracked, linkVars, serverVars, entry, turn>>
    BY <1>2 DEF StartTyping
  <2>6. QED
    BY <2>2, <2>3, <2>4, <2>5 DEF TypeOK, Moves
<1>3. ASSUME NEW ok \in BOOLEAN, Store(j, ok)
      PROVE  TypeOK'
  <2>1. Work(j) \in Messages /\ Conv(j) \in Conversations
    BY <1>3, WorkTypes DEF Store, Over
  <2>2. /\ row' \in [Conversations -> Row] /\ unsettled' \subseteq Conversations
        /\ UNCHANGED <<leftover, untracked>>
    <3>1. PICK r \in Row : WriteOutcome(Conv(j), r)
      BY <1>3, <2>1, OutcomeOf
    <3>2. QED
      BY <2>1, <3>1, OutcomeTypes
  <2>3. pc' \in [Jobs -> PC]
    BY <1>3 DEF Store, TypeOK, PC
  <2>4. UNCHANGED <<bridgeVars, linkVars, serverVars, entry, turn>>
    BY <1>3 DEF Store
  <2>5. QED
    BY <2>2, <2>3, <2>4 DEF TypeOK
<1>4. CASE Respond(j)
  <2>1. Work(j) \in Messages
    BY <1>4, WorkTypes DEF Respond
  <2>2. Moves
    <3>1. (IF pc[j] = "storedDone" THEN Work(j) ELSE Apology) \in Messages \cup {None, Apology}
      BY <2>1
    <3>2. QED
      BY <1>4, <3>1, ResolveMoves DEF Respond
  <2>3. turn' \in [Jobs \cup Background -> Lock!Stages] /\ pc' \in [Jobs -> PC]
    BY <1>4, TurnTypes DEF Respond, TypeOK, PC
  <2>4. UNCHANGED <<linkVars, cacheVars, serverVars, entry>>
    BY <1>4 DEF Respond
  <2>5. QED
    BY <2>2, <2>3, <2>4 DEF TypeOK, Moves
<1>5. QED
  BY <1>1, <1>2, <1>3, <1>4

-----------------------------------------------------------------------------
(* The flow of requests. *)

\* A conversation asks for its recovery once, and nobody works on it before it is read.
RecoverInv ==
  \A c \in Conversations : /\ Once(inbox, <<"recover", c>>)
                           /\ In(inbox, <<"recover", c>>) => pc[c] = "received"

\* A message the bridge has not sent is not known to the server.
FreshInv ==
  \A m \in Messages : /\ bridge[m] = "new" \/ m \in outbox => pc[m] = "none" /\ ~In(inbox, <<"put", m>>)
                      /\ m \in outbox => bridge[m] # "new"

FlowInv == EntryInv /\ RecoverInv /\ FreshInv

LEMMA FlowStays ==
  ASSUME FlowInv, Moves, Drains, UNCHANGED <<pc, entry>>
  PROVE  FlowInv'
<1>1. EntryInv'
  BY DEF FlowInv, EntryInv
<1>2. RecoverInv'
  BY DEF FlowInv, RecoverInv, Drains, Jobs
<1>3. FreshInv'
  BY DEF FlowInv, FreshInv, Drains, Moves, Jobs
<1>4. QED
  BY <1>1, <1>2, <1>3 DEF FlowInv

LEMMA SameQueue ==
  ASSUME inbox' = inbox
  PROVE  Drains
  BY DEF Drains

\* A job that the server works on goes one step further.
Asked == {"asked", "held", "typing", "storedDone", "storedError"}

LEMMA FlowGoesOn ==
  ASSUME FlowInv, Moves, UNCHANGED <<inbox, entry>>, NEW j \in Jobs,
         pc[j] \notin {"none", "received"}, \A k \in Jobs \ {j} : pc'[k] = pc[k],
         pc'[j] \in Asked => pc[j] \in Asked \/ j \notin Conversations \/ entry[j] # NoRow
  PROVE  FlowInv'
<1>1. EntryInv'
  BY DEF FlowInv, EntryInv, Asked, Jobs
<1>2. RecoverInv'
  <2>1. \A c \in Conversations : In(inbox, <<"recover", c>>) => c # j
    BY DEF FlowInv, RecoverInv
  <2>2. \A c \in Conversations \ {j} : pc'[c] = pc[c]
    BY DEF Jobs
  <2>3. QED
    BY <2>1, <2>2 DEF FlowInv, RecoverInv
<1>3. FreshInv'
  <2>1. \A m \in Messages : bridge'[m] = "new" \/ m \in outbox' => bridge[m] = "new" \/ m \in outbox
    BY DEF Moves
  <2>2. \A m \in Messages : bridge[m] = "new" \/ m \in outbox => m # j /\ pc'[m] = "none"
    BY DEF FlowInv, FreshInv, Jobs
  <2>3. \A m \in Messages : m \in outbox' => bridge'[m] # "new"
    BY DEF FlowInv, FreshInv, Moves
  <2>4. QED
    BY <2>1, <2>2, <2>3 DEF FlowInv, FreshInv
<1>4. QED
  BY <1>1, <1>2, <1>3 DEF FlowInv

\* The steps between crash and crash that only move what is there.
LEMMA FlowQuiet ==
  ASSUME TypeOK, FlowInv,
         \/ Boot \/ RequeueLost \/ Serve \/ LoseLink \/ BridgeDies \/ Connect
         \/ \E c \in Conversations : Expire(c) \/ AnswerQuery(c)
         \/ \E m \in Messages : GiveUp(m)
         \/ \E b \in Background : Other(b)
  PROVE  FlowInv'
<1>. USE DEF bridgeVars, linkVars, cacheVars, serverVars, jobVars
<1>1. CASE Boot \/ Serve
  <2>1. UNCHANGED <<bridge, outbox, answer, inbox, pc, entry>>
    BY <1>1 DEF Boot, Serve
  <2>2. QED
    BY <2>1, NothingMoves, SameQueue, FlowStays
<1>2. CASE RequeueLost
  <2>1. UNCHANGED <<bridge, outbox, answer, inbox, entry>>
    BY <1>2 DEF RequeueLost
  <2>2. pc' = [j \in Jobs |-> pc[j]]
    BY <1>2 DEF RequeueLost, Subscribed
  <2>3. pc' = pc
    BY <2>2 DEF TypeOK
  <2>4. QED
    BY <2>1, <2>3, NothingMoves, SameQueue, FlowStays
<1>3. CASE LoseLink \/ BridgeDies
  BY <1>3, RejectMoves, SameQueue, FlowStays DEF LoseLink, BridgeDies
<1>4. CASE Connect
  <2>5. Drains
    BY <1>4, ConnectQueue
  <2>6. UNCHANGED <<bridge, outbox, answer, pc, entry>>
    BY <1>4 DEF Connect
  <2>7. QED
    BY <2>5, <2>6, NothingMoves, FlowStays
<1>5. ASSUME NEW c \in Conversations, Expire(c)
      PROVE  FlowInv'
  BY <1>5, NothingMoves, SameQueue, FlowStays DEF Expire
<1>6. ASSUME NEW c \in Conversations, AnswerQuery(c)
      PROVE  FlowInv'
  <2>1. Drains
    BY <1>6, TailHolds DEF AnswerQuery, Serves, Drains, TypeOK
  <2>2. TypeOK'
    BY <1>6, HandlerTypes DEF FlowInv
  <2>4. Moves
    BY <1>6, QueryMoves
  <2>5. UNCHANGED <<pc, entry>>
    BY <1>6 DEF AnswerQuery
  <2>6. QED
    BY <2>1, <2>4, <2>5, FlowStays
<1>7. ASSUME NEW m \in Messages, GiveUp(m)
      PROVE  FlowInv'
  <2>1. Moves
    BY <1>7 DEF GiveUp, Moves, TypeOK, BridgePhase, Pending
  <2>2. UNCHANGED <<inbox, pc, entry>>
    BY <1>7 DEF GiveUp
  <2>3. QED
    BY <2>1, <2>2, SameQueue, FlowStays
<1>8. ASSUME NEW b \in Background, Other(b)
      PROVE  FlowInv'
  BY <1>8, NothingMoves, SameQueue, FlowStays DEF Other
<1>9. QED
  BY <1>1, <1>2, <1>3, <1>4, <1>5, <1>6, <1>7, <1>8

\* A crash empties the queue of the server.
LEMMA FlowCrash ==
  ASSUME TypeOK, FlowInv, Crash
  PROVE  FlowInv'
<1>1. /\ inbox' = <<>> /\ pc' = [j \in Jobs |-> "none"]
  BY DEF Crash
<1>2. \A y : ~In(inbox', y) /\ Once(inbox', y)
  BY <1>1 DEF In, Once
<1>3. Moves
  BY RejectMoves, NothingMoves DEF Crash
<1>4. EntryInv'
  BY <1>1 DEF EntryInv, Jobs
<1>5. RecoverInv'
  BY <1>2 DEF RecoverInv
<1>6. FreshInv'
  <2>1. \A m \in Messages : pc'[m] = "none"
    BY <1>1 DEF Jobs
  <2>2. \A m \in Messages : m \in outbox' => bridge'[m] # "new"
    BY <1>3 DEF Moves, FlowInv, FreshInv
  <2>3. QED
    BY <1>2, <2>1, <2>2 DEF FreshInv
<1>7. QED
  BY <1>4, <1>5, <1>6 DEF FlowInv

\* The bridge registers and sends.
LEMMA FlowSends ==
  ASSUME TypeOK, FlowInv, NEW m \in Messages, Register(m) \/ Send(m) \/ InactivityTimeout(m)
  PROVE  FlowInv'
<1>. USE DEF linkVars, jobVars
<1>0. m \in Jobs /\ ConvOf[m] \in Conversations /\ m \notin Conversations /\ ConvOf[m] \notin Messages
  BY LifecycleAssumption DEF Jobs
<1>1. CASE Register(m)
  <2>1. /\ UNCHANGED <<inbox, pc, entry>> /\ outbox' = outbox \cup {m}
        /\ bridge' = [bridge EXCEPT ![m] = "ack"] /\ bridge[m] = "new"
    BY <1>1 DEF Register
  <2>2. bridge'[m] = "ack" /\ \A x \in Messages \ {m} : bridge'[x] = bridge[x]
    BY <2>1 DEF TypeOK
  <2>3. FreshInv'
    BY <2>1, <2>2 DEF FlowInv, FreshInv
  <2>4. QED
    BY <2>1, <2>3 DEF FlowInv, EntryInv, RecoverInv
<1>2. CASE Send(m)
  <2>1. /\ UNCHANGED <<bridge, entry>> /\ outbox' = outbox \ {m} /\ m \in outbox
        /\ inbox' = Append(inbox, <<"put", m>>) /\ pc' = [pc EXCEPT ![m] = "received"]
    BY <1>2 DEF Send
  <2>2. <<"put", m>> \in {"put", "query", "recover"} \X Jobs
    BY <1>0
  <2>3. \A y : /\ In(inbox', y) => In(inbox, y) \/ y = <<"put", m>>
               /\ Once(inbox, y) /\ y # <<"put", m>> => Once(inbox', y)
    <3>1. inbox \in Seq({"put", "query", "recover"} \X Jobs)
      BY DEF TypeOK
    <3>2. QED
      BY <2>1, <2>2, <3>1, AppendHolds
  <2>4. \A j \in Jobs \ {m} : pc'[j] = pc[j]
    BY <2>1 DEF TypeOK
  <2>5. EntryInv'
    BY <1>0, <2>1, <2>4 DEF FlowInv, EntryInv, Jobs
  <2>6. RecoverInv'
    BY <1>0, <2>3, <2>4 DEF FlowInv, RecoverInv, Jobs
  <2>7. FreshInv'
    BY <2>1, <2>3, <2>4 DEF FlowInv, FreshInv, Jobs
  <2>8. QED
    BY <2>5, <2>6, <2>7 DEF FlowInv
<1>3. CASE InactivityTimeout(m)
  <2>. DEFINE c == ConvOf[m]
  <2>1. /\ UNCHANGED <<outbox, entry>> /\ bridge[m] = "processing" /\ pc[c] = "none"
        /\ bridge' = [bridge EXCEPT ![m] = "recovering"]
        /\ inbox' = Append(inbox, <<"recover", c>>) /\ pc' = [pc EXCEPT ![c] = "received"]
    BY <1>3 DEF InactivityTimeout
  <2>. HIDE DEF c
  <2>c. c \in Conversations /\ c \in Jobs /\ c \notin Messages
    BY <1>0 DEF c, Jobs
  <2>2. <<"recover", c>> \in {"put", "query", "recover"} \X Jobs
    BY <2>c
  <2>3. ~In(inbox, <<"recover", c>>)
    BY <2>1, <2>c DEF FlowInv, RecoverInv
  <2>4. \A y : /\ In(inbox', y) => In(inbox, y) \/ y = <<"recover", c>>
               /\ Once(inbox, y) /\ y # <<"recover", c>> => Once(inbox', y)
               /\ Once(inbox', <<"recover", c>>)
    BY <2>1, <2>2, <2>3, AppendHolds DEF TypeOK
  <2>5. pc'[c] = "received" /\ \A j \in Jobs \ {c} : pc'[j] = pc[j]
    BY <2>1, <2>c DEF TypeOK
  <2>6. EntryInv'
    BY <2>1, <2>5 DEF FlowInv, EntryInv, Jobs
  <2>7. RecoverInv'
    <3>1. ASSUME NEW d \in Conversations
          PROVE  /\ Once(inbox', <<"recover", d>>)
                 /\ In(inbox', <<"recover", d>>) => pc'[d] = "received"
      <4>1. CASE d = c
        BY <2>4, <2>5, <4>1
      <4>2. CASE d # c
        BY <2>4, <2>5, <4>2 DEF FlowInv, RecoverInv, Jobs
      <4>3. QED
        BY <4>1, <4>2
    <3>2. QED
      BY <3>1 DEF RecoverInv
  <2>8. FreshInv'
    <3>1. \A x \in Messages : bridge'[x] = "new" <=> bridge[x] = "new"
      BY <2>1 DEF TypeOK
    <3>2. \A x \in Messages : pc'[x] = pc[x] /\ (In(inbox', <<"put", x>>) => In(inbox, <<"put", x>>))
      BY <2>4, <2>5, <2>c DEF Jobs
    <3>3. QED
      BY <2>1, <3>1, <3>2 DEF FlowInv, FreshInv
  <2>9. QED
    BY <2>6, <2>7, <2>8 DEF FlowInv
<1>4. QED
  BY <1>1, <1>2, <1>3

\* The server takes a message to its cache, or reads a row to recover it.
LEMMA FlowServes ==
  ASSUME TypeOK, FlowInv,
         \/ \E m \in Messages : Put(m)
         \/ \E c \in Conversations : RecoverRead(c)
  PROVE  FlowInv'
<1>. USE DEF linkVars, jobVars, bridgeVars
<1>1. ASSUME NEW m \in Messages, Put(m)
      PROVE  FlowInv'
  <2>0. m \in Jobs /\ m \notin Conversations
    BY LifecycleAssumption DEF Jobs
  <2>1. /\ UNCHANGED <<bridge, outbox, entry>> /\ pc' = [pc EXCEPT ![m] = "put"]
        /\ inbox # <<>> /\ Head(inbox) = <<"put", m>> /\ inbox' = Tail(inbox)
    BY <1>1 DEF Put, Serves
  <2>2. inbox \in Seq({"put", "query", "recover"} \X Jobs)
    BY DEF TypeOK
  <2>3. In(inbox, <<"put", m>>) /\ \A y : /\ In(inbox', y) => In(inbox, y)
                                          /\ Once(inbox, y) => Once(inbox', y)
    BY <2>1, <2>2, TailHolds
  <2>4. \A j \in Jobs \ {m} : pc'[j] = pc[j]
    BY <2>1 DEF TypeOK
  <2>5. EntryInv'
    BY <2>0, <2>1, <2>4 DEF FlowInv, EntryInv, Jobs
  <2>6. RecoverInv'
    BY <2>0, <2>3, <2>4 DEF FlowInv, RecoverInv, Jobs
  <2>7. FreshInv'
    <3>1. ~(bridge[m] = "new" \/ m \in outbox)
      BY <2>3 DEF FlowInv, FreshInv
    <3>2. QED
      BY <2>1, <2>3, <2>4, <3>1 DEF FlowInv, FreshInv, Jobs
  <2>8. QED
    BY <2>5, <2>6, <2>7 DEF FlowInv
<1>2. ASSUME NEW c \in Conversations, RecoverRead(c)
      PROVE  FlowInv'
  <2>0. c \in Jobs /\ c \notin Messages
    BY LifecycleAssumption DEF Jobs
  <2>1. /\ UNCHANGED <<bridge, outbox>> /\ pc' = [pc EXCEPT ![c] = "read"]
        /\ \E found \in CacheReads(c) : entry' = [entry EXCEPT ![c] = found]
        /\ inbox # <<>> /\ Head(inbox) = <<"recover", c>> /\ inbox' = Tail(inbox)
    BY <1>2 DEF RecoverRead, Serves
  <2>2. inbox \in Seq({"put", "query", "recover"} \X Jobs)
    BY DEF TypeOK
  <2>3. \A y : /\ In(inbox', y) => In(inbox, y)
               /\ Once(inbox, y) => Once(inbox', y)
               /\ Once(inbox, y) /\ Head(inbox) = y => ~In(inbox', y)
    BY <2>1, <2>2, TailHolds
  <2>4. ~In(inbox', <<"recover", c>>)
    BY <2>1, <2>3 DEF FlowInv, RecoverInv
  <2>5. pc'[c] = "read" /\ \A j \in Jobs \ {c} : pc'[j] = pc[j]
    BY <2>0, <2>1 DEF TypeOK
  <2>6. \A d \in Conversations \ {c} : entry'[d] = entry[d]
    BY <2>1 DEF TypeOK
  <2>7. EntryInv'
    BY <2>5, <2>6 DEF FlowInv, EntryInv, Jobs
  <2>8. RecoverInv'
    <3>1. ASSUME NEW d \in Conversations
          PROVE  /\ Once(inbox', <<"recover", d>>)
                 /\ In(inbox', <<"recover", d>>) => pc'[d] = "received"
      <4>1. CASE d = c
        BY <2>3, <2>4, <4>1 DEF FlowInv, RecoverInv
      <4>2. CASE d # c
        BY <2>3, <2>5, <4>2 DEF FlowInv, RecoverInv, Jobs
      <4>3. QED
        BY <4>1, <4>2
    <3>2. QED
      BY <3>1 DEF RecoverInv
  <2>9. FreshInv'
    BY <2>0, <2>1, <2>3, <2>5 DEF FlowInv, FreshInv, Jobs
  <2>10. QED
    BY <2>7, <2>8, <2>9 DEF FlowInv
<1>3. QED
  BY <1>1, <1>2

\* A job goes on.
LEMMA FlowWorks ==
  ASSUME TypeOK, FlowInv,
         \/ \E m \in Messages : AckAndPublish(m)
         \/ \E c \in Conversations : RecoverAct(c)
         \/ \E j \in Jobs : \/ Acquire(j) \/ Refuse(j) \/ NoProvider(j) \/ StartTyping(j)
                            \/ \E ok \in BOOLEAN : Store(j, ok)
                            \/ Respond(j)
  PROVE  FlowInv'
<1>. USE DEF linkVars, bridgeVars
<1>0. EntryInv
  BY DEF FlowInv
<1>1. ASSUME NEW m \in Messages, AckAndPublish(m)
      PROVE  FlowInv'
  <2>1. Moves
    BY <1>1, AdvanceMoves DEF AckAndPublish
  <2>2. /\ UNCHANGED <<inbox, entry>> /\ pc[m] = "put" /\ pc' = [pc EXCEPT ![m] = "asked"]
    BY <1>1 DEF AckAndPublish
  <2>3. m \in Jobs /\ m \notin Conversations
    BY LifecycleAssumption DEF Jobs
  <2>4. \A k \in Jobs \ {m} : pc'[k] = pc[k]
    BY <2>2 DEF TypeOK
  <2>5. QED
    BY <2>1, <2>2, <2>3, <2>4, FlowGoesOn
<1>2. ASSUME NEW c \in Conversations, RecoverAct(c)
      PROVE  FlowInv'
  <2>1. /\ UNCHANGED <<inbox, entry>> /\ pc[c] = "read"
        /\ \A k \in Jobs \ {c} : pc'[k] = pc[k]
    BY <1>2 DEF RecoverAct, TypeOK
  <2>2. c \in Jobs
    BY DEF Jobs
  <2>3. CASE entry[c].state \in Unfinished
    <3>1. entry[c] # NoRow
      BY <2>3 DEF NoRow, Unfinished
    <3>2. Moves
      BY <1>2, <2>3, NothingMoves DEF RecoverAct
    <3>3. QED
      BY <2>1, <2>2, <3>1, <3>2, FlowGoesOn
  <2>4. CASE entry[c].state \notin Unfinished
    <3>1. /\ Resolve(c, IF entry[c].state = "done" THEN entry[c].response ELSE Apology)
          /\ pc' = [pc EXCEPT ![c] = "answered"]
      BY <1>2, <2>4 DEF RecoverAct
    <3>2. entry[c].state = "done" => entry[c] \in Row /\ entry[c] # NoRow
      BY DEF TypeOK, NoRow
    <3>3. (IF entry[c].state = "done" THEN entry[c].response ELSE Apology)
            \in Messages \cup {None, Apology}
      BY <3>2, RowIsRow
    <3>4. Moves
      BY <3>1, <3>3, ResolveMoves
    <3>5. pc'[c] \notin Asked
      BY <2>2, <3>1 DEF TypeOK, Asked
    <3>6. QED
      BY <2>1, <2>2, <3>4, <3>5, FlowGoesOn
  <2>5. QED
    BY <2>3, <2>4
<1>3. ASSUME NEW j \in Jobs,
             \/ Acquire(j) \/ Refuse(j) \/ NoProvider(j) \/ StartTyping(j)
             \/ \E ok \in BOOLEAN : Store(j, ok)
             \/ Respond(j)
      PROVE  FlowInv'
  <2>0. /\ UNCHANGED <<inbox, entry>> /\ pc[j] \in Asked
        /\ \E p : pc' = [pc EXCEPT ![j] = p]
    BY <1>3 DEF Acquire, Refuse, NoProvider, StartTyping, Store, Over, Respond, Asked
  <2>1. /\ UNCHANGED <<inbox, entry>> /\ pc[j] \in Asked
        /\ \A k \in Jobs \ {j} : pc'[k] = pc[k]
    BY <1>0, <2>0 DEF TypeOK
  <2>2. Moves
    <3>1. CASE Acquire(j) \/ Refuse(j) \/ NoProvider(j) \/ \E ok \in BOOLEAN : Store(j, ok)
      BY <3>1, NothingMoves DEF Acquire, Refuse, NoProvider, Store
    <3>2. CASE StartTyping(j)
      BY <3>2, AdvanceMoves DEF StartTyping
    <3>3. CASE Respond(j)
      <4>1. Work(j) \in Messages
        BY <1>0, <3>3, WorkTypes DEF Respond
      <4>2. (IF pc[j] = "storedDone" THEN Work(j) ELSE Apology) \in Messages \cup {None, Apology}
        BY <4>1
      <4>3. QED
        BY <3>3, <4>2, ResolveMoves DEF Respond
    <3>4. QED
      BY <1>3, <3>1, <3>2, <3>3
  <2>3. pc[j] \notin {"none", "received"}
    BY <2>1 DEF Asked
  <2>4. QED
    BY <2>1, <2>2, <2>3, FlowGoesOn
<1>4. QED
  BY <1>1, <1>2, <1>3

-----------------------------------------------------------------------------
(* Messages on their way into the cache. *)

\* A request to store a message is there once, and only before the message is stored.
PutInv ==
  \A m \in Messages : /\ Once(inbox, <<"put", m>>)
                      /\ In(inbox, <<"put", m>>) => pc[m] = "received"

\* The requests to store: none is added, except by Send.
LEMMA PutStays ==
  ASSUME PutInv, Drains, \A m \in Messages : pc'[m] = pc[m]
  PROVE  PutInv'
  BY DEF PutInv, Drains, Jobs

LEMMA PutStep ==
  ASSUME TypeOK, FlowInv, PutInv, Next
  PROVE  PutInv'
<1>. USE DEF linkVars, jobVars
<1>0. inbox \in Seq({"put", "query", "recover"} \X Jobs) /\ Messages \subseteq Jobs
  BY DEF TypeOK, Jobs
<1>1. CASE Boot \/ Serve \/ LoseLink \/ BridgeDies
  <2>1. UNCHANGED <<inbox, pc>>
    BY <1>1 DEF Boot, Serve, LoseLink, BridgeDies
  <2>2. QED
    BY <2>1 DEF PutInv
<1>2. CASE RequeueLost
  <2>1. inbox' = inbox /\ pc' = [j \in Jobs |-> pc[j]]
    BY <1>2 DEF RequeueLost, Subscribed
  <2>2. QED
    BY <1>0, <2>1 DEF PutInv
<1>3. CASE Crash
  <2>1. inbox' = <<>>
    BY <1>3 DEF Crash
  <2>2. QED
    BY <2>1 DEF PutInv, In, Once
<1>4. CASE Connect
  <2>1. pc' = pc /\ Drains
    BY <1>4, ConnectQueue DEF Connect
  <2>2. QED
    BY <2>1, PutStays
<1>5. ASSUME NEW m \in Messages, Send(m)
      PROVE  PutInv'
  <2>1. m \in outbox /\ inbox' = Append(inbox, <<"put", m>>) /\ pc' = [pc EXCEPT ![m] = "received"]
    BY <1>5 DEF Send
  <2>2. ~In(inbox, <<"put", m>>)
    BY <2>1 DEF FlowInv, FreshInv
  <2>3. \A y : /\ In(inbox', y) => In(inbox, y) \/ y = <<"put", m>>
               /\ Once(inbox, y) /\ y # <<"put", m>> => Once(inbox', y)
               /\ Once(inbox', <<"put", m>>)
    <3>1. <<"put", m>> \in {"put", "query", "recover"} \X Jobs
      BY <1>0
    <3>2. QED
      BY <1>0, <2>1, <2>2, <3>1, AppendHolds
  <2>4. pc'[m] = "received" /\ \A x \in Messages \ {m} : pc'[x] = pc[x]
    BY <1>0, <2>1 DEF TypeOK
  <2>5. QED
    BY <2>3, <2>4 DEF PutInv
<1>6. ASSUME NEW m \in Messages, InactivityTimeout(m)
      PROVE  PutInv'
  <2>1. /\ inbox' = Append(inbox, <<"recover", ConvOf[m]>>) /\ pc' = [pc EXCEPT ![ConvOf[m]] = "received"]
        /\ ConvOf[m] \in Jobs /\ ConvOf[m] \notin Messages
    BY <1>6, LifecycleAssumption DEF InactivityTimeout, Jobs
  <2>2. \A y : y # <<"recover", ConvOf[m]>> => /\ In(inbox', y) => In(inbox, y)
                                               /\ Once(inbox, y) => Once(inbox', y)
    <3>1. <<"recover", ConvOf[m]>> \in {"put", "query", "recover"} \X Jobs
      BY <2>1
    <3>2. QED
      BY <1>0, <2>1, <3>1, AppendHolds
  <2>3. \A x \in Messages : pc'[x] = pc[x] /\ <<"put", x>> # <<"recover", ConvOf[m]>>
    BY <1>0, <2>1 DEF TypeOK
  <2>4. QED
    BY <2>2, <2>3 DEF PutInv
<1>7. ASSUME NEW m \in Messages, Put(m)
      PROVE  PutInv'
  <2>1. /\ inbox # <<>> /\ Head(inbox) = <<"put", m>> /\ inbox' = Tail(inbox)
        /\ pc' = [pc EXCEPT ![m] = "put"]
    BY <1>7 DEF Put, Serves
  <2>2. \A y : /\ In(inbox', y) => In(inbox, y)
               /\ Once(inbox, y) => Once(inbox', y)
               /\ Once(inbox, y) /\ Head(inbox) = y => ~In(inbox', y)
    BY <1>0, <2>1, TailHolds
  <2>3. \A x \in Messages \ {m} : pc'[x] = pc[x]
    BY <1>0, <2>1 DEF TypeOK
  <2>4. QED
    BY <2>1, <2>2, <2>3 DEF PutInv
<1>8. ASSUME NEW c \in Conversations, AnswerQuery(c) \/ RecoverRead(c)
      PROVE  PutInv'
  <2>1. /\ inbox # <<>> /\ inbox' = Tail(inbox) /\ c \notin Messages /\ c \in Jobs
        /\ pc' = pc \/ pc' = [pc EXCEPT ![c] = "read"]
    BY <1>8, LifecycleAssumption DEF AnswerQuery, RecoverRead, Serves, Jobs
  <2>2. \A y : /\ In(inbox', y) => In(inbox, y)
               /\ Once(inbox, y) => Once(inbox', y)
    BY <1>0, <2>1, TailHolds
  <2>3. \A x \in Messages : pc'[x] = pc[x]
    BY <1>0, <2>1 DEF TypeOK
  <2>4. QED
    BY <2>2, <2>3 DEF PutInv
<1>9. ASSUME NEW j \in Jobs, pc[j] # "received", inbox' = inbox, \A k \in Jobs \ {j} : pc'[k] = pc[k]
      PROVE  PutInv'
  BY <1>0, <1>9 DEF PutInv
<1>10. ASSUME NEW j \in Jobs,
              \/ j \in Messages /\ AckAndPublish(j)
              \/ j \in Conversations /\ RecoverAct(j)
              \/ Acquire(j) \/ Refuse(j) \/ NoProvider(j) \/ StartTyping(j)
              \/ \E ok \in BOOLEAN : Store(j, ok)
              \/ Respond(j)
       PROVE  PutInv'
  <2>1. /\ pc[j] # "received" /\ inbox' = inbox /\ \A k \in Jobs \ {j} : pc'[k] = pc[k]
    BY <1>10 DEF AckAndPublish, RecoverAct, Acquire, Refuse, NoProvider, StartTyping, Store, Over, Respond, TypeOK
  <2>2. QED
    BY <1>9, <2>1
<1>11. CASE \/ \E m \in Messages : Register(m) \/ GiveUp(m)
            \/ \E c \in Conversations : Expire(c)
            \/ \E b \in Background : Other(b)
  <2>1. UNCHANGED <<inbox, pc>>
    BY <1>11 DEF Register, GiveUp, Expire, Other
  <2>2. QED
    BY <2>1 DEF PutInv
<1>12. QED
  BY <1>1, <1>2, <1>3, <1>4, <1>5, <1>6, <1>7, <1>8, <1>10, <1>11 DEF Next, Jobs

-----------------------------------------------------------------------------
(* Rows that say "processing". *)

\* From being given the lock to its release a job has its turn.
HeldInv ==
  \A j \in Jobs : pc[j] \in {"held", "typing", "storedDone", "storedError"} => turn[j] = "running"

LiveInv == HeldInv /\ ProcessingIsLive

\* Rows that a crash, or an outcome that could not be written, has left behind.
Behind == leftover \cup unsettled

\* No row becomes "processing" that was not, nor is one less that was left behind.
RowsRest ==
  /\ \A c \in Conversations : c \in Behind => c \in Behind' \/ row'[c].state # "processing"
  /\ \A c \in Conversations : row'[c].state = "processing" => row[c].state = "processing"

LEMMA SameRows ==
  ASSUME UNCHANGED cacheVars
  PROVE  RowsRest
  BY DEF cacheVars, RowsRest, Behind

\* A job that is not typing takes a step.
LEMMA LiveGoesOn ==
  ASSUME LiveInv, RowsRest, NEW j \in Jobs, pc[j] # "typing",
         \A k \in Jobs \ {j} : pc'[k] = pc[k] /\ turn'[k] = turn[k],
         pc'[j] \in {"held", "typing", "storedDone", "storedError"} => turn'[j] = "running"
  PROVE  LiveInv'
<1>1. HeldInv'
  BY DEF LiveInv, HeldInv
<1>2. ASSUME NEW c \in Conversations \ Behind', row'[c].state = "processing"
      PROVE  \E k \in Jobs : Conv(k) = c /\ pc'[k] = "typing" /\ turn'[k] = "running"
  <2>1. PICK k \in Jobs : Conv(k) = c /\ pc[k] = "typing" /\ turn[k] = "running"
    BY <1>2 DEF RowsRest, LiveInv, ProcessingIsLive, Behind
  <2>2. k # j
    BY <2>1
  <2>3. QED
    BY <2>1, <2>2
<1>3. QED
  BY <1>1, <1>2 DEF LiveInv, ProcessingIsLive, Behind, Conv

\* No job takes a step.
LEMMA LiveStays ==
  ASSUME LiveInv, RowsRest, \A k \in Jobs : pc'[k] = pc[k] /\ turn'[k] = turn[k]
  PROVE  LiveInv'
<1>1. HeldInv'
  BY DEF LiveInv, HeldInv
<1>2. ProcessingIsLive'
  BY DEF RowsRest, LiveInv, ProcessingIsLive, Behind, Conv
<1>3. QED
  BY <1>1, <1>2 DEF LiveInv

LEMMA LiveQuiet ==
  ASSUME TypeOK, LiveInv,
         \/ Boot \/ RequeueLost \/ Serve \/ LoseLink \/ BridgeDies \/ Connect
         \/ \E c \in Conversations : Expire(c) \/ AnswerQuery(c)
         \/ \E m \in Messages : Register(m) \/ GiveUp(m)
         \/ \E b \in Background : Other(b)
  PROVE  LiveInv'
<1>. USE DEF cacheVars, jobVars
<1>1. CASE Boot \/ Serve \/ LoseLink \/ BridgeDies \/ Connect
  BY <1>1, SameRows, LiveStays DEF Boot, Serve, LoseLink, BridgeDies, Connect
<1>2. CASE RequeueLost
  <2>1. pc' = [j \in Jobs |-> pc[j]] /\ turn' = [j \in Jobs \cup Background |-> turn[j]]
    BY <1>2 DEF RequeueLost, Subscribed
  <2>2. UNCHANGED cacheVars
    BY <1>2 DEF RequeueLost
  <2>3. QED
    BY <2>1, <2>2, SameRows, LiveStays
<1>3. ASSUME NEW c \in Conversations, Expire(c)
      PROVE  LiveInv'
  <2>1. /\ UNCHANGED <<leftover, pc, turn>> /\ row' = [row EXCEPT ![c] = NoRow]
        /\ unsettled' = unsettled \ {c}
    BY <1>3 DEF Expire
  <2>2. \A d \in Conversations : row'[d] = NoRow \/ row'[d] = row[d]
    BY <2>1 DEF TypeOK
  <2>3. NoRow.state # "processing"
    BY DEF NoRow
  <2>4. RowsRest
    <3>1. row'[c] = NoRow
      BY <2>1 DEF TypeOK
    <3>2. \A d \in Conversations : d \in Behind => d \in Behind' \/ d = c
      BY <2>1 DEF Behind
    <3>3. QED
      BY <2>2, <2>3, <3>1, <3>2 DEF RowsRest
  <2>5. QED
    BY <2>1, <2>4, LiveStays
<1>4. ASSUME NEW c \in Conversations, AnswerQuery(c)
      PROVE  LiveInv'
  BY <1>4, SameRows, LiveStays DEF AnswerQuery
<1>5. ASSUME NEW m \in Messages, Register(m) \/ GiveUp(m)
      PROVE  LiveInv'
  BY <1>5, SameRows, LiveStays DEF Register, GiveUp
<1>6. ASSUME NEW b \in Background, Other(b)
      PROVE  LiveInv'
  <2>1. \A k \in Jobs : turn'[k] = turn[k]
    <3>1. b \notin Jobs
      BY LifecycleAssumption DEF Jobs
    <3>2. QED
      BY <1>6, <3>1, TurnTypes DEF Other
  <2>2. pc' = pc /\ UNCHANGED cacheVars
    BY <1>6 DEF Other
  <2>3. QED
    BY <2>1, <2>2, SameRows, LiveStays
<1>7. QED
  BY <1>1, <1>2, <1>3, <1>4, <1>5, <1>6

\* A crash leaves rows behind, and no job.
LEMMA LiveCrash ==
  ASSUME Crash
  PROVE  LiveInv'
<1>1. /\ pc' = [j \in Jobs |-> "none"] /\ row' = row
      /\ leftover' = {c \in Conversations : row[c] # NoRow}
  BY DEF Crash
<1>2. HeldInv'
  BY <1>1 DEF HeldInv
<1>3. \A c \in Conversations \ Behind' : row'[c].state # "processing"
  BY <1>1 DEF NoRow, Behind
<1>4. QED
  BY <1>2, <1>3 DEF LiveInv, ProcessingIsLive, Behind

\* Requests on their way, and jobs that have not come to typing yet or are done with it.
LEMMA LiveWorks ==
  ASSUME TypeOK, FlowInv, LiveInv,
         \/ \E m \in Messages : Send(m) \/ InactivityTimeout(m) \/ AckAndPublish(m)
         \/ \E c \in Conversations : RecoverRead(c) \/ RecoverAct(c)
         \/ \E j \in Jobs : Acquire(j) \/ Refuse(j) \/ NoProvider(j) \/ Respond(j)
  PROVE  LiveInv'
<1>. USE DEF cacheVars
<1>1. ASSUME NEW m \in Messages, Send(m)
      PROVE  LiveInv'
  <2>1. m \in Jobs /\ pc[m] = "none"
    BY <1>1 DEF Send, FlowInv, FreshInv, Jobs
  <2>2. pc' = [pc EXCEPT ![m] = "received"] /\ UNCHANGED <<cacheVars, turn>>
    BY <1>1 DEF Send
  <2>3. pc'[m] = "received" /\ \A k \in Jobs \ {m} : pc'[k] = pc[k]
    BY <2>1, <2>2 DEF TypeOK
  <2>4. QED
    BY <2>1, <2>2, <2>3, SameRows, LiveGoesOn
<1>2. ASSUME NEW m \in Messages, InactivityTimeout(m)
      PROVE  LiveInv'
  <2>. DEFINE c == ConvOf[m]
  <2>1. c \in Jobs
    BY LifecycleAssumption DEF Jobs
  <2>2. /\ pc[c] = "none" /\ pc' = [pc EXCEPT ![c] = "received"]
        /\ UNCHANGED <<cacheVars, turn>>
    BY <1>2 DEF InactivityTimeout
  <2>3. pc'[c] = "received" /\ \A k \in Jobs \ {c} : pc'[k] = pc[k]
    BY <2>1, <2>2 DEF TypeOK
  <2>4. QED
    BY <2>1, <2>2, <2>3, SameRows, LiveGoesOn
<1>3. ASSUME NEW m \in Messages, AckAndPublish(m)
      PROVE  LiveInv'
  <2>1. m \in Jobs /\ pc[m] = "put" /\ pc' = [pc EXCEPT ![m] = "asked"] /\ UNCHANGED cacheVars
    BY <1>3 DEF AckAndPublish, Jobs
  <2>2. pc'[m] = "asked" /\ \A k \in Jobs \ {m} : pc'[k] = pc[k]
    BY <2>1 DEF TypeOK
  <2>3. \A k \in Jobs \ {m} : turn'[k] = turn[k]
    BY <1>3, <2>1, TurnTypes DEF AckAndPublish
  <2>4. QED
    BY <2>1, <2>2, <2>3, SameRows, LiveGoesOn
<1>4. ASSUME NEW c \in Conversations, RecoverRead(c)
      PROVE  LiveInv'
  <2>1. c \in Jobs /\ pc' = [pc EXCEPT ![c] = "read"] /\ UNCHANGED <<cacheVars, turn>>
    BY <1>4 DEF RecoverRead, Jobs
  <2>2. pc[c] = "received"
    <3>1. In(inbox, <<"recover", c>>)
      BY <1>4, TailHolds DEF RecoverRead, Serves, TypeOK
    <3>2. QED
      BY <3>1 DEF FlowInv, RecoverInv
  <2>3. pc'[c] = "read" /\ \A k \in Jobs \ {c} : pc'[k] = pc[k]
    BY <2>1 DEF TypeOK
  <2>4. QED
    BY <2>1, <2>2, <2>3, SameRows, LiveGoesOn
<1>5. ASSUME NEW c \in Conversations, RecoverAct(c)
      PROVE  LiveInv'
  <2>1. c \in Jobs /\ pc[c] = "read" /\ UNCHANGED cacheVars
    BY <1>5 DEF RecoverAct, Jobs
  <2>2. pc'[c] \in {"asked", "answered"} /\ \A k \in Jobs \ {c} : pc'[k] = pc[k]
    BY <1>5, <2>1 DEF RecoverAct, TypeOK
  <2>3. \A k \in Jobs \ {c} : turn'[k] = turn[k]
    BY <1>5, <2>1, TurnTypes DEF RecoverAct
  <2>4. QED
    BY <2>1, <2>2, <2>3, SameRows, LiveGoesOn
<1>6. ASSUME NEW j \in Jobs, Acquire(j)
      PROVE  LiveInv'
  <2>1. pc[j] = "asked" /\ UNCHANGED cacheVars /\ \A k \in Jobs \ {j} : pc'[k] = pc[k]
    BY <1>6 DEF Acquire, TypeOK
  <2>2. turn'[j] = "running" /\ \A k \in Jobs \ {j} : turn'[k] = turn[k]
    BY <1>6, TurnTypes DEF Acquire
  <2>3. QED
    BY <2>1, <2>2, SameRows, LiveGoesOn
<1>7. ASSUME NEW j \in Jobs, Refuse(j) \/ NoProvider(j) \/ Respond(j)
      PROVE  LiveInv'
  <2>1. /\ pc[j] # "typing" /\ UNCHANGED cacheVars
        /\ pc'[j] \in {"dropped", "answered"} /\ \A k \in Jobs \ {j} : pc'[k] = pc[k]
    BY <1>7 DEF Refuse, NoProvider, Respond, TypeOK
  <2>2. \A k \in Jobs \ {j} : turn'[k] = turn[k]
    BY <1>7, TurnTypes DEF Refuse, NoProvider, Respond
  <2>3. QED
    BY <2>1, <2>2, SameRows, LiveGoesOn
<1>8. QED
  BY <1>1, <1>2, <1>3, <1>4, <1>5, <1>6, <1>7

\* The three writes to the rows.
LEMMA LiveWrites ==
  ASSUME TypeOK, FlowInv, PutInv, LiveInv,
         \/ \E m \in Messages : Put(m)
         \/ \E j \in Jobs : StartTyping(j) \/ \E ok \in BOOLEAN : Store(j, ok)
  PROVE  LiveInv'
<1>1. ASSUME NEW m \in Messages, Put(m)
      PROVE  LiveInv'
  <2>. DEFINE c == ConvOf[m]
  <2>1. m \in Jobs /\ c \in Conversations
    BY LifecycleAssumption DEF Jobs
  <2>2. /\ pc' = [pc EXCEPT ![m] = "put"] /\ turn' = turn
        /\ \/ /\ leftover' = leftover \ {c} /\ unsettled' = unsettled \ {c}
              /\ row' = [row EXCEPT ![c] = [state |-> "queued", msg |-> m, response |-> None]]
           \/ UNCHANGED <<row, leftover, unsettled>>
    BY <1>1 DEF Put
  <2>3. pc'[m] = "put" /\ \A k \in Jobs \ {m} : pc'[k] = pc[k] /\ turn'[k] = turn[k]
    BY <2>1, <2>2 DEF TypeOK
  <2>4. pc[m] # "typing"
    <3>1. In(inbox, <<"put", m>>)
      BY <1>1, TailHolds DEF Put, Serves, TypeOK
    <3>2. QED
      BY <3>1 DEF PutInv
  <2>5. RowsRest
    <3>1. CASE UNCHANGED <<row, leftover, unsettled>>
      BY <3>1 DEF RowsRest, Behind
    <3>2. CASE /\ leftover' = leftover \ {c} /\ unsettled' = unsettled \ {c}
               /\ row' = [row EXCEPT ![c] = [state |-> "queued", msg |-> m, response |-> None]]
      <4>1. row'[c].state = "queued" /\ \A d \in Conversations \ {c} : row'[d] = row[d]
        BY <2>1, <3>2 DEF TypeOK
      <4>2. \A d \in Conversations \ {c} : d \in Behind => d \in Behind'
        BY <3>2 DEF Behind
      <4>3. QED
        BY <4>1, <4>2 DEF RowsRest
    <3>3. QED
      BY <2>2, <3>1, <3>2
  <2>6. QED
    BY <2>1, <2>3, <2>4, <2>5, LiveGoesOn
<1>2. ASSUME NEW j \in Jobs, StartTyping(j)
      PROVE  LiveInv'
  <2>1. /\ pc[j] = "held" /\ pc' = [pc EXCEPT ![j] = "typing"] /\ UNCHANGED <<turn, leftover>>
        /\ \/ /\ row' = [row EXCEPT ![Conv(j)] = IF @ = NoRow THEN @
                                                   ELSE [@ EXCEPT !.state = "processing"]]
              /\ unsettled' = unsettled \ {Conv(j)}
           \/ UNCHANGED <<row, unsettled>>
    BY <1>2 DEF StartTyping
  <2>2. pc'[j] = "typing" /\ turn'[j] = "running" /\ \A k \in Jobs \ {j} : pc'[k] = pc[k]
    BY <2>1 DEF TypeOK, LiveInv, HeldInv
  <2>3. HeldInv'
    BY <2>1, <2>2 DEF LiveInv, HeldInv
  <2>4. ASSUME NEW d \in Conversations \ Behind', row'[d].state = "processing"
        PROVE  \E k \in Jobs : Conv(k) = d /\ pc'[k] = "typing" /\ turn'[k] = "running"
    <3>1. CASE d = Conv(j)
      BY <2>2, <3>1
    <3>2. CASE d # Conv(j)
      <4>1. row[d].state = "processing" /\ d \notin Behind
        BY <2>1, <2>4, <3>2 DEF TypeOK, Behind
      <4>2. PICK k \in Jobs : Conv(k) = d /\ pc[k] = "typing" /\ turn[k] = "running"
        BY <4>1 DEF LiveInv, ProcessingIsLive, Behind
      <4>3. QED
        BY <2>1, <2>2, <3>2, <4>2
    <3>3. QED
      BY <3>1, <3>2
  <2>5. QED
    BY <2>3, <2>4 DEF LiveInv, ProcessingIsLive, Behind, Conv
<1>3. ASSUME NEW j \in Jobs, NEW ok \in BOOLEAN, Store(j, ok)
      PROVE  LiveInv'
  <2>1. /\ pc[j] \in {"held", "typing"} /\ turn' = turn
        /\ pc'[j] \in {"storedDone", "storedError"} /\ \A k \in Jobs \ {j} : pc'[k] = pc[k]
    BY <1>3 DEF Store, Over, TypeOK
  <2>2. HeldInv'
    BY <2>1 DEF LiveInv, HeldInv
  <2>3. Conv(j) \in Conversations /\ Work(j) \in Messages
    BY <2>1, WorkTypes DEF FlowInv
  <2>4. PICK r \in Row : /\ WriteOutcome(Conv(j), r)
                         /\ r = NoRow \/ r.state \in {"done", "error"}
    BY <1>3, <2>3, OutcomeOf
  <2>5. r.state # "processing"
    BY <2>4 DEF NoRow
  <2>6. ASSUME NEW d \in Conversations \ Behind', row'[d].state = "processing"
        PROVE  \E k \in Jobs : Conv(k) = d /\ pc'[k] = "typing" /\ turn'[k] = "running"
    <3>1. d # Conv(j) /\ row[d].state = "processing" /\ d \notin Behind
      BY <2>3, <2>4, <2>5, <2>6, OutcomeTypes DEF Behind
    <3>2. PICK k \in Jobs : Conv(k) = d /\ pc[k] = "typing" /\ turn[k] = "running"
      BY <3>1 DEF LiveInv, ProcessingIsLive, Behind
    <3>3. QED
      BY <2>1, <3>1, <3>2
  <2>7. QED
    BY <2>2, <2>6 DEF LiveInv, ProcessingIsLive, Behind, Conv
<1>4. QED
  BY <1>1, <1>2, <1>3

-----------------------------------------------------------------------------
(* The theorems. *)

LifeInv == TypeOK /\ FlowInv /\ PutInv /\ LiveInv

LEMMA LifeStarts == Init => LifeInv
<1>. SUFFICES ASSUME Init
              PROVE  LifeInv
  OBVIOUS
<1>1. TypeOK
  <2>1. /\ "none" \in PC /\ "idle" \in Lock!Stages /\ NoRow \in Row /\ "new" \in BridgePhase
        /\ 0 \in 0 .. MaxCrashes /\ 0 \in 0 .. MaxDrops
    BY LifecycleAssumption DEF PC, Lock!Stages, Row, BridgePhase
  <2>2. QED
    BY <2>1 DEF Init, Lock!Init, TypeOK
<1>2. FlowInv
  BY DEF Init, FlowInv, EntryInv, RecoverInv, FreshInv, In, Once, Jobs
<1>3. LiveInv
  BY DEF Init, LiveInv, HeldInv, ProcessingIsLive, NoRow
<1>4. PutInv
  BY DEF Init, PutInv, In, Once
<1>5. QED
  BY <1>1, <1>2, <1>3, <1>4 DEF LifeInv

LEMMA LifeStep ==
  ASSUME LifeInv, [Next]_vars
  PROVE  LifeInv'
<1>1. CASE Next
  <2>1. TypeOK'
    BY <1>1, ServerTypes, BridgeTypes, HandlerTypes, JobTypes DEF LifeInv, FlowInv, Next
  <2>2. FlowInv'
    BY <1>1, FlowQuiet, FlowCrash, FlowSends, FlowServes, FlowWorks DEF LifeInv, Next
  <2>3. LiveInv'
    BY <1>1, LiveQuiet, LiveCrash, LiveWorks, LiveWrites DEF LifeInv, Next
  <2>4. PutInv'
    BY <1>1, PutStep DEF LifeInv
  <2>5. QED
    BY <2>1, <2>2, <2>3, <2>4 DEF LifeInv
<1>2. CASE UNCHANGED vars
  <2>. USE DEF vars, bridgeVars, linkVars, cacheVars, serverVars, jobVars
  <2>1. TypeOK'
    BY <1>2 DEF LifeInv, TypeOK
  <2>2. FlowInv'
    BY <1>2 DEF LifeInv, FlowInv, EntryInv, RecoverInv, FreshInv
  <2>3. LiveInv'
    BY <1>2, SameRows, LiveStays DEF LifeInv
  <2>4. PutInv'
    BY <1>2 DEF LifeInv, PutInv
  <2>5. QED
    BY <2>1, <2>2, <2>3, <2>4 DEF LifeInv
<1>3. QED
  BY <1>1, <1>2

\* The state of both processes, the link and the cache stays within its types.
THEOREM LifecycleTypes == Spec => []TypeOK
<1>1. LifeInv /\ [Next]_vars => LifeInv'
  BY LifeStep
<1>2. LifeInv => TypeOK
  BY DEF LifeInv
<1>3. QED
  BY LifeStarts, <1>1, <1>2, PTL DEF Spec

\* A row that says "processing", and that neither a crash nor an outcome that could not be
\* written has left behind, belongs to the conversation whose job holds the AI lock.
THEOREM ProcessingRowsAreLive == Spec => []ProcessingIsLive
<1>1. LifeInv /\ [Next]_vars => LifeInv'
  BY LifeStep
<1>2. LifeInv => ProcessingIsLive
  BY DEF LifeInv, LiveInv
<1>3. QED
  BY LifeStarts, <1>1, <1>2, PTL DEF Spec

-----------------------------------------------------------------------------
(* A link that holds and a bridge that waits: one message of a conversation at a   *)
(* time.                                                                           *)

\* The bridge and the server do not lose one another, and no timeout fires.
LinkHolds == MaxCrashes = 0 /\ MaxDrops = 0 /\ MayGiveUp = FALSE /\ MayRecover = FALSE

Started == {"received", "put", "asked", "held", "typing", "storedDone", "storedError"}

\* Nothing is queried or recovered.
Straight ==
  /\ phase = "up" /\ conn = TRUE
  /\ \A c \in Conversations : pc[c] = "none"
  /\ \A y \in {"query", "recover"} \X Jobs : ~In(inbox, y)

\* One message of a conversation at a time is pending, and only that is worked on.
OneInHand ==
  /\ \A m \in Messages : pc[m] \in Started \/ m \in outbox => bridge[m] \in Pending
  /\ \A m, x \in Messages :
       ConvOf[m] = ConvOf[x] /\ bridge[m] \in Pending /\ bridge[x] \in Pending => m = x

OrderlyInv == Straight /\ OneInHand /\ TrackedUntilAnswered /\ AnswerIsOwn

\* The entries of the bridge move within Pending only.
Stays ==
  /\ bridge' \in [Messages -> BridgePhase]
  /\ \A m \in Messages : /\ bridge'[m] \in Pending <=> bridge[m] \in Pending
                         /\ bridge'[m] = "answered" <=> bridge[m] = "answered"
  /\ outbox' \subseteq outbox /\ answer' = answer

LEMMA AdvanceStays ==
  ASSUME TypeOK, NEW c, NEW from \in {"ack", "queued"}, NEW to \in {"queued", "processing"},
         Advance(c, from, to)
  PROVE  Stays
<1>1. bridge' = [m \in Messages |-> IF conn /\ m \in Of(c) /\ bridge[m] = from THEN to ELSE bridge[m]]
      /\ UNCHANGED <<outbox, answer>>
  BY DEF Advance
<1>2. QED
  BY <1>1 DEF Stays, TypeOK, BridgePhase, Pending

LEMMA NothingStays ==
  ASSUME TypeOK, UNCHANGED bridgeVars
  PROVE  Stays
  BY DEF bridgeVars, Stays, TypeOK

Tracked == {"put", "asked", "held", "typing"}

\* What leaves the entries of the bridge pending or not as they are.
LEMMA OrderlyKept ==
  ASSUME OrderlyInv, Stays, UNCHANGED <<phase, conn>>,
         \A y \in {"query", "recover"} \X Jobs : In(inbox', y) => In(inbox, y),
         \A c \in Conversations : pc'[c] = pc[c],
         \A m \in Messages : pc'[m] \in Started => pc[m] \in Started \/ m \in outbox,
         TrackedUntilAnswered'
  PROVE  OrderlyInv'
<1>1. Straight'
  BY DEF OrderlyInv, Straight
<1>2. OneInHand'
  BY DEF OrderlyInv, OneInHand, Stays
<1>3. AnswerIsOwn'
  BY DEF OrderlyInv, AnswerIsOwn, Stays
<1>4. QED
  BY <1>1, <1>2, <1>3 DEF OrderlyInv

\* Nobody else of its conversation is worked on beside a message that is.
LEMMA Alone ==
  ASSUME OrderlyInv, NEW m \in Messages, NEW x \in Messages, ConvOf[m] = ConvOf[x],
         pc[m] \in Started, pc[x] \in Started
  PROVE  m = x
  BY DEF OrderlyInv, OneInHand

\* What cannot happen as long as the link holds.
LEMMA NothingBreaks ==
  ASSUME TypeOK, LinkHolds, OrderlyInv
  PROVE  /\ ~Boot /\ ~RequeueLost /\ ~Serve /\ ~Crash /\ ~Connect /\ ~LoseLink /\ ~BridgeDies
         /\ \A m \in Messages : ~GiveUp(m) /\ ~InactivityTimeout(m)
         /\ \A c \in Conversations :
              /\ ~AnswerQuery(c) /\ ~RecoverRead(c) /\ ~RecoverAct(c)
              /\ ~Acquire(c) /\ ~Refuse(c) /\ ~NoProvider(c) /\ ~StartTyping(c) /\ ~Respond(c)
              /\ \A ok \in BOOLEAN : ~Store(c, ok)
<1>1. ~Boot /\ ~RequeueLost /\ ~Serve /\ ~Connect /\ ~BridgeDies
  BY DEF OrderlyInv, Straight, Boot, RequeueLost, Serve, Connect, BridgeDies
<1>2. ~Crash /\ ~LoseLink
  BY DEF TypeOK, LinkHolds, Crash, LoseLink
<1>3. \A m \in Messages : ~GiveUp(m) /\ ~InactivityTimeout(m)
  BY DEF LinkHolds, GiveUp, InactivityTimeout
<1>4. ASSUME NEW c \in Conversations
      PROVE  ~AnswerQuery(c) /\ ~RecoverRead(c)
  <2>1. ~In(inbox, <<"query", c>>) /\ ~In(inbox, <<"recover", c>>)
    BY DEF OrderlyInv, Straight, Jobs
  <2>2. inbox # <<>> => In(inbox, Head(inbox))
    BY TailHolds DEF TypeOK
  <2>3. QED
    BY <2>1, <2>2 DEF AnswerQuery, RecoverRead, Serves
<1>5. \A c \in Conversations :
        /\ ~RecoverAct(c) /\ ~Acquire(c) /\ ~Refuse(c) /\ ~NoProvider(c) /\ ~StartTyping(c) /\ ~Respond(c)
        /\ \A ok \in BOOLEAN : ~Store(c, ok)
  BY DEF OrderlyInv, Straight, RecoverAct, Acquire, Refuse, NoProvider, StartTyping, Respond, Store, Over
<1>6. QED
  BY <1>1, <1>2, <1>3, <1>4, <1>5

\* The bridge registers and sends; rows expire; others use the lock.
LEMMA OrderlyBegins ==
  ASSUME TypeOK, FlowInv, OrderlyInv,
         \/ \E m \in Messages : Register(m) \/ Send(m)
         \/ \E c \in Conversations : Expire(c)
         \/ \E b \in Background : Other(b)
  PROVE  OrderlyInv'
<1>. USE DEF bridgeVars, linkVars, cacheVars, serverVars, jobVars
<1>0. Messages \subseteq Jobs /\ Conversations \subseteq Jobs /\ Messages \cap Conversations = {}
  BY LifecycleAssumption DEF Jobs
<1>1. ASSUME NEW m \in Messages, Register(m)
      PROVE  OrderlyInv'
  <2>1. /\ bridge[m] = "new" /\ PendingIn(ConvOf[m]) = {}
        /\ bridge' = [bridge EXCEPT ![m] = "ack"] /\ outbox' = outbox \cup {m}
        /\ UNCHANGED <<answer, phase, conn, inbox, row, untracked, pc>>
    BY <1>1 DEF Register
  <2>2. bridge'[m] = "ack" /\ \A x \in Messages \ {m} : bridge'[x] = bridge[x]
    BY <2>1 DEF TypeOK
  <2>3. \A x \in Messages : ConvOf[x] = ConvOf[m] => bridge[x] \notin Pending
    BY <2>1 DEF PendingIn, Of
  <2>4. OneInHand'
    BY <2>1, <2>2, <2>3 DEF OrderlyInv, OneInHand, Pending
  <2>5. Straight' /\ TrackedUntilAnswered'
    BY <2>1 DEF OrderlyInv, Straight, TrackedUntilAnswered
  <2>6. AnswerIsOwn'
    BY <2>1, <2>2 DEF OrderlyInv, AnswerIsOwn
  <2>7. QED
    BY <2>4, <2>5, <2>6 DEF OrderlyInv
<1>2. ASSUME NEW m \in Messages, Send(m)
      PROVE  OrderlyInv'
  <2>1. /\ m \in outbox /\ inbox' = Append(inbox, <<"put", m>>) /\ pc' = [pc EXCEPT ![m] = "received"]
        /\ outbox' = outbox \ {m} /\ UNCHANGED <<bridge, answer, phase, conn, row, untracked>>
    BY <1>2 DEF Send
  <2>2. pc'[m] = "received" /\ \A k \in Jobs \ {m} : pc'[k] = pc[k]
    BY <1>0, <2>1 DEF TypeOK
  <2>3. \A y \in {"query", "recover"} \X Jobs : In(inbox', y) => In(inbox, y)
    <3>1. <<"put", m>> \in {"put", "query", "recover"} \X Jobs
      BY <1>0
    <3>2. QED
      BY <2>1, <3>1, AppendHolds DEF TypeOK
  <2>4. Stays
    BY <2>1 DEF Stays, TypeOK
  <2>5. TrackedUntilAnswered'
    BY <1>0, <2>1, <2>2 DEF OrderlyInv, TrackedUntilAnswered
  <2>6. QED
    BY <1>0, <2>1, <2>2, <2>3, <2>4, <2>5, OrderlyKept
<1>3. ASSUME NEW c \in Conversations, Expire(c)
      PROVE  OrderlyInv'
  <2>1. /\ UNCHANGED <<bridgeVars, phase, conn, inbox, untracked, pc>>
        /\ row' = [row EXCEPT ![c] = NoRow]
    BY <1>3 DEF Expire
  <2>2. \A m \in Messages : ConvOf[m] = c /\ c \notin untracked => pc[m] \notin Tracked
    <3>1. CASE row[c].state \in {"done", "error"}
      BY <3>1 DEF OrderlyInv, TrackedUntilAnswered, Tracked, Unfinished
    <3>2. CASE \A j \in Jobs : Conv(j) = c => pc[j] \in {"none", "dropped", "answered"}
      BY <1>0, <3>2 DEF Conv, Tracked
    <3>3. QED
      BY <1>3, <3>1, <3>2 DEF Expire
  <2>3. TrackedUntilAnswered'
    <3>1. \A d \in Conversations \ {c} : row'[d] = row[d]
      BY <2>1 DEF TypeOK
    <3>2. QED
      BY <2>1, <2>2, <3>1, LifecycleAssumption DEF OrderlyInv, TrackedUntilAnswered, Tracked
  <2>4. QED
    BY <2>1, <2>3, NothingStays, OrderlyKept
<1>4. ASSUME NEW b \in Background, Other(b)
      PROVE  OrderlyInv'
  <2>1. UNCHANGED <<bridgeVars, phase, conn, inbox, row, untracked, pc>>
    BY <1>4 DEF Other
  <2>2. TrackedUntilAnswered'
    BY <2>1 DEF OrderlyInv, TrackedUntilAnswered
  <2>3. QED
    BY <2>1, <2>2, NothingStays, OrderlyKept
<1>5. QED
  BY <1>1, <1>2, <1>3, <1>4

\* The server's work on a message, up to its answer.
LEMMA OrderlyWorks ==
  ASSUME TypeOK, FlowInv, PutInv, OrderlyInv, NEW m \in Messages,
         \/ Put(m) \/ AckAndPublish(m) \/ Acquire(m) \/ Refuse(m) \/ NoProvider(m)
         \/ StartTyping(m) \/ \E ok \in BOOLEAN : Store(m, ok)
  PROVE  OrderlyInv'
<1>. USE DEF bridgeVars, linkVars, cacheVars, serverVars, jobVars
<1>0. /\ m \in Jobs /\ Messages \subseteq Jobs /\ Conversations \subseteq Jobs /\ m \notin Conversations
      /\ ConvOf[m] \in Conversations /\ Conv(m) = ConvOf[m] /\ Work(m) = m
      /\ \A x \in Messages : ConvOf[x] \in Conversations
  BY LifecycleAssumption DEF Jobs, Conv, Work
<1>1. pc[m] \in Started
  <2>1. CASE Put(m)
    <3>1. In(inbox, <<"put", m>>)
      BY <2>1, TailHolds DEF Put, Serves, TypeOK
    <3>2. QED
      BY <3>1 DEF PutInv, Started
  <2>2. CASE ~Put(m)
    BY <2>2 DEF AckAndPublish, Acquire, Refuse, NoProvider, StartTyping, Store, Over, Started
  <2>3. QED
    BY <2>1, <2>2
<1>2. /\ UNCHANGED <<phase, conn>> /\ \A k \in Jobs \ {m} : pc'[k] = pc[k]
      /\ \A y \in {"query", "recover"} \X Jobs : In(inbox', y) => In(inbox, y)
  <2>1. CASE Put(m)
    BY <1>0, <2>1, TailHolds DEF Put, Serves, TypeOK
  <2>2. CASE ~Put(m)
    BY <1>0, <2>2 DEF AckAndPublish, Acquire, Refuse, NoProvider, StartTyping, Store, TypeOK
  <2>3. QED
    BY <2>1, <2>2
<1>3. Stays
  BY AdvanceStays, NothingStays
     DEF Put, AckAndPublish, Acquire, Refuse, NoProvider, StartTyping, Store
<1>4. \A x \in Messages \ {m} : ConvOf[x] = ConvOf[m] => pc'[x] \notin Tracked
  BY <1>0, <1>1, <1>2, Alone DEF Tracked, Started
<1>5. /\ \A d \in Conversations \ {ConvOf[m]} : row'[d] = row[d] /\ (d \in untracked' <=> d \in untracked)
      /\ ~Put(m) => untracked' = untracked
  <2>1. CASE \E ok \in BOOLEAN : Store(m, ok)
    <3>1. PICK ok \in BOOLEAN : Store(m, ok)
      BY <2>1
    <3>2. PICK r \in Row : WriteOutcome(ConvOf[m], r)
      BY <1>0, <3>1, OutcomeOf
    <3>3. QED
      BY <1>0, <3>2, OutcomeTypes
  <2>2. CASE ~\E ok \in BOOLEAN : Store(m, ok)
    BY <1>0, <2>2 DEF Put, AckAndPublish, Acquire, Refuse, NoProvider, StartTyping, TypeOK
  <2>3. QED
    BY <2>1, <2>2
<1>6. pc'[m] \in Tracked /\ ConvOf[m] \notin untracked' =>
        row'[ConvOf[m]].msg = m /\ row'[ConvOf[m]].state \in Unfinished
  <2>1. CASE Put(m)
    BY <1>0, <2>1 DEF Put, TypeOK, Unfinished
  <2>2. CASE AckAndPublish(m) \/ Acquire(m)
    BY <1>0, <2>2 DEF AckAndPublish, Acquire, OrderlyInv, TrackedUntilAnswered
  <2>3. CASE Refuse(m) \/ NoProvider(m) \/ \E ok \in BOOLEAN : Store(m, ok)
    <3>1. pc'[m] \in {"dropped", "storedDone", "storedError"}
      BY <1>0, <2>3 DEF Refuse, NoProvider, Store, TypeOK
    <3>2. QED
      BY <3>1 DEF Tracked
  <2>4. ASSUME StartTyping(m), ConvOf[m] \notin untracked'
        PROVE  row'[ConvOf[m]].msg = m /\ row'[ConvOf[m]].state \in Unfinished
    <3>1. row[ConvOf[m]].msg = m /\ row[ConvOf[m]].state \in Unfinished /\ row[ConvOf[m]] \in Row
      BY <1>0, <2>4 DEF StartTyping, OrderlyInv, TrackedUntilAnswered, TypeOK
    <3>2. row[ConvOf[m]] # NoRow
      BY <3>1, LifecycleAssumption DEF NoRow
    <3>3. row[ConvOf[m]] \in [state : RowState, msg : Messages, response : Messages \cup {None}]
      BY <3>1, <3>2, RowIsRow
    <3>4. row'[ConvOf[m]] \in {row[ConvOf[m]], [row[ConvOf[m]] EXCEPT !.state = "processing"]}
      BY <1>0, <2>4, <3>2 DEF StartTyping, TypeOK
    <3>5. QED
      BY <3>1, <3>3, <3>4 DEF Unfinished
  <2>5. QED
    BY <2>1, <2>2, <2>3, <2>4
<1>7. TrackedUntilAnswered'
  <2>1. ASSUME NEW x \in Messages, pc'[x] \in Tracked, ConvOf[x] \notin untracked'
        PROVE  row'[ConvOf[x]].msg = x /\ row'[ConvOf[x]].state \in Unfinished
    <3>1. CASE x = m
      BY <1>6, <2>1, <3>1
    <3>2. CASE x # m
      BY <1>0, <1>2, <1>4, <1>5, <2>1, <3>2 DEF OrderlyInv, TrackedUntilAnswered, Tracked
    <3>3. QED
      BY <3>1, <3>2
  <2>2. QED
    BY <2>1 DEF TrackedUntilAnswered, Tracked
<1>8. \A x \in Messages : pc'[x] \in Started => pc[x] \in Started
  BY <1>0, <1>1, <1>2
<1>9. \A c \in Conversations : pc'[c] = pc[c]
  BY <1>0, <1>2
<1>10. QED
  BY <1>2, <1>3, <1>7, <1>8, <1>9, OrderlyKept

\* The answer goes to the entry of its own message.
LEMMA OrderlyAnswer ==
  ASSUME TypeOK, FlowInv, OrderlyInv, NEW m \in Messages, Respond(m)
  PROVE  OrderlyInv'
<1>. USE DEF bridgeVars, linkVars, cacheVars, serverVars, jobVars
<1>0. /\ Messages \subseteq Jobs /\ Conversations \subseteq Jobs /\ m \notin Conversations /\ m \in Jobs
      /\ ConvOf[m] \in Conversations /\ Conv(m) = ConvOf[m] /\ Work(m) = m
  BY LifecycleAssumption DEF Jobs, Conv, Work
<1>1. /\ pc[m] \in {"storedDone", "storedError"} /\ pc' = [pc EXCEPT ![m] = "answered"]
      /\ UNCHANGED <<phase, conn, inbox, row, untracked>>
  BY DEF Respond
<1>2. bridge[m] \in Pending /\ PendingIn(ConvOf[m]) = {m}
  BY <1>1 DEF OrderlyInv, OneInHand, Started, PendingIn, Of
<1>3. PICK r \in {m, Apology} : Resolve(ConvOf[m], r)
  BY <1>0 DEF Respond
<1>4. /\ bridge' = [x \in Messages |-> IF x \in {m} THEN "answered" ELSE bridge[x]]
      /\ answer' = [x \in Messages |-> IF x \in {m} THEN r ELSE answer[x]] /\ outbox' = outbox
  BY <1>2, <1>3 DEF Resolve, OrderlyInv, Straight
<1>5. /\ bridge'[m] = "answered" /\ answer'[m] = r
      /\ \A x \in Messages \ {m} : bridge'[x] = bridge[x] /\ answer'[x] = answer[x]
  BY <1>4
<1>6. pc'[m] = "answered" /\ \A k \in Jobs \ {m} : pc'[k] = pc[k]
  BY <1>0, <1>1 DEF TypeOK
<1>7. Straight'
  BY <1>0, <1>1, <1>6 DEF OrderlyInv, Straight
<1>8. OneInHand'
  <2>1. m \notin outbox
    BY <1>1 DEF FlowInv, FreshInv
  <2>2. QED
    BY <1>0, <1>4, <1>5, <1>6, <2>1 DEF OrderlyInv, OneInHand, Started, Pending
<1>9. TrackedUntilAnswered'
  BY <1>0, <1>1, <1>6 DEF OrderlyInv, TrackedUntilAnswered
<1>10. AnswerIsOwn'
  BY <1>3, <1>5 DEF OrderlyInv, AnswerIsOwn
<1>11. QED
  BY <1>7, <1>8, <1>9, <1>10 DEF OrderlyInv

LEMMA OrderlyStart == Init => OrderlyInv
<1> SUFFICES ASSUME Init
             PROVE  OrderlyInv
  OBVIOUS
<1>1. /\ phase = "up" /\ conn = TRUE /\ inbox = <<>> /\ outbox = {}
      /\ \A m \in Messages : bridge[m] = "new"
      /\ \A j \in Jobs : pc[j] = "none"
  BY DEF Init
<1>2. \A y : ~In(inbox, y)
  BY <1>1 DEF In
<1>3. Straight
  BY <1>1, <1>2 DEF Straight, Jobs
<1>4. OneInHand /\ TrackedUntilAnswered /\ AnswerIsOwn
  BY <1>1 DEF OneInHand, TrackedUntilAnswered, AnswerIsOwn, Started, Pending, Jobs
<1>5. QED
  BY <1>3, <1>4 DEF OrderlyInv

LEMMA OrderlyStep ==
  ASSUME LinkHolds, LifeInv, OrderlyInv, [Next]_vars
  PROVE  OrderlyInv'
<1>1. CASE Next
  BY <1>1, NothingBreaks, OrderlyBegins, OrderlyWorks, OrderlyAnswer DEF LifeInv, Next, Jobs
<1>2. CASE UNCHANGED vars
  BY <1>2 DEF vars, bridgeVars, linkVars, cacheVars, serverVars, jobVars,
              OrderlyInv, Straight, OneInHand, TrackedUntilAnswered, AnswerIsOwn, PendingIn, Of
<1>3. QED
  BY <1>1, <1>2

LEMMA OrderlyAlways == LinkHolds => (Spec => [](LifeInv /\ OrderlyInv))
<1>1. LinkHolds /\ (LifeInv /\ OrderlyInv) /\ [Next]_vars => (LifeInv /\ OrderlyInv)'
  BY LifeStep, OrderlyStep
<1>2. Init => LifeInv /\ OrderlyInv
  BY LifeStarts, OrderlyStart
<1>3. LinkHolds => LinkHolds'
  BY DEF LinkHolds
<1>4. QED
  BY <1>1, <1>2, <1>3, PTL DEF Spec

\* As long as the link holds and the bridge waits, the server's row of a conversation is
\* that of the message it works on, and says so, unless the cache failed to put it.
THEOREM MessagesAreTracked == LinkHolds => (Spec => []TrackedUntilAnswered)
<1>1. OrderlyInv => TrackedUntilAnswered
  BY DEF OrderlyInv
<1>2. QED
  BY <1>1, OrderlyAlways, PTL

\* And no message is answered with the answer to another one, although answers are routed
\* by conversation only.
THEOREM MessagesGetTheirAnswer == LinkHolds => (Spec => []AnswerIsOwn)
<1>1. OrderlyInv => AnswerIsOwn
  BY DEF OrderlyInv
<1>2. QED
  BY <1>1, OrderlyAlways, PTL

-----------------------------------------------------------------------------
(* An answer is stored before it is delivered. *)

\* What the server has not stored yet.
Fresh(m) == bridge[m] = "new" \/ m \in outbox \/ In(inbox, <<"put", m>>)

\* What is written of a conversation: its row, and what a recovery has read of it.
Written(c) == {row[c].msg, row[c].response, entry[c].msg, entry[c].response}

\* It names messages of that conversation, and none that is not stored yet.
RowsAreOwn == \A c \in Conversations : Written(c) \subseteq Of(c) \cup {None}
FreshUnknown == \A m \in Messages : Fresh(m) => \A c \in Conversations : m \notin Written(c)

OneTurn ==
  \A j, k \in Jobs \cup Background : turn[j] = "running" /\ turn[k] = "running" => j = k

\* An answer that is about to be sent is in the row, if that is still its message's and
\* the answer could be written.
AnswerStored ==
  \A j \in Jobs :
    pc[j] = "storedDone" /\ row[Conv(j)].msg = Work(j) /\ Conv(j) \notin unsettled =>
      Stored(row[Conv(j)], Work(j))

KeepInv == RowsAreOwn /\ FreshUnknown /\ OneTurn /\ AnswerStored

\* The steps that resolve a request of the bridge.
Delivers ==
  \/ \E j \in Jobs : Respond(j)
  \/ \E c \in Conversations : AnswerQuery(c) \/ RecoverAct(c)

LEMMA BridgeStep ==
  ASSUME TypeOK, Next, NEW m \in Messages
  PROVE  /\ bridge'[m] = "new" => bridge[m] = "new"
         /\ m \in outbox' => m \in outbox \/ bridge[m] = "new"
         /\ bridge'[m] = "answered" => bridge[m] = "answered" \/ Delivers
<1>. USE DEF bridgeVars
<1>. DEFINE P == /\ bridge'[m] = "new" => bridge[m] = "new"
                 /\ m \in outbox' => m \in outbox \/ bridge[m] = "new"
                 /\ bridge'[m] = "answered" => bridge[m] = "answered" \/ Delivers
<1>1. ASSUME UNCHANGED bridgeVars
      PROVE  P
  BY <1>1
<1>2. ASSUME RejectAll
      PROVE  P
  BY <1>2 DEF RejectAll
<1>3. ASSUME NEW c, NEW r, Resolve(c, r), Delivers
      PROVE  P
  <2>1. bridge'[m] = "answered" \/ bridge'[m] = bridge[m]
    BY <1>3 DEF Resolve
  <2>2. outbox' = outbox
    BY <1>3 DEF Resolve
  <2>3. QED
    BY <1>3, <2>1, <2>2
<1>4. ASSUME NEW c, NEW f, NEW t \in {"queued", "processing"}, Advance(c, f, t)
      PROVE  P
  <2>1. outbox' = outbox /\ bridge'[m] \in {t, bridge[m]}
    BY <1>4 DEF Advance
  <2>2. QED
    BY <2>1
<1>5. CASE Boot \/ RequeueLost \/ Serve \/ Connect
  BY <1>1, <1>5 DEF Boot, RequeueLost, Serve, Connect
<1>6. CASE Crash \/ LoseLink \/ BridgeDies
  BY <1>1, <1>2, <1>6 DEF Crash, LoseLink, BridgeDies
<1>7. CASE \E b \in Background : Other(b)
  BY <1>1, <1>7 DEF Other
<1>8. ASSUME NEW x \in Messages, Register(x) \/ GiveUp(x) \/ InactivityTimeout(x)
      PROVE  P
  BY <1>8 DEF Register, GiveUp, InactivityTimeout, TypeOK
<1>9. ASSUME NEW x \in Messages, Send(x) \/ Put(x)
      PROVE  P
  BY <1>9 DEF Send, Put
<1>10. ASSUME NEW x \in Messages, AckAndPublish(x)
       PROVE  P
  BY <1>4, <1>10 DEF AckAndPublish
<1>11. ASSUME NEW c \in Conversations, Expire(c) \/ RecoverRead(c)
       PROVE  P
  BY <1>1, <1>11 DEF Expire, RecoverRead
<1>12. ASSUME NEW c \in Conversations, RecoverAct(c)
       PROVE  P
  BY <1>1, <1>3, <1>12 DEF RecoverAct, Delivers
<1>13. ASSUME NEW c \in Conversations, AnswerQuery(c)
       PROVE  P
  <2>1. Moves /\ outbox' = outbox /\ Delivers
    BY <1>13, QueryMoves DEF Delivers
  <2>2. QED
    BY <2>1 DEF Moves
<1>14. ASSUME NEW j \in Jobs,
              \/ Acquire(j) \/ Refuse(j) \/ NoProvider(j) \/ \E ok \in BOOLEAN : Store(j, ok)
       PROVE  P
  BY <1>1, <1>14 DEF Acquire, Refuse, NoProvider, Store
<1>15. ASSUME NEW j \in Jobs, StartTyping(j)
       PROVE  P
  BY <1>4, <1>15 DEF StartTyping
<1>16. ASSUME NEW j \in Jobs, Respond(j)
       PROVE  P
  BY <1>3, <1>16 DEF Respond, Delivers
<1>17. QED
  BY <1>5, <1>6, <1>7, <1>8, <1>9, <1>10, <1>11, <1>12, <1>13, <1>14, <1>15, <1>16 DEF Next

\* The queue of the server: a request to store comes by Send only.
LEMMA QueueStep ==
  ASSUME TypeOK, Next, NEW m \in Messages, In(inbox', <<"put", m>>)
  PROVE  In(inbox, <<"put", m>>) \/ m \in outbox
<1>. USE DEF linkVars
<1>0. /\ inbox \in Seq({"put", "query", "recover"} \X Jobs) /\ m \in Jobs
      /\ \A x \in Messages : ConvOf[x] \in Jobs
  BY LifecycleAssumption DEF TypeOK, Jobs
<1>1. ASSUME inbox' = inbox
      PROVE  In(inbox, <<"put", m>>)
  BY <1>1
<1>2. ASSUME inbox # <<>>, inbox' = Tail(inbox)
      PROVE  In(inbox, <<"put", m>>)
  BY <1>0, <1>2, TailHolds
<1>3. CASE Connect
  BY <1>0, <1>3, ConnectQueue DEF Drains
<1>4. CASE Crash
  <2>1. inbox' = <<>>
    BY <1>4 DEF Crash
  <2>2. QED
    BY <2>1 DEF In
<1>5. ASSUME NEW x \in Messages, Send(x)
      PROVE  In(inbox, <<"put", m>>) \/ m \in outbox
  <2>1. x \in outbox /\ inbox' = Append(inbox, <<"put", x>>)
    BY <1>5 DEF Send
  <2>2. <<"put", x>> \in {"put", "query", "recover"} \X Jobs
    BY DEF Jobs
  <2>3. QED
    BY <1>0, <2>1, <2>2, AppendHolds
<1>6. ASSUME NEW x \in Messages, InactivityTimeout(x)
      PROVE  In(inbox, <<"put", m>>)
  <2>1. inbox' = Append(inbox, <<"recover", ConvOf[x]>>)
    BY <1>6 DEF InactivityTimeout
  <2>2. <<"recover", ConvOf[x]>> \in {"put", "query", "recover"} \X Jobs
    BY <1>0
  <2>3. QED
    BY <1>0, <2>1, <2>2, AppendHolds
<1>7. CASE \/ \E x \in Messages : Put(x)
           \/ \E c \in Conversations : AnswerQuery(c) \/ RecoverRead(c)
  BY <1>2, <1>7 DEF Put, AnswerQuery, RecoverRead, Serves
<1>8. CASE \/ Boot \/ RequeueLost \/ Serve \/ LoseLink \/ BridgeDies
           \/ \E b \in Background : Other(b)
           \/ \E x \in Messages : Register(x) \/ GiveUp(x) \/ AckAndPublish(x)
           \/ \E c \in Conversations : Expire(c) \/ RecoverAct(c)
  BY <1>1, <1>8 DEF Boot, RequeueLost, Serve, LoseLink, BridgeDies, Other, Register, GiveUp, AckAndPublish,
                    Expire, RecoverAct
<1>9. CASE \E j \in Jobs : \/ Acquire(j) \/ Refuse(j) \/ NoProvider(j) \/ StartTyping(j)
                           \/ \E ok \in BOOLEAN : Store(j, ok)
                           \/ Respond(j)
  BY <1>1, <1>9 DEF Acquire, Refuse, NoProvider, StartTyping, Store, Respond
<1>10. QED
  BY <1>3, <1>4, <1>5, <1>6, <1>7, <1>8, <1>9 DEF Next

LEMMA FreshStep ==
  ASSUME TypeOK, Next, NEW m \in Messages, Fresh(m)'
  PROVE  Fresh(m)
  BY BridgeStep, QueueStep DEF Fresh

\* What a step writes of a conversation was written of it before, or is a message whose
\* request to store has been served.
LEMMA WrittenStep ==
  ASSUME TypeOK, FlowInv, RowsAreOwn, Next, NEW c \in Conversations, NEW x \in Written(c)'
  PROVE  x \in Written(c) \cup {None} \/ (x \in Of(c) /\ pc'[x] \notin {"none", "received"})
<1>. DEFINE P == x \in Written(c) \cup {None} \/ (x \in Of(c) /\ pc'[x] \notin {"none", "received"})
<1>. USE DEF cacheVars, jobVars
<1>0. row[c] \in Row /\ entry[c] \in Row
  BY DEF TypeOK
<1>1. ASSUME row'[c] \in {row[c], NoRow}, entry'[c] \in {entry[c], row[c], NoRow}
      PROVE  P
  BY <1>1 DEF Written, NoRow
<1>2. ASSUME \A d \in Conversations : row'[d] \in {row[d], NoRow} /\ entry'[d] \in {entry[d], row[d], NoRow}
      PROVE  P
  BY <1>1, <1>2
<1>3. CASE Boot \/ RequeueLost \/ Serve \/ Connect \/ LoseLink \/ BridgeDies
  BY <1>1, <1>3 DEF Boot, RequeueLost, Serve, Connect, LoseLink, BridgeDies
<1>4. CASE Crash
  <2>1. row' = row /\ entry' = [d \in Conversations |-> NoRow]
    BY <1>4 DEF Crash
  <2>2. QED
    BY <1>1, <2>1
<1>5. CASE \E b \in Background : Other(b)
  BY <1>1, <1>5 DEF Other
<1>6. CASE \E m \in Messages : Register(m) \/ Send(m) \/ GiveUp(m) \/ InactivityTimeout(m) \/ AckAndPublish(m)
  BY <1>1, <1>6 DEF Register, Send, GiveUp, InactivityTimeout, AckAndPublish
<1>7. ASSUME NEW m \in Messages, Put(m)
      PROVE  P
  <2>1. /\ \/ row' = [row EXCEPT ![ConvOf[m]] = [state |-> "queued", msg |-> m, response |-> None]]
           \/ row' = row
        /\ entry' = entry /\ pc' = [pc EXCEPT ![m] = "put"]
    BY <1>7 DEF Put
  <2>2. CASE c = ConvOf[m] /\ row' # row
    <3>1. row'[c].msg = m /\ row'[c].response = None
      BY <2>1, <2>2 DEF TypeOK
    <3>2. m \in Of(c) /\ pc'[m] = "put"
      BY <2>1, <2>2 DEF Of, TypeOK, Jobs
    <3>3. QED
      BY <2>1, <3>1, <3>2 DEF Written
  <2>3. CASE c # ConvOf[m] \/ row' = row
    BY <1>1, <2>1, <2>3 DEF TypeOK
  <2>4. QED
    BY <2>2, <2>3
<1>8. ASSUME NEW d \in Conversations, Expire(d)
      PROVE  P
  <2>1. row' = [row EXCEPT ![d] = NoRow] /\ entry' = entry
    BY <1>8 DEF Expire
  <2>2. row'[c] \in {row[c], NoRow}
    BY <2>1 DEF TypeOK
  <2>3. QED
    BY <1>1, <2>1, <2>2
<1>9. ASSUME NEW d \in Conversations, AnswerQuery(d) \/ RecoverAct(d)
      PROVE  P
  BY <1>1, <1>9 DEF AnswerQuery, RecoverAct
<1>10. ASSUME NEW d \in Conversations, RecoverRead(d)
       PROVE  P
  <2>1. row' = row /\ \E found \in {row[d], NoRow} : entry' = [entry EXCEPT ![d] = found]
    BY <1>10 DEF RecoverRead, CacheReads
  <2>2. entry'[c] \in {entry[c], row[c], NoRow}
    BY <2>1 DEF TypeOK
  <2>3. QED
    BY <1>1, <2>1, <2>2
<1>11. CASE \E j \in Jobs : Acquire(j) \/ Refuse(j) \/ NoProvider(j) \/ Respond(j)
  BY <1>1, <1>11 DEF Acquire, Refuse, NoProvider, Respond
<1>12. ASSUME NEW j \in Jobs, StartTyping(j)
       PROVE  P
  <2>1. /\ \/ row' = [row EXCEPT ![Conv(j)] = IF @ = NoRow THEN @ ELSE [@ EXCEPT !.state = "processing"]]
           \/ row' = row
        /\ entry' = entry
    BY <1>12 DEF StartTyping
  <2>2. row'[c] \in {row[c], [row[c] EXCEPT !.state = "processing"]}
    BY <2>1 DEF TypeOK
  <2>3. row'[c].msg = row[c].msg /\ row'[c].response = row[c].response
    BY <1>0, <2>2 DEF Row, NoRow
  <2>4. QED
    BY <2>1, <2>3 DEF Written
<1>13. ASSUME NEW j \in Jobs, NEW ok \in BOOLEAN, Store(j, ok)
       PROVE  P
  <2>1. /\ pc[j] \in {"held", "typing"} /\ pc'[j] \in {"storedDone", "storedError"} /\ entry' = entry
    BY <1>13 DEF Store, Over, TypeOK
  <2>2. Work(j) \in Messages /\ Conv(j) \in Conversations
    BY <2>1, WorkTypes DEF FlowInv
  <2>3. PICK r \in Row : /\ WriteOutcome(Conv(j), r)
                         /\ row[Conv(j)] = NoRow <=> r = NoRow
                         /\ r # NoRow => /\ r.msg = row[Conv(j)].msg
                                         /\ r.response \in {row[Conv(j)].response, Work(j)}
    BY <1>13, <2>2, OutcomeOf
  <2>4. CASE c # Conv(j)
    BY <1>1, <2>1, <2>2, <2>3, <2>4, OutcomeTypes
  <2>5. CASE c = Conv(j)
    <3>1. row'[c] = r \/ row'[c] = row[c]
      BY <2>2, <2>3, <2>5, OutcomeTypes
    <3>2. /\ row'[c].msg = row[c].msg
          /\ row'[c].response \in {row[c].response, Work(j)}
      BY <2>3, <2>5, <3>1
    <3>3. Work(j) \in Written(c) \/ (Work(j) \in Of(c) /\ pc'[Work(j)] \notin {"none", "received"})
      <4>1. CASE j \in Messages
        <5>1. Work(j) = j /\ j \in Of(c)
          BY <2>5, <4>1 DEF Work, Of, Conv
        <5>2. QED
          BY <2>1, <5>1
      <4>2. CASE j \notin Messages
        BY <2>5, <4>2 DEF Work, Conv, Written
      <4>3. QED
        BY <4>1, <4>2
    <3>4. QED
      BY <2>1, <3>2, <3>3 DEF Written
  <2>6. QED
    BY <2>4, <2>5
<1>14. QED
  BY <1>3, <1>4, <1>5, <1>6, <1>7, <1>8, <1>9, <1>10, <1>11, <1>12, <1>13 DEF Next

LEMMA KnownStep ==
  ASSUME TypeOK, FlowInv, KeepInv, Next, FlowInv', PutInv'
  PROVE  RowsAreOwn' /\ FreshUnknown'
<1>1. RowsAreOwn'
  BY WrittenStep DEF RowsAreOwn, KeepInv, Of
<1>2. ASSUME NEW m \in Messages, Fresh(m)', NEW c \in Conversations, m \in Written(c)'
      PROVE  FALSE
  <2>1. m \notin Written(c) /\ m # None
    BY <1>2, FreshStep, LifecycleAssumption DEF KeepInv, FreshUnknown
  <2>2. pc'[m] \notin {"none", "received"}
    BY <1>2, <2>1, WrittenStep DEF KeepInv
  <2>3. QED
    BY <1>2, <2>2 DEF FlowInv, FreshInv, PutInv, Fresh
<1>3. QED
  BY <1>1, <1>2 DEF FreshUnknown

\* The lock: a step gives the turn to nobody, or to one job while nobody has it.
LEMMA TurnStep ==
  ASSUME TypeOK, OneTurn, Next
  PROVE  OneTurn'
<1>. USE DEF jobVars
<1>1. ASSUME \A k \in Jobs \cup Background : turn'[k] = "running" => turn[k] = "running"
      PROVE  OneTurn'
  BY <1>1 DEF OneTurn, Jobs
<1>2. ASSUME turn' = turn
      PROVE  OneTurn'
  BY <1>1, <1>2
<1>3. ASSUME NEW j \in Jobs \cup Background, Lock!Ask(j) \/ Lock!Start(j) \/ Lock!Finish(j) \/ Lock!Refuse(j)
      PROVE  OneTurn'
  <2>1. CASE Lock!Start(j)
    <3>1. /\ \A k \in Jobs \cup Background : turn[k] # "running"
          /\ turn' = [turn EXCEPT ![j] = "running"]
      BY <2>1 DEF Lock!Start, Lock!NobodyRuns
    <3>2. \A k \in (Jobs \cup Background) \ {j} : turn'[k] # "running"
      BY <3>1 DEF TypeOK
    <3>3. QED
      BY <3>2 DEF OneTurn, Jobs
  <2>2. CASE Lock!Ask(j) \/ Lock!Finish(j) \/ Lock!Refuse(j)
    BY <1>1, <2>2 DEF Lock!Ask, Lock!Finish, Lock!Refuse, TypeOK
  <2>3. QED
    BY <1>3, <2>1, <2>2
<1>4. CASE Boot \/ Serve \/ Connect \/ LoseLink \/ BridgeDies
  BY <1>2, <1>4 DEF Boot, Serve, Connect, LoseLink, BridgeDies
<1>5. CASE RequeueLost
  <2>1. turn' = [k \in Jobs \cup Background |-> turn[k]]
    BY <1>5 DEF RequeueLost, Subscribed
  <2>2. QED
    BY <1>1, <2>1
<1>6. CASE Crash
  BY <1>1, <1>6 DEF Crash
<1>7. CASE \E b \in Background : Other(b)
  BY <1>3, <1>7 DEF Other
<1>8. ASSUME NEW m \in Messages,
             \/ Register(m) \/ Send(m) \/ GiveUp(m) \/ InactivityTimeout(m) \/ Put(m) \/ AckAndPublish(m)
      PROVE  OneTurn'
  BY <1>2, <1>3, <1>8 DEF Register, Send, GiveUp, InactivityTimeout, Put, AckAndPublish, Jobs
<1>9. ASSUME NEW c \in Conversations, Expire(c) \/ AnswerQuery(c) \/ RecoverRead(c) \/ RecoverAct(c)
      PROVE  OneTurn'
  BY <1>2, <1>3, <1>9 DEF Expire, AnswerQuery, RecoverRead, RecoverAct, Jobs
<1>10. ASSUME NEW j \in Jobs,
              \/ Acquire(j) \/ Refuse(j) \/ NoProvider(j) \/ StartTyping(j) \/ \E ok \in BOOLEAN : Store(j, ok)
              \/ Respond(j)
       PROVE  OneTurn'
  BY <1>2, <1>3, <1>10 DEF Acquire, Refuse, NoProvider, StartTyping, Store, Respond
<1>11. QED
  BY <1>4, <1>5, <1>6, <1>7, <1>8, <1>9, <1>10 DEF Next

\* No job has just stored its answer, and the rows are as they were or are gone.
LEMMA AnswerStays ==
  ASSUME TypeOK, FlowInv, AnswerStored,
         \A j \in Jobs : pc'[j] = "storedDone" => pc[j] = "storedDone",
         \A j \in Jobs : pc'[j] = "storedDone" => Work(j)' = Work(j),
         \A c \in Conversations : \/ row'[c] = NoRow
                                  \/ row'[c] = row[c] /\ (c \in unsettled => c \in unsettled')
  PROVE  AnswerStored'
<1>. SUFFICES ASSUME NEW j \in Jobs, pc'[j] = "storedDone", row'[Conv(j)].msg = Work(j)',
                     Conv(j) \notin unsettled'
              PROVE  Stored(row'[Conv(j)], Work(j)')
  BY DEF AnswerStored, Conv
<1>1. pc[j] = "storedDone" /\ Work(j)' = Work(j)
  OBVIOUS
<1>2. Work(j) \in Messages /\ Conv(j) \in Conversations
  BY <1>1, WorkTypes DEF FlowInv
<1>3. row'[Conv(j)] # NoRow
  BY <1>1, <1>2, LifecycleAssumption DEF NoRow
<1>4. QED
  BY <1>1, <1>2, <1>3 DEF AnswerStored

\* The writes to the row of a message whose answer is stored: another message of the
\* conversation takes it, or its own job is the one that writes.
LEMMA AnswerWrites ==
  ASSUME TypeOK, FlowInv, PutInv, HeldInv, KeepInv,
         \/ \E m \in Messages : Put(m)
         \/ \E j \in Jobs : StartTyping(j) \/ \E ok \in BOOLEAN : Store(j, ok)
  PROVE  AnswerStored'
<1>. SUFFICES ASSUME NEW k \in Jobs, pc'[k] = "storedDone", row'[Conv(k)].msg = Work(k)',
                     Conv(k) \notin unsettled'
              PROVE  Stored(row'[Conv(k)], Work(k)')
  BY DEF AnswerStored, Conv
<1>. USE DEF jobVars
<1>1. ASSUME NEW m \in Messages, Put(m)
      PROVE  Stored(row'[Conv(k)], Work(k)')
  <2>1. /\ \/ /\ row' = [row EXCEPT ![ConvOf[m]] = [state |-> "queued", msg |-> m, response |-> None]]
              /\ unsettled' = unsettled \ {ConvOf[m]}
           \/ UNCHANGED <<row, unsettled>>
        /\ pc' = [pc EXCEPT ![m] = "put"] /\ entry' = entry
        /\ inbox # <<>> /\ Head(inbox) = <<"put", m>>
    BY <1>1 DEF Put, Serves
  <2>2. pc[k] = "storedDone" /\ Work(k)' = Work(k)
    BY <2>1 DEF TypeOK, Jobs, Work
  <2>3. Fresh(m) /\ pc[m] = "received"
    <3>1. In(inbox, <<"put", m>>)
      BY <2>1, TailHolds DEF TypeOK
    <3>2. QED
      BY <3>1 DEF Fresh, PutInv
  <2>4. Work(k) # m
    <3>1. CASE k \in Messages
      BY <2>2, <2>3, <3>1 DEF Work
    <3>2. CASE k \notin Messages
      <4>1. k \in Conversations /\ Work(k) \in Written(k)
        BY <3>2 DEF Jobs, Work, Written
      <4>2. QED
        BY <2>3, <4>1 DEF KeepInv, FreshUnknown
    <3>3. QED
      BY <3>1, <3>2
  <2>5. Work(k) \in Messages /\ Conv(k) \in Conversations
    BY <2>2, WorkTypes DEF FlowInv
  <2>6. row'[Conv(k)] = row[Conv(k)] /\ Conv(k) \notin unsettled
    BY <2>1, <2>2, <2>4, <2>5 DEF TypeOK
  <2>7. QED
    BY <2>2, <2>6 DEF KeepInv, AnswerStored
<1>2. ASSUME NEW j \in Jobs, StartTyping(j)
      PROVE  Stored(row'[Conv(k)], Work(k)')
  <2>1. pc[j] = "held" /\ pc'[j] = "typing" /\ \A i \in Jobs \ {j} : pc'[i] = pc[i]
    BY <1>2 DEF StartTyping, TypeOK
  <2>2. turn[j] = "running" /\ turn[k] = "running" /\ j # k
    BY <2>1 DEF HeldInv
  <2>3. QED
    BY <2>2 DEF KeepInv, OneTurn
<1>3. ASSUME NEW j \in Jobs, NEW ok \in BOOLEAN, Store(j, ok)
      PROVE  Stored(row'[Conv(k)], Work(k)')
  <2>1. /\ pc[j] \in {"held", "typing"} /\ \A i \in Jobs \ {j} : pc'[i] = pc[i]
        /\ pc'[j] = (IF ok THEN "storedDone" ELSE "storedError") /\ entry' = entry
    BY <1>3 DEF Store, Over, TypeOK
  <2>2. k = j
    <3>1. SUFFICES ASSUME k # j
                   PROVE  FALSE
      OBVIOUS
    <3>2. turn[j] = "running" /\ turn[k] = "running"
      BY <2>1, <3>1 DEF HeldInv
    <3>3. QED
      BY <3>1, <3>2 DEF KeepInv, OneTurn
  <2>3. ok /\ Work(j)' = Work(j) /\ Conv(j) \in Conversations /\ Work(j) \in Messages
    BY <2>1, <2>2, WorkTypes DEF FlowInv, Work
  <2>4. PICK r \in Row : WriteOutcome(Conv(j), r) /\ (r # NoRow => Stored(r, Work(j)))
    BY <1>3, <2>3, OutcomeOf DEF Stored
  <2>5. row'[Conv(j)] = r
    BY <2>2, <2>3, <2>4, OutcomeTypes
  <2>6. r # NoRow
    BY <2>2, <2>3, <2>5, LifecycleAssumption DEF NoRow
  <2>7. QED
    BY <2>2, <2>3, <2>4, <2>5, <2>6
<1>4. QED
  BY <1>1, <1>2, <1>3

LEMMA AnswerStep ==
  ASSUME TypeOK, FlowInv, PutInv, HeldInv, KeepInv, Next
  PROVE  AnswerStored'
<1>. USE DEF cacheVars, jobVars
<1>1. ASSUME UNCHANGED <<row, unsettled, pc, entry>>
      PROVE  AnswerStored'
  BY <1>1 DEF KeepInv, AnswerStored, Work, Conv
<1>2. CASE \/ Boot \/ Serve \/ Connect \/ LoseLink \/ BridgeDies
           \/ \E b \in Background : Other(b)
           \/ \E m \in Messages : Register(m) \/ GiveUp(m)
           \/ \E c \in Conversations : AnswerQuery(c)
  BY <1>1, <1>2 DEF Boot, Serve, Connect, LoseLink, BridgeDies, Other, Register, GiveUp, AnswerQuery
<1>3. CASE RequeueLost
  <2>1. pc' = [j \in Jobs |-> pc[j]]
    BY <1>3 DEF RequeueLost, Subscribed
  <2>2. QED
    BY <1>1, <1>3, <2>1 DEF RequeueLost, TypeOK
<1>4. CASE Crash
  BY <1>4 DEF Crash, AnswerStored
<1>5. ASSUME NEW c \in Conversations, Expire(c)
      PROVE  AnswerStored'
  <2>1. /\ UNCHANGED <<pc, entry>> /\ unsettled' = unsettled \ {c}
        /\ row' = [row EXCEPT ![c] = NoRow]
    BY <1>5 DEF Expire
  <2>2. \A d \in Conversations : \/ row'[d] = NoRow
                                 \/ row'[d] = row[d] /\ (d \in unsettled => d \in unsettled')
    BY <2>1 DEF TypeOK
  <2>3. QED
    BY <2>1, <2>2, AnswerStays DEF KeepInv, Work
<1>6. ASSUME NEW j \in Jobs, UNCHANGED <<row, unsettled, entry>>, pc'[j] # "storedDone",
             \A k \in Jobs \ {j} : pc'[k] = pc[k]
      PROVE  AnswerStored'
  BY <1>6, AnswerStays DEF KeepInv, Work
<1>7. ASSUME NEW m \in Messages, Send(m) \/ AckAndPublish(m)
      PROVE  AnswerStored'
  BY <1>6, <1>7 DEF Send, AckAndPublish, TypeOK, Jobs
<1>8. ASSUME NEW m \in Messages, InactivityTimeout(m)
      PROVE  AnswerStored'
  <2>1. ConvOf[m] \in Jobs
    BY LifecycleAssumption DEF Jobs
  <2>2. QED
    BY <1>6, <1>8, <2>1 DEF InactivityTimeout, TypeOK
<1>9. ASSUME NEW c \in Conversations, RecoverRead(c)
      PROVE  AnswerStored'
  <2>1. /\ UNCHANGED <<row, unsettled>> /\ c \in Jobs /\ c \notin Messages
        /\ \E found \in CacheReads(c) : entry' = [entry EXCEPT ![c] = found]
        /\ pc'[c] = "read" /\ \A k \in Jobs \ {c} : pc'[k] = pc[k]
    BY <1>9, LifecycleAssumption DEF RecoverRead, TypeOK, Jobs
  <2>2. ASSUME NEW k \in Jobs, pc'[k] = "storedDone"
        PROVE  pc[k] = "storedDone" /\ Work(k)' = Work(k)
    <3>1. k # c
      BY <2>1, <2>2
    <3>2. k \notin Messages => entry'[k] = entry[k]
      BY <2>1, <3>1 DEF TypeOK, Jobs
    <3>3. QED
      BY <2>1, <2>2, <3>1, <3>2 DEF Work
  <2>3. QED
    BY <2>1, <2>2, AnswerStays DEF KeepInv
<1>10. ASSUME NEW c \in Conversations, RecoverAct(c)
       PROVE  AnswerStored'
  BY <1>6, <1>10 DEF RecoverAct, TypeOK, Jobs
<1>11. ASSUME NEW j \in Jobs, Acquire(j) \/ Refuse(j) \/ NoProvider(j) \/ Respond(j)
       PROVE  AnswerStored'
  BY <1>6, <1>11 DEF Acquire, Refuse, NoProvider, Respond, TypeOK
<1>12. QED
  BY <1>2, <1>3, <1>4, <1>5, <1>7, <1>8, <1>9, <1>10, <1>11, AnswerWrites DEF Next

LEMMA KeepStarts == Init => KeepInv
<1>. SUFFICES ASSUME Init
              PROVE  KeepInv
  OBVIOUS
<1>2. \A c \in Conversations : Written(c) = {None}
  BY DEF Init, Written, NoRow
<1>3. RowsAreOwn /\ FreshUnknown
  BY <1>2, LifecycleAssumption DEF RowsAreOwn, FreshUnknown
<1>4. OneTurn /\ AnswerStored
  BY DEF Init, Lock!Init, OneTurn, AnswerStored
<1>5. QED
  BY <1>3, <1>4 DEF KeepInv

LEMMA KeepStep ==
  ASSUME LifeInv, KeepInv, [Next]_vars
  PROVE  KeepInv'
<1>1. CASE Next
  <2>1. LifeInv'
    BY LifeStep
  <2>2. RowsAreOwn' /\ FreshUnknown'
    BY <1>1, <2>1, KnownStep DEF LifeInv
  <2>3. OneTurn' /\ AnswerStored'
    BY <1>1, TurnStep, AnswerStep DEF LifeInv, LiveInv, KeepInv
  <2>4. QED
    BY <2>2, <2>3 DEF KeepInv
<1>2. CASE UNCHANGED vars
  BY <1>2 DEF vars, bridgeVars, linkVars, cacheVars, serverVars, jobVars, KeepInv, RowsAreOwn,
              FreshUnknown, OneTurn, AnswerStored, Written, Fresh, Work, Conv
<1>3. QED
  BY <1>1, <1>2

\* A request that is resolved is resolved with what the step delivers.
LEMMA ResolveAnswers ==
  ASSUME NEW c, NEW r, Resolve(c, r), NEW m \in Messages, bridge[m] # "answered", bridge'[m] = "answered"
  PROVE  answer'[m] = r
  BY DEF Resolve

\* The message a job works on is one of its conversation.
LEMMA WorkIsOwn ==
  ASSUME TypeOK, EntryInv, RowsAreOwn, NEW j \in Jobs, pc[j] \in Asked
  PROVE  Work(j) \in Of(Conv(j)) /\ Conv(j) \in Conversations
<1>1. Work(j) \in Messages /\ Conv(j) \in Conversations
  BY WorkTypes DEF Asked
<1>2. CASE j \in Messages
  BY <1>1, <1>2 DEF Work, Conv, Of
<1>3. CASE j \notin Messages
  <2>1. Work(j) \in Written(j) /\ Conv(j) = j
    BY <1>3 DEF Work, Conv, Written
  <2>2. QED
    BY <1>1, <2>1, LifecycleAssumption DEF RowsAreOwn
<1>4. QED
  BY <1>2, <1>3

LEMMA StoredFirst ==
  ASSUME LifeInv, KeepInv, Next, NEW m \in Messages, NEW c \in Conversations,
         bridge[m] \in Pending, bridge'[m] = "answered", row[c].msg = answer'[m], answer'[m] # None,
         c \notin unsettled
  PROVE  \/ Stored(row[c], answer'[m])
         \/ pc[c] = "read" /\ pc'[c] = "answered" /\ Stored(entry[c], answer'[m])
<1>. DEFINE P == \/ Stored(row[c], answer'[m])
                 \/ pc[c] = "read" /\ pc'[c] = "answered" /\ Stored(entry[c], answer'[m])
<1>. USE DEF jobVars
<1>0. TypeOK /\ EntryInv /\ bridge[m] # "answered"
  BY DEF LifeInv, FlowInv, Pending
<1>1. Delivers
  BY <1>0, BridgeStep
<1>2. answer'[m] \in Of(c) /\ answer'[m] # Apology
  BY <1>0, LifecycleAssumption DEF KeepInv, RowsAreOwn, Written, Of
<1>3. ASSUME NEW j \in Jobs, Respond(j)
      PROVE  P
  <2>1. pc[j] \in Asked /\ answer'[m] = IF pc[j] = "storedDone" THEN Work(j) ELSE Apology
    BY <1>0, <1>3, ResolveAnswers DEF Respond, Asked
  <2>2. pc[j] = "storedDone" /\ answer'[m] = Work(j)
    BY <1>2, <2>1
  <2>3. Conv(j) = c
    BY <1>0, <1>2, <2>1, <2>2, WorkIsOwn DEF KeepInv, Of
  <2>4. QED
    BY <2>2, <2>3 DEF KeepInv, AnswerStored
<1>4. ASSUME NEW d \in Conversations, AnswerQuery(d)
      PROVE  P
  <2>. PICK found \in CacheReads(d) :
         CASE found.state = "done" -> Resolve(d, found.response)
           [] found.state \in {"error", "absent"} ->
                /\ bridge' = [x \in Messages |->
                                IF conn /\ x \in PendingIn(d) THEN "failed" ELSE bridge[x]]
                /\ UNCHANGED <<outbox, answer>>
           [] OTHER -> UNCHANGED bridgeVars
    BY <1>4 DEF AnswerQuery
  <2>1. found.state = "done"
    <3>1. CASE found.state \in {"error", "absent"}
      BY <1>0, <3>1
    <3>2. CASE found.state \notin {"done", "error", "absent"}
      BY <1>0, <3>2 DEF bridgeVars
    <3>3. QED
      BY <3>1, <3>2
  <2>2. found = row[d]
    BY <2>1 DEF CacheReads, NoRow
  <2>3. answer'[m] = row[d].response
    BY <1>0, <2>1, <2>2, ResolveAnswers
  <2>4. d = c
    BY <1>2, <2>3, LifecycleAssumption DEF KeepInv, RowsAreOwn, Written, Of
  <2>5. QED
    BY <2>1, <2>2, <2>3, <2>4 DEF Stored
<1>5. ASSUME NEW d \in Conversations, RecoverAct(d)
      PROVE  P
  <2>1. pc[d] = "read" /\ entry[d].state \notin Unfinished /\ pc' = [pc EXCEPT ![d] = "answered"]
    BY <1>0, <1>5 DEF RecoverAct, bridgeVars
  <2>2. answer'[m] = IF entry[d].state = "done" THEN entry[d].response ELSE Apology
    BY <1>0, <1>5, <2>1, ResolveAnswers DEF RecoverAct
  <2>3. entry[d].state = "done" /\ answer'[m] = entry[d].response
    BY <1>2, <2>2
  <2>4. d = c
    BY <1>2, <2>3, LifecycleAssumption DEF KeepInv, RowsAreOwn, Written, Of
  <2>5. pc'[d] = "answered"
    BY <1>0, <2>1 DEF TypeOK, Jobs
  <2>6. QED
    BY <2>1, <2>3, <2>4, <2>5 DEF Stored
<1>6. QED
  BY <1>1, <1>3, <1>4, <1>5 DEF Delivers

\* Whatever crashes, link losses, timeouts and failing cache operations come in between: when the
\* answer of a message is delivered, the row is still of that message and has not missed the
\* write of an outcome, the answer is in it, or the recovery that delivers it has read it there.
THEOREM AnswersAreStored == Spec => StoredBeforeDelivered
<1>. DEFINE Both == LifeInv /\ KeepInv
            Step == \A m \in Messages, c \in Conversations :
                      /\ bridge[m] \in Pending /\ bridge'[m] = "answered"
                      /\ row[c].msg = answer'[m] /\ answer'[m] # None
                      /\ c \notin unsettled
                      => \/ Stored(row[c], answer'[m])
                         \/ pc[c] = "read" /\ pc'[c] = "answered" /\ Stored(entry[c], answer'[m])
<1>1. Init => Both
  BY LifeStarts, KeepStarts
<1>2. Both /\ [Next]_vars => Both'
  BY LifeStep, KeepStep
<1>3. Both /\ [Next]_vars => [Step]_vars
  <2>1. Both /\ Next => Step
    BY StoredFirst
  <2>2. QED
    BY <2>1
<1>4. QED
  BY <1>1, <1>2, <1>3, PTL DEF Spec, StoredBeforeDelivered
=============================================================================
