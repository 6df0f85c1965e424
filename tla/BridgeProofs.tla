---------------------------- MODULE BridgeProofs ----------------------------
(***************************************************************************)
(* Proofs about requests on their way through the adapters: the entries of *)
(* both bridges (WhatsAppBridge, DiscordBridge), the futures of REST       *)
(* requests, keyed by conversation (RestApi), and those of the calls to a  *)
(* bridge, keyed by call (AdapterCalls).  For any number of messages,      *)
(* chats, requests, conversations, calls and connections.                  *)
(***************************************************************************)
EXTENDS WhatsAppBridge, DiscordBridge, RestApi, AdapterCalls, SequenceTheorems, TLAPS

LEMMA TailOf ==
  ASSUME NEW S, NEW s \in Seq(S), s # <<>>
  PROVE  /\ Tail(s) \in Seq(S) /\ Len(Tail(s)) = Len(s) - 1
         /\ \A i \in 1..Len(Tail(s)) : Tail(s)[i] = s[i + 1]
  OBVIOUS

LEMMA AppendTo ==
  ASSUME NEW S, NEW s \in Seq(S), NEW e \in S
  PROVE  /\ Append(s, e) \in Seq(S) /\ Len(Append(s, e)) = Len(s) + 1
         /\ \A i \in 1..Len(s) : Append(s, e)[i] = s[i]
         /\ Append(s, e)[Len(s) + 1] = e
         /\ Append(s, e) # <<>> /\ Head(Append(s, e)) = IF s = <<>> THEN e ELSE Head(s)
  OBVIOUS

LEMMA HeadOf ==
  ASSUME NEW S, NEW s \in Seq(S), s # <<>>
  PROVE  Head(s) \in S /\ Head(s) = s[1] /\ 1 \in 1..Len(s) /\ Len(s) \in Nat
  OBVIOUS

-----------------------------------------------------------------------------
(* Messages of WhatsApp. *)

\* Messages whose turn in the queue of their chat has come.
InTurn == {"typing", "writing", "sent", "answered", "failing"}

\* The queue of a chat holds its messages that wait or are in turn, each once, and only
\* the first of them is in turn.
LineInv ==
  /\ \A c \in Chats : \A i \in 1..Len(line[c]) :
       /\ ChatOf[line[c][i]] = c /\ waStage[line[c][i]] \in InTurn \cup {"queued"}
       /\ \A j \in 1..Len(line[c]) : line[c][j] = line[c][i] => j = i
  /\ \A m \in Incoming : waStage[m] \in InTurn => Current(m)

WaTypes ==
  /\ line \in [Chats -> Seq(Incoming)] /\ waiting \in [Chats -> Incoming \cup {NoMsg}]
  /\ waStage \in [Incoming -> Busy \cup {"new", "over", "lost"}] /\ typing \subseteq Incoming

\* An entry is that of the message in turn; "typing" is shown for nobody else.
WaEntryInv ==
  /\ \A c \in Chats : waiting[c] # NoMsg => ChatOf[waiting[c]] = c
  /\ \A m \in Incoming :
       /\ Entry(m) => waStage[m] \in {"writing", "sent"}
       /\ waStage[m] = "sent" => Entry(m)
       /\ waStage[m] = "typing" => waiting[ChatOf[m]] = NoMsg
       /\ m \in typing => waStage[m] \in InTurn

WaInv == WaTypes /\ LineInv /\ WaEntryInv

LEMMA WaStart == WaInit => WaInv
  BY WaAssumption DEF WaInit, WaInv, WaTypes, LineInv, WaEntryInv, InTurn, Busy, Entry

\* The process dies, and with it everything that was waiting.
LEMMA DieStep ==
  ASSUME WaInv, Die
  PROVE  WaInv'
  BY WaAssumption DEF Die, WaInv, WaTypes, LineInv, WaEntryInv, InTurn, Busy, Entry, Current

\* The queues stay, and no message that is in turn or waits for its turn leaves.
StaysInLine ==
  /\ line' = line
  /\ \A m \in Incoming : \/ waStage'[m] = waStage[m]
                         \/ waStage[m] \in InTurn /\ waStage'[m] \in InTurn
                         \/ waStage[m] \notin InTurn \cup {"queued"} /\ waStage'[m] \notin InTurn
                         \/ waStage[m] = "queued" /\ Current(m) /\ waStage'[m] \in InTurn

LEMMA LineKept ==
  ASSUME WaInv, StaysInLine
  PROVE  LineInv'
<1>1. \A c \in Chats : \A i \in 1..Len(line[c]) : line[c][i] \in Incoming
  BY DEF WaInv, WaTypes
<1>2. QED
  BY <1>1 DEF WaInv, StaysInLine, LineInv, Current

\* The head of a queue has been done with.
LEMMA LeaveStep ==
  ASSUME WaInv, NEW m \in Incoming, Current(m), waStage[m] \in InTurn \cup {"queued"},
         ~Entry(m), waiting' = waiting, Leave(m)
  PROVE  WaInv'
<1> DEFINE c == ChatOf[m]
<1>1. /\ c \in Chats /\ line[c] \in Seq(Incoming) /\ line[c] # <<>> /\ line[c][1] = m
      /\ waStage' = [waStage EXCEPT ![m] = "over"] /\ typing' = typing \ {m}
      /\ line' = [line EXCEPT ![c] = Tail(@)]
  BY WaAssumption, HeadOf DEF WaInv, WaTypes, Current, Leave, Stage
<1>2. /\ line'[c] = Tail(line[c]) /\ line'[c] \in Seq(Incoming) /\ Len(line[c]) \in Nat
      /\ \A d \in Chats \ {c} : line'[d] = line[d]
      /\ Len(line'[c]) = Len(line[c]) - 1 /\ \A i \in 1..Len(line'[c]) : line'[c][i] = line[c][i + 1]
  BY <1>1, TailOf, HeadOf DEF WaInv, WaTypes
<1>3. WaTypes'
  BY <1>1, <1>2 DEF WaInv, WaTypes
<1>4. \A x \in Incoming : waStage[x] \in InTurn /\ ChatOf[x] = c => x = m
  BY DEF WaInv, LineInv, Current
<1>5. ASSUME NEW i \in 1..Len(line'[c])
      PROVE  /\ i + 1 \in 1..Len(line[c]) /\ line'[c][i] # m /\ line'[c][i] \in Incoming
             /\ ChatOf[line'[c][i]] = c /\ waStage[line'[c][i]] \in InTurn \cup {"queued"}
  <2>1. /\ i + 1 \in 1..Len(line[c]) /\ 1 \in 1..Len(line[c]) /\ i + 1 # 1
        /\ line'[c][i] = line[c][i + 1]
    BY <1>2
  <2>2. QED
    BY <2>1, <1>1 DEF WaInv, LineInv
<1>6. ASSUME NEW i \in 1..Len(line'[c]), NEW j \in 1..Len(line'[c]), line'[c][i] = line'[c][j]
      PROVE  i = j
  <2>1. /\ i + 1 \in 1..Len(line[c]) /\ j + 1 \in 1..Len(line[c])
        /\ line[c][i + 1] = line[c][j + 1]
    BY <1>2, <1>6
  <2>2. i + 1 = j + 1
    BY <1>1, <2>1 DEF WaInv, LineInv
  <2>3. QED
    BY <2>2
<1>7. ASSUME NEW d \in Chats, d # c, NEW i \in 1..Len(line[d])
      PROVE  /\ line[d][i] # m /\ line[d][i] \in Incoming
             /\ ChatOf[line[d][i]] = d /\ waStage[line[d][i]] \in InTurn \cup {"queued"}
             /\ \A j \in 1..Len(line[d]) : line[d][j] = line[d][i] => j = i
  <2>2. line[d] \in Seq(Incoming)
    BY DEF WaInv, WaTypes
  <2>3. line[d][i] \in Incoming
    BY <2>2
  <2>4. QED
    BY <1>7, <2>3, <1>1 DEF WaInv, LineInv
<1>8. LineInv'
  <2>1. \A x \in Incoming : waStage'[x] \in InTurn => Current(x)'
    BY <1>1, <1>2, <1>4, WaAssumption DEF WaInv, LineInv, WaTypes, Current, InTurn
  <2>2. ASSUME NEW d \in Chats, NEW i \in 1..Len(line'[d])
        PROVE  /\ ChatOf[line'[d][i]] = d /\ waStage'[line'[d][i]] \in InTurn \cup {"queued"}
               /\ \A j \in 1..Len(line'[d]) : line'[d][j] = line'[d][i] => j = i
    <3>1. CASE d = c
      BY <1>1, <1>5, <1>6, <2>2, <3>1 DEF WaInv, WaTypes
    <3>2. CASE d # c
      BY <1>1, <1>2, <1>7, <2>2, <3>2 DEF WaInv, WaTypes
    <3>3. QED
      BY <3>1, <3>2
  <2>3. QED
    BY <2>1, <2>2 DEF LineInv
<1>9. WaEntryInv'
  BY <1>1, <1>4 DEF WaInv, WaEntryInv, WaTypes, Entry, InTurn
<1>10. QED
  BY <1>3, <1>8, <1>9 DEF WaInv

\* A message joins the queue of its chat.
LEMMA JoinStep ==
  ASSUME WaInv, NEW m \in Incoming, waStage[m] = "deciding",
         waStage' = [waStage EXCEPT ![m] = "queued"],
         line' = [line EXCEPT ![ChatOf[m]] = Append(@, m)], UNCHANGED <<waiting, typing>>
  PROVE  WaInv'
<1> DEFINE c == ChatOf[m]
<1>1. /\ c \in Chats /\ line[c] \in Seq(Incoming) /\ Len(line[c]) \in Nat
      /\ \A d \in Chats : d # c => line'[d] = line[d]
      /\ line'[c] = Append(line[c], m)
  <2>1. c \in Chats
    BY WaAssumption
  <2>2. QED
    BY <2>1 DEF WaInv, WaTypes
<1>2. /\ line'[c] \in Seq(Incoming) /\ Len(line'[c]) = Len(line[c]) + 1
      /\ \A i \in 1..Len(line[c]) : line'[c][i] = line[c][i]
      /\ line'[c][Len(line[c]) + 1] = m /\ line'[c] # <<>>
      /\ Head(line'[c]) = IF line[c] = <<>> THEN m ELSE Head(line[c])
  BY <1>1, AppendTo
<1>3. WaTypes'
  BY <1>1, <1>2 DEF WaInv, WaTypes, Busy
<1>4. \A d \in Chats : \A i \in 1..Len(line[d]) :
         /\ line[d][i] # m /\ line[d][i] \in Incoming
         /\ ChatOf[line[d][i]] = d /\ waStage[line[d][i]] \in InTurn \cup {"queued"}
         /\ \A j \in 1..Len(line[d]) : line[d][j] = line[d][i] => j = i
  BY DEF WaInv, LineInv, WaTypes, InTurn
<1>5. \A x \in Incoming : waStage'[x] \in InTurn => Current(x)'
  BY <1>1, <1>2, WaAssumption DEF WaInv, LineInv, WaTypes, Current, InTurn
<1>6. ASSUME NEW d \in Chats, NEW i \in 1..Len(line'[d])
      PROVE  /\ ChatOf[line'[d][i]] = d /\ waStage'[line'[d][i]] \in InTurn \cup {"queued"}
             /\ \A j \in 1..Len(line'[d]) : line'[d][j] = line'[d][i] => j = i
  <2>1. CASE d = c
    <3>1. i \in 1..Len(line[c]) \/ i = Len(line[c]) + 1
      BY <1>1, <1>2, <1>6, <2>1
    <3>2. \A j \in 1..Len(line'[c]) : j \in 1..Len(line[c]) \/ j = Len(line[c]) + 1
      BY <1>1, <1>2
    <3>3. QED
      BY <1>1, <1>2, <1>4, <2>1, <3>1, <3>2 DEF WaInv, WaTypes
  <2>2. CASE d # c
    BY <1>1, <1>4, <1>6, <2>2 DEF WaInv, WaTypes
  <2>3. QED
    BY <2>1, <2>2
<1>7. LineInv'
  BY <1>5, <1>6 DEF LineInv
<1>8. WaEntryInv'
  BY DEF WaInv, WaEntryInv, WaTypes, Entry, InTurn
<1>9. QED
  BY <1>3, <1>7, <1>8 DEF WaInv

\* What neither fills nor shortens a queue.
LEMMA StandStep ==
  ASSUME WaInv, NEW m \in Incoming,
         \/ Arrive(m) \/ Ask(m) \/ Written(m) \/ Answer(m) \/ TimeOut(m)
         \/ WriteFails(m) /\ ~Die
         \/ waStage[m] = "queued" /\ Current(m) /\ Stage(m, "typing") /\ typing' = typing \cup {m}
            /\ UNCHANGED <<line, waiting>>
         \/ waStage[m] = "deciding" /\ Stage(m, "over") /\ UNCHANGED <<line, waiting, typing>>
         \/ waStage[m] = "answered" /\ Stage(m, "failing") /\ UNCHANGED <<line, waiting, typing>>
  PROVE  WaInv'
<1>0. ChatOf[m] \in Chats
  BY WaAssumption
<1>1. \A x \in Incoming : Entry(x) => Current(x) /\ x # NoMsg
  BY WaAssumption DEF WaInv, LineInv, WaEntryInv, InTurn
<1>2. \A x, y \in Incoming : ChatOf[x] = ChatOf[y] /\ waStage[x] \in InTurn /\ waStage[y] \in InTurn => x = y
  BY DEF WaInv, LineInv, Current
<1>3. CASE Arrive(m)
  <2>1. WaTypes'
    BY <1>3 DEF Arrive, Stage, WaInv, WaTypes, Busy
  <2>2. LineInv'
    <3>1. StaysInLine
      BY <1>3 DEF StaysInLine, Arrive, Stage, WaInv, WaTypes, InTurn
    <3>2. QED
      BY <3>1, LineKept
  <2>3. WaEntryInv'
    BY <1>3 DEF Arrive, Stage, WaInv, WaTypes, WaEntryInv, Entry, InTurn
  <2>4. QED
    BY <2>1, <2>2, <2>3 DEF WaInv
<1>4. CASE Ask(m)
  <2>1. waiting[ChatOf[m]] = NoMsg /\ waStage[m] = "typing"
    BY <1>4 DEF Ask, WaInv, WaEntryInv
  <2>2. /\ waStage' = [waStage EXCEPT ![m] = "writing"]
        /\ waiting' = [waiting EXCEPT ![ChatOf[m]] = m] /\ line' = line /\ typing' = typing
    BY <1>4, <2>1, WaAssumption DEF Ask, WaInv, WaTypes
  <2>3. WaTypes'
    BY <2>2 DEF WaInv, WaTypes, Busy
  <2>4. LineInv'
    <3>1. StaysInLine
      BY <2>1, <2>2 DEF StaysInLine, WaInv, WaTypes, InTurn
    <3>2. QED
      BY <3>1, LineKept
  <2>5. WaEntryInv'
    BY <1>0, <1>2, <2>1, <2>2, WaAssumption DEF WaInv, WaTypes, WaEntryInv, Entry, InTurn
  <2>6. QED
    BY <2>3, <2>4, <2>5 DEF WaInv
<1>5. CASE Written(m)
  <2>1. WaTypes'
    BY <1>5 DEF Written, Stage, WaInv, WaTypes, Busy
  <2>2. LineInv'
    <3>1. StaysInLine
      BY <1>5 DEF StaysInLine, Written, Stage, WaInv, WaTypes, InTurn
    <3>2. QED
      BY <3>1, LineKept
  <2>3. WaEntryInv'
    BY <1>5 DEF Written, Stage, WaInv, WaTypes, WaEntryInv, Entry, InTurn
  <2>4. QED
    BY <2>1, <2>2, <2>3 DEF WaInv
<1>6. CASE Answer(m)
  <2>1. WaTypes'
    BY <1>0, <1>6, WaAssumption DEF Answer, Forget, WaInv, WaTypes, Busy
  <2>2. LineInv'
    <3>1. StaysInLine
      BY <1>6 DEF StaysInLine, Answer, WaInv, WaTypes, InTurn
    <3>2. QED
      BY <3>1, LineKept
  <2>3. WaEntryInv'
    <3>1. CASE socket = "open" /\ waiting[ChatOf[m]] # NoMsg
      <4>0. waiting[ChatOf[m]] \in Incoming
        BY <1>0, <3>1 DEF WaInv, WaTypes
      <4>1. PICK p \in Incoming : p = waiting[ChatOf[m]]
        BY <4>0
      <4>2. /\ waiting' = [waiting EXCEPT ![ChatOf[m]] = NoMsg] /\ typing' = typing
            /\ waStage' = [waStage EXCEPT ![p] = IF @ = "sent" THEN "answered" ELSE @]
        BY <1>6, <3>1, <4>1 DEF Answer, Forget
      <4>3. ChatOf[p] = ChatOf[m] /\ Entry(p) /\ waStage[p] \in {"writing", "sent"} /\ p # NoMsg
        BY <1>0, <3>1, <4>1 DEF WaInv, WaEntryInv, Entry
      <4>4. \A x \in Incoming : ChatOf[x] \in Chats
        BY WaAssumption
      <4>5. \A x \in Incoming : waStage[x] = "typing" \/ waStage[x] = "sent" => x = p \/ ChatOf[x] # ChatOf[p]
        BY <1>2, <4>3 DEF InTurn
      <4>6. QED
        <5>1. \A c \in Chats : waiting'[c] # NoMsg => waiting'[c] = waiting[c]
          BY <1>0, <4>2 DEF WaInv, WaTypes
        <5>2. \A x \in Incoming : Entry(x)' => Entry(x) /\ x # p
          BY <1>0, <4>2, <4>3, <4>4, WaAssumption DEF WaInv, WaTypes, Entry
        <5>3. \A x \in Incoming : Entry(x) /\ x # p => Entry(x)'
          BY <1>0, <4>2, <4>3, <4>4 DEF WaInv, WaTypes, Entry
        <5>4. \A x \in Incoming : /\ x # p => waStage'[x] = waStage[x]
                                  /\ waStage'[p] # "typing" /\ waStage'[p] # "sent"
                                  /\ waStage'[p] \in InTurn
          BY <4>2, <4>3 DEF WaInv, WaTypes, InTurn
        <5>5. \A x \in Incoming : waStage'[x] = "typing" => waiting'[ChatOf[x]] = NoMsg
          BY <4>2, <4>4, <4>5, <5>4 DEF WaInv, WaTypes, WaEntryInv
        <5>6. QED
          BY <4>2, <5>1, <5>2, <5>3, <5>4, <5>5 DEF WaInv, WaEntryInv
    <3>2. CASE ~(socket = "open" /\ waiting[ChatOf[m]] # NoMsg)
      BY <1>6, <3>2 DEF Answer, WaInv, WaEntryInv, Entry
    <3>3. QED
      BY <3>1, <3>2
  <2>4. QED
    BY <2>1, <2>2, <2>3 DEF WaInv
<1>7. CASE TimeOut(m)
  <2>1. WaTypes'
    BY <1>0, <1>7 DEF TimeOut, Forget, Stage, WaInv, WaTypes, Busy
  <2>2. LineInv'
    <3>1. StaysInLine
      BY <1>7 DEF StaysInLine, TimeOut, Stage, WaInv, WaTypes, InTurn
    <3>2. QED
      BY <3>1, LineKept
  <2>3. WaEntryInv'
    BY <1>0, <1>7, WaAssumption DEF TimeOut, Forget, Stage, WaInv, WaTypes, WaEntryInv, Entry, InTurn
  <2>4. QED
    BY <2>1, <2>2, <2>3 DEF WaInv
<1>8. CASE WriteFails(m) /\ ~Die
  <2>1. WaTypes'
    BY <1>8 DEF WriteFails, Stage, WaInv, WaTypes, Busy
  <2>2. LineInv'
    <3>1. StaysInLine
      BY <1>8 DEF StaysInLine, WriteFails, Stage, WaInv, WaTypes, InTurn
    <3>2. QED
      BY <3>1, LineKept
  <2>3. WaEntryInv'
    BY <1>8 DEF WriteFails, Stage, WaInv, WaTypes, WaEntryInv, Entry, InTurn
  <2>4. QED
    BY <2>1, <2>2, <2>3 DEF WaInv
<1>9. CASE waStage[m] = "queued" /\ Current(m) /\ Stage(m, "typing") /\ typing' = typing \cup {m}
           /\ UNCHANGED <<line, waiting>>
  <2>1. WaTypes'
    BY <1>9 DEF Stage, WaInv, WaTypes, Busy
  <2>2. LineInv'
    <3>1. StaysInLine
      BY <1>9 DEF StaysInLine, Stage, WaInv, WaTypes, InTurn
    <3>2. QED
      BY <3>1, LineKept
  <2>3. waiting[ChatOf[m]] = NoMsg
    <3>1. ASSUME NEW x \in Incoming, waiting[ChatOf[m]] = x
          PROVE  FALSE
      <4>1. ChatOf[x] = ChatOf[m] /\ waStage[x] \in {"writing", "sent"}
        BY <1>0, <3>1, WaAssumption DEF WaInv, WaEntryInv, Entry
      <4>2. Current(x)
        BY <4>1 DEF WaInv, LineInv, InTurn
      <4>3. QED
        BY <4>1, <4>2, <1>9 DEF Current
    <3>2. QED
      BY <1>0, <3>1 DEF WaInv, WaTypes
  <2>4. WaEntryInv'
    BY <1>9, <2>3 DEF Stage, WaInv, WaTypes, WaEntryInv, Entry, InTurn
  <2>5. QED
    BY <2>1, <2>2, <2>4 DEF WaInv
<1>10. CASE waStage[m] = "deciding" /\ Stage(m, "over") /\ UNCHANGED <<line, waiting, typing>>
  <2>1. WaTypes'
    BY <1>10 DEF Stage, WaInv, WaTypes, Busy
  <2>2. LineInv'
    <3>1. StaysInLine
      BY <1>10 DEF StaysInLine, Stage, WaInv, WaTypes, InTurn
    <3>2. QED
      BY <3>1, LineKept
  <2>3. WaEntryInv'
    BY <1>10 DEF Stage, WaInv, WaTypes, WaEntryInv, Entry, InTurn
  <2>4. QED
    BY <2>1, <2>2, <2>3 DEF WaInv
<1>11. CASE waStage[m] = "answered" /\ Stage(m, "failing") /\ UNCHANGED <<line, waiting, typing>>
  <2>1. WaTypes'
    BY <1>11 DEF Stage, WaInv, WaTypes, Busy
  <2>2. LineInv'
    <3>1. StaysInLine
      BY <1>11 DEF StaysInLine, Stage, WaInv, WaTypes, InTurn
    <3>2. QED
      BY <3>1, LineKept
  <2>3. WaEntryInv'
    BY <1>11 DEF Stage, WaInv, WaTypes, WaEntryInv, Entry, InTurn
  <2>4. QED
    BY <2>1, <2>2, <2>3 DEF WaInv
<1>12. QED
  BY <1>3, <1>4, <1>5, <1>6, <1>7, <1>8, <1>9, <1>10, <1>11

\* A socket that closes rejects all entries.
LEMMA CloseStep ==
  ASSUME WaInv, Close, ~Die
  PROVE  WaInv'
<1>1. /\ waStage' = [m \in Incoming |-> IF Entry(m) THEN "failing" ELSE waStage[m]]
      /\ waiting' = [c \in Chats |-> NoMsg] /\ UNCHANGED <<line, typing>>
  <2>1. ~(\E m \in Incoming : Entry(m) /\ waStage[m] = "writing")
    BY DEF Close
  <2>2. QED
    BY <2>1 DEF Close
<1>2. WaTypes'
  BY <1>1 DEF WaInv, WaTypes, Busy
<1>3. LineInv'
  <2>1. StaysInLine
    BY <1>1 DEF StaysInLine, WaInv, WaTypes, WaEntryInv, InTurn
  <2>2. QED
    BY <2>1, LineKept
<1>4. WaEntryInv'
  BY <1>1, WaAssumption DEF WaInv, WaTypes, WaEntryInv, Entry, InTurn
<1>5. QED
  BY <1>2, <1>3, <1>4 DEF WaInv

LEMMA WaKept ==
  ASSUME WaInv, [WaNext]_waVars
  PROVE  WaInv'
<1>1. CASE UNCHANGED <<waStage, line, waiting, typing>>
  BY <1>1 DEF WaInv, WaTypes, LineInv, WaEntryInv, Entry, Current
<1>2. CASE Die
  BY <1>2, DieStep
<1>3. CASE Close /\ ~Die
  BY <1>3, CloseStep
<1>4. ASSUME NEW m \in Incoming, Decide(m)
      PROVE  WaInv'
  BY <1>4, JoinStep, StandStep DEF Decide, Stage
<1>5. ASSUME NEW m \in Incoming, Begin(m) \/ Reply(m) \/ Apologise(m)
      PROVE  WaInv'
  <2>1. CASE Leave(m)
    <3>1. Current(m) /\ waStage[m] \in InTurn \cup {"queued"} /\ waiting' = waiting
      BY <1>5 DEF Begin, Reply, Apologise, WaInv, LineInv, InTurn
    <3>2. ~Entry(m)
      BY <1>5 DEF Begin, Reply, Apologise, WaInv, WaEntryInv
    <3>3. QED
      BY <2>1, <3>1, <3>2, LeaveStep
  <2>2. CASE ~Leave(m)
    BY <1>5, <2>2, StandStep DEF Begin, Reply, Apologise
  <2>3. QED
    BY <2>1, <2>2
<1>6. ASSUME NEW m \in Incoming,
             Arrive(m) \/ Ask(m) \/ Written(m) \/ (WriteFails(m) /\ ~Die) \/ Answer(m) \/ TimeOut(m)
      PROVE  WaInv'
  BY <1>6, StandStep
<1>7. QED
  BY <1>1, <1>2, <1>3, <1>4, <1>5, <1>6
     DEF WaNext, WaStep, waVars, memory, Restart, ConfigTimesOut, Open, AckConfig, Reconnect

LEMMA WaOrder == WaSpec => []WaInv
<1>1. WaInv /\ [WaNext]_waVars => WaInv'
  BY WaKept
<1>2. QED
  BY WaStart, <1>1, PTL DEF WaSpec

LEMMA WaCurrent == WaInv => EntryIsCurrent
  BY DEF WaInv, LineInv, WaEntryInv, EntryIsCurrent, InTurn, Busy

\* An entry is that of the message whose turn it is, and none outlives its message.
THEOREM EntriesAreCurrent == WaSpec => []EntryIsCurrent
<1>1. WaInv => EntryIsCurrent
  BY WaCurrent
<1>2. QED
  BY WaOrder, <1>1, PTL

-----------------------------------------------------------------------------
(* The types of the WhatsApp bridge. *)

Turns == {"user", "assistant"} \X Incoming

\* The types of what its messages and entries do not depend on.
WaRest ==
  /\ alive \in BOOLEAN /\ client \in BOOLEAN /\ closes \in 0..MaxCloses
  /\ socket \in {"closed", "connecting", "open"}
  /\ reply \in [Incoming -> Incoming \cup {NoMsg}] /\ owed \subseteq Incoming
  /\ waHistory \in [Chats -> Seq(Turns)]
  /\ \A c \in Chats : Len(waHistory[c]) <= Window

LEMMA WaRestStart == WaInit => WaRest
<1>. SUFFICES ASSUME WaInit
              PROVE  WaRest
  OBVIOUS
<1>1. waHistory \in [Chats -> Seq(Turns)]
  <2>1. <<>> \in Seq(Turns)
    OBVIOUS
  <2>. HIDE DEF Turns
  <2>2. QED
    BY <2>1 DEF WaInit
<1>2. \A c \in Chats : Len(waHistory[c]) <= Window
  BY WaAssumption DEF WaInit
<1>3. /\ alive \in BOOLEAN /\ client \in BOOLEAN /\ closes \in 0..MaxCloses
      /\ socket \in {"closed", "connecting", "open"}
  <2>1. closes = 0 /\ alive = TRUE /\ client = FALSE /\ socket = "connecting"
    BY DEF WaInit
  <2>2. closes \in 0..MaxCloses
    BY <2>1, WaAssumption
  <2>3. alive \in BOOLEAN /\ client \in BOOLEAN
    BY <2>1, Zenon
  <2>4. QED
    BY <2>1, <2>2, <2>3
<1>4. reply \in [Incoming -> Incoming \cup {NoMsg}] /\ owed \subseteq Incoming
  BY DEF WaInit
<1>5. QED
  BY <1>1, <1>2, <1>3, <1>4 DEF WaRest

\* Whatever joins the history of a chat, no more than its window is kept.
LEMMA RememberKeeps ==
  ASSUME WaRest, NEW m \in Incoming, NEW role \in {"user", "assistant"}, Remember(m, role)
  PROVE  waHistory' \in [Chats -> Seq(Turns)] /\ \A c \in Chats : Len(waHistory'[c]) <= Window
<1>. DEFINE c == ChatOf[m]
            all == Append(waHistory[c], <<role, m>>)
            first == IF Len(all) > Window THEN Len(all) - Window + 1 ELSE 1
            kept == SubSeq(all, first, Len(all))
<1>1. c \in Chats /\ Window \in Nat \ {0}
  BY WaAssumption
<1>2. <<role, m>> \in Turns
  BY DEF Turns
<1>3. all \in Seq(Turns) /\ Len(all) \in Nat
  <2>1. waHistory[c] \in Seq(Turns)
    BY <1>1 DEF WaRest
  <2>2. QED
    BY <1>2, <2>1, AppendTo
<1>4. first \in 1..Len(all) + 1 /\ Len(all) - first + 1 <= Window
  BY <1>1, <1>3
<1>5. kept \in Seq(Turns) /\ Len(kept) <= Window
  <2>1. \A i \in first..Len(all) : all[i] \in Turns
    BY <1>3, <1>4
  <2>2. first \in Int /\ Len(all) \in Int
    BY <1>3, <1>4
  <2>. HIDE DEF all, first
  <2>3. kept \in Seq(Turns) /\ Len(kept) = IF first <= Len(all) THEN Len(all) - first + 1 ELSE 0
    BY <2>1, <2>2, SubSeqProperties
  <2>4. QED
    BY <1>1, <1>4, <2>2, <2>3
<1>6. waHistory' = [waHistory EXCEPT ![c] = kept]
  BY DEF Remember
<1>7. QED
  <2>. HIDE DEF kept
  <2>1. QED
    BY <1>1, <1>5, <1>6 DEF WaRest

LEMMA WaRestStep ==
  ASSUME WaInv, WaRest, [WaNext]_waVars
  PROVE  WaRest'
<1>1. /\ alive' \in BOOLEAN /\ client' \in BOOLEAN /\ closes' \in 0..MaxCloses
      /\ socket' \in {"closed", "connecting", "open"}
  <2>1. CASE Restart \/ ConfigTimesOut \/ Open \/ AckConfig \/ Close \/ Reconnect \/ UNCHANGED waVars
    <3>1. closes' \in 0..MaxCloses
      BY <2>1, WaAssumption
         DEF WaRest, Restart, ConfigTimesOut, Open, AckConfig, Close, Reconnect, waVars
    <3>2. /\ alive' \in {alive, TRUE, FALSE} /\ client' \in {client, TRUE, FALSE}
          /\ socket' \in {socket, "closed", "connecting", "open"}
      BY <2>1 DEF Restart, ConfigTimesOut, Open, AckConfig, Close, Reconnect, Die, waVars, memory
    <3>3. QED
      BY <3>1, <3>2 DEF WaRest
  <2>2. ASSUME NEW m \in Incoming, Arrive(m) \/ Answer(m) \/ WaStep(m)
        PROVE  /\ UNCHANGED closes
               /\ \/ UNCHANGED <<alive, client, socket>>
                  \/ alive' = FALSE /\ client' = FALSE /\ socket' = "closed"
    BY <2>2 DEF Arrive, Answer, WaStep, Decide, Begin, Ask, Written, WriteFails, TimeOut, Reply, Apologise, Die
  <2>3. QED
    BY <2>1, <2>2 DEF WaNext, WaRest
<1>2. reply' \in [Incoming -> Incoming \cup {NoMsg}] /\ owed' \subseteq Incoming
  <2>1. CASE Restart \/ ConfigTimesOut \/ Open \/ AckConfig \/ Close \/ Reconnect \/ UNCHANGED waVars
    BY <2>1 DEF WaRest, Restart, ConfigTimesOut, Open, AckConfig, Close, Reconnect, Die, waVars, memory
  <2>2. ASSUME NEW m \in Incoming, Answer(m)
        PROVE  reply' \in [Incoming -> Incoming \cup {NoMsg}] /\ owed' \subseteq Incoming
    BY <2>2 DEF WaRest, Answer
  <2>3. ASSUME NEW m \in Incoming, Arrive(m) \/ WaStep(m)
        PROVE  /\ reply' = reply \/ reply' = [x \in Incoming |-> NoMsg]
               /\ owed' \subseteq owed \cup {m}
    BY <2>3 DEF Arrive, WaStep, Decide, Begin, Ask, Written, WriteFails, TimeOut, Reply, Apologise, Die
  <2>4. QED
    BY <2>1, <2>2, <2>3 DEF WaNext, WaRest
<1>3. waHistory' \in [Chats -> Seq(Turns)] /\ \A c \in Chats : Len(waHistory'[c]) <= Window
  <2>1. CASE UNCHANGED waHistory
    BY <2>1 DEF WaRest
  <2>2. ASSUME NEW m \in Incoming, waHistory' = [waHistory EXCEPT ![ChatOf[m]] = <<>>]
        PROVE  waHistory' \in [Chats -> Seq(Turns)] /\ \A c \in Chats : Len(waHistory'[c]) <= Window
    <3>1. <<>> \in Seq(Turns) /\ Len(<<>>) <= Window
      BY WaAssumption
    <3>2. QED
      BY <2>2, <3>1 DEF WaRest
  <2>3. ASSUME NEW m \in Incoming, NEW role \in {"user", "assistant"}, Remember(m, role)
        PROVE  waHistory' \in [Chats -> Seq(Turns)] /\ \A c \in Chats : Len(waHistory'[c]) <= Window
    BY <2>3, RememberKeeps
  <2>4. \/ UNCHANGED waHistory
        \/ \E m \in Incoming : \/ waHistory' = [waHistory EXCEPT ![ChatOf[m]] = <<>>]
                               \/ \E role \in {"user", "assistant"} : Remember(m, role)
    BY DEF WaNext, waVars, memory, Restart, ConfigTimesOut, Open, AckConfig, Close, Reconnect, Die, Arrive, Answer,
           WaStep, Decide, Begin, Ask, Written, WriteFails, TimeOut, Reply, Apologise
  <2>5. QED
    BY <2>1, <2>2, <2>3, <2>4
<1>4. QED
  BY <1>1, <1>2, <1>3 DEF WaRest

\* The invariants of the WhatsApp bridge give the types of its variables.
LEMMA WaTyped ==
  ASSUME WaInv, WaRest
  PROVE  WaTypeOK
<1>1. typing \cup owed \subseteq Incoming
  BY DEF WaInv, WaTypes, WaRest
<1>2. QED
  BY <1>1 DEF WaInv, WaTypes, WaRest, WaTypeOK, Turns

-----------------------------------------------------------------------------
(* The WhatsApp bridge keeps the promise of ConversationReplies. *)

NotAsked == {"new", "deciding", "queued", "typing"}

\* A message has no answer before it asks, nor while its entry is in the map.
WaFresh == \A m \in Incoming : waStage[m] \in NotAsked \/ Entry(m) => reply[m] = NoMsg

LEMMA WaTalkStart == WaInit => WaTalk!Init /\ WaFresh
<1>. SUFFICES ASSUME WaInit
              PROVE  WaTalk!Init /\ WaFresh
  OBVIOUS
<1>1. /\ \A m \in Incoming : waStage[m] = "new" /\ reply[m] = NoMsg
      /\ owed = {}
  BY DEF WaInit
<1>2. waStatus = [m \in Incoming |-> "new"] /\ waReply = [m \in Incoming |-> NoMsg]
  BY <1>1 DEF waStatus, waReply, Asking
<1>3. QED
  BY <1>1, <1>2 DEF WaTalk!Init, WaFresh

\* Some messages end, with or without an answer.
LEMMA WaCloses ==
  ASSUME WaInv, owed' = owed, NEW R \in SUBSET Incoming,
         \A m \in R : waStatus[m] # "closed" /\ waStage'[m] \in {"failing", "over", "lost"},
         \A m \in Incoming \ R : waStage'[m] = waStage[m] /\ (Asking(m) => reply'[m] = reply[m])
  PROVE  WaTalk!Next
<1>1. waStatus' = [m \in Incoming |-> IF m \in R THEN "closed" ELSE waStatus[m]]
  BY DEF waStatus
<1>2. waReply' = [m \in Incoming |-> IF m \in R THEN NoMsg ELSE waReply[m]]
  BY DEF waReply, Asking
<1>3. WaTalk!Close(R)
  BY <1>1, <1>2 DEF WaTalk!Close
<1>4. QED
  BY <1>3 DEF WaTalk!Next

\* One of them.
LEMMA WaCloseOne ==
  ASSUME WaInv, owed' = owed, reply' = reply, NEW m \in Incoming, NEW s \in {"failing", "over"},
         waStage[m] \notin {"failing", "over", "lost"}, Stage(m, s)
  PROVE  WaTalk!Next
<1>1. waStatus[m] # "closed"
  BY DEF waStatus, WaInv, WaTypes, Busy
<1>2. waStage'[m] = s /\ \A x \in Incoming \ {m} : waStage'[x] = waStage[x]
  BY DEF Stage, WaInv, WaTypes
<1>3. QED
  <2>1. {m} \in SUBSET Incoming
    OBVIOUS
  <2>2. QED
    BY <1>1, <1>2, <2>1, WaCloses

LEMMA WaDies ==
  ASSUME WaInv, Die
  PROVE  [WaTalk!Next]_(WaTalk!talkVars)
<1>. DEFINE R == {m \in Incoming : waStage[m] \in Busy \ {"failing"}}
<1>1. /\ owed' = owed /\ waStage' = [m \in Incoming |-> IF waStage[m] \in Busy THEN "lost" ELSE waStage[m]]
  BY DEF Die
<1>2. waStatus' = [m \in Incoming |-> IF m \in R THEN "closed" ELSE waStatus[m]]
  BY <1>1 DEF waStatus, WaInv, WaTypes, Busy
<1>3. waReply' = [m \in Incoming |-> IF m \in R THEN NoMsg ELSE waReply[m]]
  BY <1>1 DEF waReply, Asking, WaInv, WaTypes, Busy
<1>4. \A m \in R : waStatus[m] # "closed"
  BY DEF waStatus, Busy
<1>5. R \in SUBSET Incoming
  OBVIOUS
<1>. HIDE DEF R
<1>6. QED
  BY <1>1, <1>2, <1>3, <1>4, <1>5 DEF WaTalk!Close, WaTalk!Next

\* Nothing that the requests see.
LEMMA WaUnseen ==
  ASSUME UNCHANGED <<reply, owed>>,
         \A m \in Incoming : \/ waStage'[m] = waStage[m]
                             \/ waStage[m] \in NotAsked /\ waStage'[m] \in NotAsked
  PROVE  UNCHANGED WaTalk!talkVars
  BY DEF WaTalk!talkVars, waStatus, waReply, Asking, NotAsked

LEMMA WaTalkStep ==
  ASSUME WaInv, WaRest, WaFresh, [WaNext]_waVars
  PROVE  [WaTalk!Next]_(WaTalk!talkVars)
<1>0. /\ WaTypes /\ WaEntryInv /\ \A m \in Incoming : ChatOf[m] \in Chats
      /\ reply \in [Incoming -> Incoming \cup {NoMsg}]
  BY WaAssumption DEF WaInv, WaRest
<1>1. CASE Restart \/ Open \/ AckConfig \/ Reconnect \/ UNCHANGED waVars
  <2>1. UNCHANGED <<waStage, reply, owed>>
    BY <1>1 DEF Restart, Open, AckConfig, Reconnect, waVars, memory
  <2>2. QED
    BY <2>1, WaUnseen
<1>2. CASE ConfigTimesOut
  BY <1>2, WaDies DEF ConfigTimesOut
<1>3. CASE Close
  <2>1. CASE Die
    BY <2>1, WaDies
  <2>2. CASE ~Die
    <3>. DEFINE R == {m \in Incoming : Entry(m)}
    <3>1. /\ waStage' = [m \in Incoming |-> IF Entry(m) THEN "failing" ELSE waStage[m]]
          /\ UNCHANGED <<reply, owed>>
      BY <1>3, <2>2 DEF Close
    <3>2. \A m \in R : waStage[m] \in {"writing", "sent"}
      BY <1>0 DEF WaEntryInv
    <3>3. \A m \in R : waStatus[m] # "closed"
      BY <3>2 DEF waStatus
    <3>4. R \in SUBSET Incoming
      OBVIOUS
    <3>5. /\ \A m \in R : waStage'[m] = "failing"
          /\ \A m \in Incoming \ R : waStage'[m] = waStage[m]
      BY <3>1
    <3>. HIDE DEF R
    <3>6. QED
      BY <3>1, <3>3, <3>4, <3>5, WaCloses
  <2>3. QED
    BY <2>1, <2>2
<1>4. ASSUME NEW m \in Incoming, Arrive(m)
      PROVE  UNCHANGED WaTalk!talkVars
  BY <1>0, <1>4, WaUnseen DEF Arrive, Stage, WaTypes, NotAsked
<1>5. ASSUME NEW m \in Incoming, Decide(m)
      PROVE  [WaTalk!Next]_(WaTalk!talkVars)
  <2>1. waStage[m] = "deciding" /\ UNCHANGED <<reply, owed>> /\ (Stage(m, "over") \/ Stage(m, "queued"))
    BY <1>5 DEF Decide
  <2>2. CASE Stage(m, "over")
    BY <2>1, <2>2, WaCloseOne
  <2>3. CASE Stage(m, "queued")
    BY <1>0, <2>1, <2>3, WaUnseen DEF Stage, WaTypes, NotAsked
  <2>4. QED
    BY <2>1, <2>2, <2>3
<1>6. ASSUME NEW m \in Incoming, Begin(m)
      PROVE  [WaTalk!Next]_(WaTalk!talkVars)
  <2>1. waStage[m] = "queued" /\ UNCHANGED <<reply, owed>> /\ (Stage(m, "over") \/ Stage(m, "typing"))
    BY <1>6 DEF Begin, Leave
  <2>2. CASE Stage(m, "over")
    BY <2>1, <2>2, WaCloseOne
  <2>3. CASE Stage(m, "typing")
    BY <1>0, <2>1, <2>3, WaUnseen DEF Stage, WaTypes, NotAsked
  <2>4. QED
    BY <2>1, <2>2, <2>3
<1>7. ASSUME NEW m \in Incoming, Ask(m)
      PROVE  WaTalk!Register(m)
  <2>1. waStage[m] = "typing" /\ waiting[ChatOf[m]] = NoMsg /\ UNCHANGED <<reply, owed>>
    BY <1>0, <1>7 DEF Ask, WaEntryInv
  <2>2. waStage' = [waStage EXCEPT ![m] = "writing"]
    BY <1>0, <1>7, <2>1, WaAssumption DEF Ask, WaTypes
  <2>3. waStatus[m] = "new" /\ waStatus' = [waStatus EXCEPT ![m] = "open"]
    BY <1>0, <2>1, <2>2 DEF waStatus, WaTypes
  <2>4. reply[m] = NoMsg
    BY <2>1 DEF WaFresh, NotAsked
  <2>5. waReply' = waReply
    BY <1>0, <2>1, <2>2, <2>4 DEF waReply, Asking, WaTypes
  <2>6. QED
    BY <2>1, <2>3, <2>5 DEF WaTalk!Register
<1>8. ASSUME NEW m \in Incoming, Written(m)
      PROVE  WaTalk!Send(m)
  <2>1. /\ waStage[m] = "writing" /\ reply' = reply /\ owed' = owed \cup {m}
        /\ Stage(m, "sent") \/ Stage(m, "answered")
    BY <1>8 DEF Written
  <2>2. waStatus[m] = "open" /\ waStatus' = [waStatus EXCEPT ![m] = "sent"]
    BY <1>0, <2>1 DEF Stage, waStatus, WaTypes
  <2>3. waReply' = waReply
    BY <1>0, <2>1 DEF Stage, waReply, Asking, WaTypes
  <2>4. QED
    BY <2>1, <2>2, <2>3 DEF WaTalk!Send
<1>9. ASSUME NEW m \in Incoming, WriteFails(m)
      PROVE  [WaTalk!Next]_(WaTalk!talkVars)
  <2>1. CASE Entry(m)
    BY <1>9, <2>1, WaDies DEF WriteFails
  <2>2. CASE ~Entry(m)
    <3>1. waStage[m] = "writing" /\ Stage(m, "failing") /\ UNCHANGED <<reply, owed>>
      BY <1>9, <2>2 DEF WriteFails
    <3>2. QED
      BY <3>1, WaCloseOne
  <2>3. QED
    BY <2>1, <2>2
<1>10. ASSUME NEW m \in Incoming, TimeOut(m) \/ Reply(m)
       PROVE  [WaTalk!Next]_(WaTalk!talkVars)
  <2>1. /\ waStage[m] \in {"sent", "answered"} /\ UNCHANGED <<reply, owed>>
        /\ Stage(m, "over") \/ Stage(m, "failing")
    BY <1>10 DEF TimeOut, Reply, Leave
  <2>2. QED
    BY <2>1, WaCloseOne
<1>11. ASSUME NEW m \in Incoming, Apologise(m)
       PROVE  UNCHANGED WaTalk!talkVars
  <2>1. waStage[m] = "failing" /\ Stage(m, "over") /\ UNCHANGED <<reply, owed>>
    BY <1>11 DEF Apologise, Leave
  <2>2. waStatus' = waStatus /\ waReply' = waReply
    BY <1>0, <2>1 DEF Stage, waStatus, waReply, Asking, WaTypes
  <2>3. QED
    BY <2>1, <2>2 DEF WaTalk!talkVars
<1>12. ASSUME NEW m \in Incoming, Answer(m)
       PROVE  WaTalk!Lose(m) \/ \E p \in Incoming : WaTalk!Deliver(m, p)
  <2>1. m \in owed /\ owed' = owed \ {m}
    BY <1>12 DEF Answer
  <2>2. CASE ~(socket = "open" /\ waiting[ChatOf[m]] # NoMsg)
    <3>1. UNCHANGED <<reply, waStage>>
      BY <1>12, <2>2 DEF Answer
    <3>2. waStatus' = waStatus /\ waReply' = waReply
      BY <3>1 DEF waStatus, waReply, Asking
    <3>3. QED
      BY <2>1, <3>2 DEF WaTalk!Lose
  <2>3. CASE socket = "open" /\ waiting[ChatOf[m]] # NoMsg
    <3>1. PICK p \in Incoming : /\ p = waiting[ChatOf[m]] /\ ChatOf[p] = ChatOf[m] /\ Entry(p)
                                /\ waStage[p] \in {"writing", "sent"} /\ reply[p] = NoMsg
      <4>1. waiting[ChatOf[m]] \in Incoming /\ ChatOf[waiting[ChatOf[m]]] = ChatOf[m]
        BY <1>0, <2>3 DEF WaTypes, WaEntryInv
      <4>2. Entry(waiting[ChatOf[m]])
        BY <4>1 DEF Entry
      <4>3. QED
        BY <1>0, <4>1, <4>2 DEF WaEntryInv, WaFresh
    <3>2. /\ reply' = [reply EXCEPT ![p] = m]
          /\ waStage' = [waStage EXCEPT ![p] = IF @ = "sent" THEN "answered" ELSE @]
      BY <1>12, <2>3, <3>1 DEF Answer
    <3>3. waStatus' = waStatus
      BY <1>0, <3>1, <3>2 DEF waStatus, WaTypes
    <3>4. waReply' = [waReply EXCEPT ![p] = m]
      BY <1>0, <3>1, <3>2 DEF waReply, Asking, WaTypes
    <3>5. WaTalk!Waits(p)
      BY <3>1 DEF WaTalk!Waits, waStatus, waReply
    <3>6. QED
      BY <2>1, <3>1, <3>3, <3>4, <3>5 DEF WaTalk!Deliver
  <2>4. QED
    BY <2>2, <2>3
<1>13. QED
  BY <1>1, <1>2, <1>3, <1>4, <1>5, <1>6, <1>7, <1>8, <1>9, <1>10, <1>11, <1>12
     DEF WaNext, WaStep, WaTalk!Next

LEMMA WaFreshStep ==
  ASSUME WaInv, WaRest, WaFresh, [WaNext]_waVars
  PROVE  WaFresh'
<1>0. /\ WaTypes /\ WaEntryInv /\ \A m \in Incoming : ChatOf[m] \in Chats
      /\ reply \in [Incoming -> Incoming \cup {NoMsg}]
  BY WaAssumption DEF WaInv, WaRest
<1>1. CASE Restart \/ Open \/ AckConfig \/ Reconnect \/ UNCHANGED waVars
  BY <1>1 DEF Restart, Open, AckConfig, Reconnect, waVars, memory, WaFresh, Entry
<1>2. CASE Die
  BY <1>2 DEF Die, WaFresh
<1>3. CASE Close /\ ~Die
  <2>1. /\ waStage' = [m \in Incoming |-> IF Entry(m) THEN "failing" ELSE waStage[m]]
        /\ waiting' = [c \in Chats |-> NoMsg] /\ reply' = reply
    BY <1>3 DEF Close
  <2>2. QED
    BY <1>0, <2>1, WaAssumption DEF WaFresh, Entry, NotAsked
<1>4. ASSUME NEW m \in Incoming, Arrive(m) \/ Decide(m) \/ Begin(m) \/ Reply(m) \/ Apologise(m)
      PROVE  WaFresh'
  <2>1. /\ UNCHANGED <<reply, waiting>>
        /\ \E s \in {"deciding", "queued", "typing", "over", "failing"} : Stage(m, s)
        /\ waStage[m] \in NotAsked \/ \E s \in {"over", "failing"} : Stage(m, s)
    BY <1>4 DEF Arrive, Decide, Begin, Reply, Apologise, Leave, NotAsked
  <2>2. QED
    BY <1>0, <2>1 DEF Stage, WaFresh, Entry, NotAsked, WaTypes
<1>5. ASSUME NEW m \in Incoming, Ask(m)
      PROVE  WaFresh'
  <2>1. /\ waStage[m] = "typing" /\ waiting[ChatOf[m]] = NoMsg /\ reply' = reply
        /\ waiting' = [waiting EXCEPT ![ChatOf[m]] = m]
    BY <1>0, <1>5 DEF Ask, WaEntryInv
  <2>2. waStage' = [waStage EXCEPT ![m] = "writing"]
    BY <1>0, <1>5, <2>1, WaAssumption DEF Ask, WaTypes
  <2>3. \A x \in Incoming : Entry(x)' => Entry(x) \/ x = m
    BY <1>0, <2>1 DEF Entry, WaTypes
  <2>4. QED
    BY <1>0, <2>1, <2>2, <2>3 DEF WaFresh, NotAsked, WaTypes
<1>6. ASSUME NEW m \in Incoming, Written(m) \/ (WriteFails(m) /\ ~Die)
      PROVE  WaFresh'
  <2>1. /\ UNCHANGED <<reply, waiting>>
        /\ \E s \in {"sent", "answered", "failing"} : Stage(m, s)
    BY <1>6 DEF Written, WriteFails
  <2>2. QED
    BY <1>0, <2>1 DEF Stage, WaFresh, Entry, NotAsked, WaTypes
<1>7. ASSUME NEW m \in Incoming, TimeOut(m)
      PROVE  WaFresh'
  <2>1. waStage' = [waStage EXCEPT ![m] = "failing"] /\ waiting' = Forget(ChatOf[m]) /\ reply' = reply
    BY <1>7 DEF TimeOut, Stage
  <2>2. \A x \in Incoming : Entry(x)' => Entry(x)
    BY <1>0, <2>1, WaAssumption DEF Forget, Entry, WaTypes
  <2>3. QED
    BY <1>0, <2>1, <2>2 DEF WaFresh, NotAsked, WaTypes
<1>8. ASSUME NEW m \in Incoming, Answer(m)
      PROVE  WaFresh'
  <2>1. CASE ~(socket = "open" /\ waiting[ChatOf[m]] # NoMsg)
    BY <1>8, <2>1 DEF Answer, WaFresh, Entry
  <2>2. CASE socket = "open" /\ waiting[ChatOf[m]] # NoMsg
    <3>1. PICK p \in Incoming : /\ p = waiting[ChatOf[m]] /\ ChatOf[p] = ChatOf[m]
                                /\ waStage[p] \in {"writing", "sent"}
      <4>1. waiting[ChatOf[m]] \in Incoming /\ ChatOf[waiting[ChatOf[m]]] = ChatOf[m]
        BY <1>0, <2>2 DEF WaTypes, WaEntryInv
      <4>2. Entry(waiting[ChatOf[m]])
        BY <4>1 DEF Entry
      <4>3. QED
        BY <1>0, <4>1, <4>2 DEF WaEntryInv
    <3>2. /\ reply' = [reply EXCEPT ![p] = m] /\ waiting' = Forget(ChatOf[m])
          /\ waStage' = [waStage EXCEPT ![p] = IF @ = "sent" THEN "answered" ELSE @]
      BY <1>8, <2>2, <3>1 DEF Answer
    <3>3. waStage'[p] \notin NotAsked /\ \A x \in Incoming \ {p} : waStage'[x] = waStage[x]
      BY <1>0, <3>1, <3>2 DEF NotAsked, WaTypes
    <3>4. ~Entry(p)' /\ \A x \in Incoming : Entry(x)' => Entry(x)
      BY <1>0, <3>1, <3>2, WaAssumption DEF Forget, Entry, WaTypes
    <3>5. \A x \in Incoming \ {p} : reply'[x] = reply[x]
      BY <1>0, <3>2
    <3>6. QED
      BY <3>3, <3>4, <3>5 DEF WaFresh
  <2>3. QED
    BY <2>1, <2>2
<1>9. QED
  BY <1>1, <1>2, <1>3, <1>4, <1>5, <1>6, <1>7, <1>8 DEF WaNext, WaStep, ConfigTimesOut

\* Over closed sockets, timeouts and the death of the process: an answer resolves at most
\* one message, of its own chat, that waits and has none.
THEOREM WaImplementsReplies == WaSpec => WaGivesReplies
<1>. DEFINE All == WaInv /\ WaRest /\ WaFresh
<1>1. WaInit => All
  BY WaStart, WaRestStart, WaTalkStart
<1>2. All /\ [WaNext]_waVars => All'
  BY WaKept, WaRestStep, WaFreshStep
<1>3. All /\ [WaNext]_waVars => [WaTalk!Next]_(WaTalk!talkVars)
  BY WaTalkStep
<1>4. WaInit => WaTalk!Init
  BY WaTalkStart
<1>. HIDE DEF All
<1>5. QED
  BY <1>1, <1>2, <1>3, <1>4, PTL DEF WaSpec, WaGivesReplies, WaTalk!Spec

-----------------------------------------------------------------------------
(* Requests of Discord. *)

PostTypes ==
  /\ post \in [Posts -> InProgress \cup {"new", "over", "lost"}] /\ chain \in Seq(Posts)
  /\ inMap \cup loose \cup typed \cup settled \subseteq Posts
  /\ entryPhase \in [Posts -> {"none", "ack", "queued", "processing", "recovering"}]
  /\ timer \in [Posts -> {"none", "ack", "queue", "inactivity", "recovery"}]
  /\ awaiting \in [Posts -> {"none", "typing", "recover"}]
  /\ overtaken \in BOOLEAN

ChainInv ==
  /\ \A i \in 1..Len(chain) : /\ post[chain[i]] \in InProgress
                              /\ \A j \in 1..Len(chain) : chain[j] = chain[i] => j = i
  /\ \A m \in Posts : post[m] \in InProgress \ {"chained"} => AtHead(m)

\* The timer that runs and the await that is under way tell the phase of an entry.
PhaseInv ==
  \A m \in Posts :
    /\ post[m] \in {"new", "chained"} =>
         /\ timer[m] = "none" /\ awaiting[m] = "none"
         /\ m \notin inMap \cup loose \cup typed \cup settled
    /\ timer[m] = "ack" => entryPhase[m] = "ack"
    /\ timer[m] = "queue" => entryPhase[m] = "queued"
    /\ timer[m] = "inactivity" => entryPhase[m] = "processing"
    /\ timer[m] = "recovery" => entryPhase[m] = "recovering"
    /\ awaiting[m] = "typing" => entryPhase[m] = "processing"
    /\ awaiting[m] = "recover" => entryPhase[m] = "recovering"

WatchInv ==
  /\ \A m \in inMap : m \notin settled /\ post[m] \in {"writing", "sent"}
  /\ \A m \in Posts :
       /\ post[m] = "sent" => m \notin settled
       /\ post[m] \in {"writing", "sent"} /\ m \notin settled => timer[m] # "none" \/ awaiting[m] # "none"

\* As long as no await has ended too late: a timer belongs to the entry in the map, a
\* request that is being written or waits is settled or in the map, and so is an entry
\* with an await.
Orderly ==
  /\ loose = {}
  /\ \A m \in Posts :
       /\ timer[m] # "none" => m \in inMap
       /\ awaiting[m] # "none" => m \in settled \cup inMap
       /\ post[m] \in {"writing", "sent"} => m \in settled \cup inMap
       /\ m \in typed => m \in inMap

DiscordInv == PostTypes /\ ChainInv /\ PhaseInv /\ WatchInv /\ (overtaken \/ Orderly)
LEMMA DiscordStart == DiscordInit => DiscordInv
<1> SUFFICES ASSUME DiscordInit
             PROVE  DiscordInv
  OBVIOUS
<1>1. /\ post = [m \in Posts |-> "new"] /\ chain = <<>> /\ inMap = {} /\ loose = {} /\ typed = {} /\ settled = {}
      /\ entryPhase = [m \in Posts |-> "none"] /\ timer = [m \in Posts |-> "none"]
      /\ awaiting = [m \in Posts |-> "none"] /\ overtaken = FALSE
  BY DEF DiscordInit, Each
<1>2. PostTypes
  <2>1. chain \in Seq(Posts)
    BY <1>1
  <2>2. overtaken \in BOOLEAN
    BY <1>1
  <2>3. post \in [Posts -> InProgress \cup {"new", "over", "lost"}]
    BY <1>1
  <2>4. /\ entryPhase \in [Posts -> {"none", "ack", "queued", "processing", "recovering"}]
        /\ timer \in [Posts -> {"none", "ack", "queue", "inactivity", "recovery"}]
        /\ awaiting \in [Posts -> {"none", "typing", "recover"}]
    BY <1>1
  <2>5. inMap \cup loose \cup typed \cup settled \subseteq Posts
    BY <1>1
  <2>6. QED
    BY <2>1, <2>2, <2>3, <2>4, <2>5 DEF PostTypes
<1>3. ChainInv
  BY <1>1 DEF ChainInv, InProgress
<1>4. PhaseInv
  BY <1>1 DEF PhaseInv
<1>5. WatchInv /\ Orderly
  BY <1>1 DEF WatchInv, Orderly
<1>6. QED
  BY <1>2, <1>3, <1>4, <1>5 DEF DiscordInv

\* The queue of the conversation after its first message has been done with.
LEMMA ChainLeft ==
  ASSUME PostTypes, ChainInv, NEW m \in Posts, post[m] \in InProgress \ {"chained"},
         chain' = Tail(chain), post' = [post EXCEPT ![m] = "over"]
  PROVE  ChainInv' /\ chain' \in Seq(Posts)
<1>1. /\ chain \in Seq(Posts) /\ chain # <<>> /\ chain[1] = m /\ Len(chain) \in Nat
      /\ 1 \in 1..Len(chain)
  BY HeadOf DEF PostTypes, ChainInv, AtHead
<1>2. /\ chain' \in Seq(Posts) /\ Len(chain') = Len(chain) - 1
      /\ \A i \in 1..Len(chain') : chain'[i] = chain[i + 1]
  BY <1>1, TailOf
<1>3. ASSUME NEW i \in 1..Len(chain')
      PROVE  /\ post'[chain'[i]] \in InProgress
             /\ \A j \in 1..Len(chain') : chain'[j] = chain'[i] => j = i
  <2>1. /\ i + 1 \in 1..Len(chain) /\ i + 1 # 1 /\ chain'[i] = chain[i + 1]
        /\ \A j \in 1..Len(chain') : /\ j + 1 \in 1..Len(chain) /\ chain'[j] = chain[j + 1]
                                     /\ j + 1 = i + 1 => j = i
    BY <1>1, <1>2
  <2>2. chain'[i] # m /\ chain'[i] \in Posts /\ post[chain'[i]] \in InProgress
    BY <1>1, <1>2, <2>1 DEF ChainInv
  <2>3. post'[chain'[i]] \in InProgress
    BY <2>2 DEF PostTypes
  <2>4. \A j \in 1..Len(chain') : chain'[j] = chain'[i] => j = i
    BY <2>1 DEF ChainInv
  <2>5. QED
    BY <2>3, <2>4
<1>4. \A x \in Posts : post'[x] \notin InProgress \ {"chained"}
  BY DEF PostTypes, ChainInv, AtHead, InProgress
<1>5. QED
  BY <1>2, <1>3, <1>4 DEF ChainInv

\* The queue stays, and so do its messages.
LEMMA ChainKept ==
  ASSUME PostTypes, ChainInv, chain' = chain,
         \A x \in Posts : \/ post'[x] = post[x]
                          \/ /\ post[x] \in InProgress /\ post'[x] \in InProgress
                             /\ AtHead(x)
  PROVE  ChainInv'
<1>1. \A i \in 1..Len(chain) : chain[i] \in Posts
  BY DEF PostTypes
<1>2. QED
  BY <1>1 DEF ChainInv, AtHead

\* Steps that touch neither the entries nor the queue.
LEMMA DiscordSame ==
  ASSUME DiscordInv, UNCHANGED <<entryVars, postVars>>
  PROVE  DiscordInv'
  BY DEF DiscordInv, entryVars, postVars, PostTypes, ChainInv, AtHead, PhaseInv, WatchInv, Orderly

\* The process ends.
LEMMA DieNowStep ==
  ASSUME DiscordInv, DieNow
  PROVE  DiscordInv'
<1>1. /\ post' = [m \in Posts |-> IF post[m] \in InProgress THEN "lost" ELSE post[m]]
      /\ chain' = <<>> /\ inMap' = {} /\ timer' = [m \in Posts |-> "none"] /\ loose' = {}
      /\ entryPhase' = [m \in Posts |-> "none"] /\ awaiting' = [m \in Posts |-> "none"] /\ typed' = {}
      /\ settled' = {m \in Posts : post[m] \notin {"new", "chained"}} /\ overtaken' = overtaken
  BY DEF DieNow, Each
<1>2. PostTypes' /\ \A m \in Posts : post'[m] \notin InProgress
  BY <1>1 DEF DiscordInv, PostTypes, InProgress
<1>3. ChainInv'
  BY <1>1, <1>2 DEF ChainInv
<1>4. \A m \in Posts : post'[m] \in {"new", "chained"} => post[m] = "new"
  BY <1>1 DEF InProgress
<1>5. PhaseInv'
  BY <1>1, <1>4 DEF PhaseInv
<1>6. WatchInv' /\ Orderly'
  BY <1>1, <1>2 DEF WatchInv, Orderly, InProgress
<1>7. QED
  BY <1>2, <1>3, <1>5, <1>6 DEF DiscordInv

\* A waiting request is rejected.
LEMMA RejectStep ==
  ASSUME DiscordInv, NEW m \in Posts, post[m] = "sent", RejectEntry(m)
  PROVE  DiscordInv'
<1>1. /\ timer' = [timer EXCEPT ![m] = "none"] /\ typed' = typed \ {m} /\ inMap' = {}
      /\ settled' = settled \cup {m} /\ post' = [post EXCEPT ![m] = "over"] /\ chain' = Tail(chain)
      /\ UNCHANGED <<entryPhase, loose, awaiting, overtaken>>
  BY DEF RejectEntry, ClearAll
<1>2. ChainInv' /\ chain' \in Seq(Posts)
  BY <1>1, ChainLeft DEF DiscordInv, InProgress
<1>3. PostTypes'
  BY <1>1, <1>2 DEF DiscordInv, PostTypes, InProgress
<1>4. PhaseInv'
  BY <1>1 DEF DiscordInv, PostTypes, PhaseInv
<1>5. \A x \in Posts : x # m => post[x] \notin {"writing", "sent"}
  BY DEF DiscordInv, ChainInv, AtHead, InProgress
<1>6. WatchInv'
  BY <1>1, <1>5 DEF DiscordInv, PostTypes, WatchInv
<1>7. Orderly => Orderly'
  <2>1. inMap \subseteq {m}
    BY <1>5 DEF DiscordInv, WatchInv, PostTypes
  <2>2. QED
    BY <1>1, <1>5, <2>1 DEF DiscordInv, PostTypes, Orderly
<1>8. QED
  BY <1>1, <1>2, <1>3, <1>4, <1>6, <1>7 DEF DiscordInv

\* A request is answered, perhaps before it is awaited.
LEMMA ResolveStep ==
  ASSUME DiscordInv, NEW m \in inMap, ResolveEntry(m)
  PROVE  DiscordInv'
<1>1. /\ timer' = [timer EXCEPT ![m] = "none"] /\ typed' = typed \ {m} /\ inMap' = {}
      /\ settled' = settled \cup {m} /\ chain' = chain
      /\ post' = [post EXCEPT ![m] = IF @ = "sent" THEN "answered" ELSE @]
      /\ UNCHANGED <<entryPhase, loose, awaiting, overtaken>>
  BY DEF ResolveEntry, ClearAll
<1>2. m \in Posts /\ post[m] \in {"writing", "sent"}
  BY DEF DiscordInv, PostTypes, WatchInv
<1>3. AtHead(m)
  BY <1>2 DEF DiscordInv, ChainInv, InProgress
<1>4. ChainInv'
  BY <1>1, <1>2, <1>3, ChainKept DEF DiscordInv, PostTypes, InProgress
<1>5. PostTypes'
  BY <1>1, <1>2 DEF DiscordInv, PostTypes, InProgress
<1>6. PhaseInv'
  BY <1>1, <1>2 DEF DiscordInv, PostTypes, PhaseInv
<1>7. \A x \in Posts : x # m => post[x] \notin {"writing", "sent"}
  BY <1>2 DEF DiscordInv, ChainInv, AtHead, InProgress
<1>8. WatchInv'
  BY <1>1, <1>2, <1>7 DEF DiscordInv, PostTypes, WatchInv
<1>9. Orderly => Orderly'
  <2>1. inMap \subseteq {m}
    BY <1>7 DEF DiscordInv, WatchInv, PostTypes
  <2>2. QED
    BY <1>1, <1>2, <1>7, <2>1 DEF DiscordInv, PostTypes, Orderly
<1>10. QED
  BY <1>1, <1>4, <1>5, <1>6, <1>8, <1>9 DEF DiscordInv

\* The task of a message that is no longer waiting ends.
LEMMA DoneStep ==
  ASSUME DiscordInv, NEW m \in Posts, Done(m),
         \/ post[m] = "writing" /\ m \notin inMap /\ settled' = settled
         \/ post[m] = "answered" /\ settled' = settled
         \/ post[m] = "apologising" /\ settled' = settled \cup {m},
         UNCHANGED <<inMap, entryPhase, timer, loose, awaiting, typed, overtaken>>
  PROVE  DiscordInv'
<1>1. /\ post' = [post EXCEPT ![m] = "over"] /\ chain' = Tail(chain)
      /\ post[m] \in {"writing", "answered", "apologising"}
  BY DEF Done
<1>2. ChainInv' /\ chain' \in Seq(Posts)
  BY <1>1, ChainLeft DEF DiscordInv, InProgress
<1>3. PostTypes'
  BY <1>1, <1>2 DEF DiscordInv, PostTypes, InProgress
<1>4. PhaseInv'
  BY <1>1 DEF DiscordInv, PostTypes, PhaseInv
<1>5. \A x \in Posts : x # m => post[x] \notin {"writing", "sent"}
  BY <1>1 DEF DiscordInv, ChainInv, AtHead, InProgress
<1>6. inMap = {}
  BY <1>1, <1>5 DEF DiscordInv, WatchInv, PostTypes
<1>7. WatchInv'
  BY <1>1, <1>5, <1>6 DEF DiscordInv, PostTypes, WatchInv
<1>8. Orderly => Orderly'
  BY <1>1, <1>5, <1>6 DEF DiscordInv, PostTypes, Orderly
<1>9. QED
  BY <1>1, <1>2, <1>3, <1>4, <1>7, <1>8 DEF DiscordInv

\* A timer empties the map. If the request is not settled, it is given up.
LEMMA GiveUpStep ==
  ASSUME DiscordInv, NEW m \in Posts, NEW left, awaiting[m] = "none",
         \/ timer[m] # "none" /\ left = loose
         \/ m \in loose /\ left = loose \ {m},
         GiveUpOn(m, left), ~DieNow
  PROVE  DiscordInv'
<1>1. /\ post[m] # "writing"
      /\ timer' = [timer EXCEPT ![m] = "none"] /\ typed' = typed \ {m} /\ inMap' = {}
      /\ post' = [post EXCEPT ![m] = IF @ = "sent" THEN "apologising" ELSE @]
      /\ loose' = left /\ UNCHANGED <<chain, entryPhase, awaiting, settled, overtaken>>
  BY DEF GiveUpOn, ClearAll
<1>2. PostTypes'
  BY <1>1 DEF DiscordInv, PostTypes, InProgress
<1>3. post[m] = "sent" => AtHead(m)
  BY DEF DiscordInv, ChainInv, InProgress
<1>4. ChainInv'
  BY <1>1, <1>3, ChainKept DEF DiscordInv, PostTypes, InProgress
<1>5. PhaseInv'
  BY <1>1 DEF DiscordInv, PostTypes, PhaseInv
<1>6. WatchInv'
  BY <1>1 DEF DiscordInv, PostTypes, WatchInv
<1>7. Orderly => Orderly'
  <2>1. SUFFICES ASSUME Orderly
                 PROVE  Orderly'
    OBVIOUS
  <2>2. m \in inMap /\ post[m] = "sent" /\ left = {}
    BY <1>1, <2>1 DEF DiscordInv, WatchInv, Orderly
  <2>3. \A x \in Posts : x # m => post[x] \notin {"writing", "sent"} /\ x \notin inMap
    BY <2>2 DEF DiscordInv, ChainInv, WatchInv, AtHead, InProgress
  <2>4. \A x \in Posts : x # m => timer'[x] = timer[x] /\ post'[x] = post[x]
    BY <1>1 DEF DiscordInv, PostTypes
  <2>5. timer'[m] = "none" /\ post'[m] = "apologising"
    BY <1>1, <2>2 DEF DiscordInv, PostTypes
  <2>6. QED
    BY <1>1, <2>1, <2>2, <2>3, <2>4, <2>5 DEF Orderly
<1>8. QED
  BY <1>1, <1>2, <1>4, <1>5, <1>6, <1>7 DEF DiscordInv

\* A message joins the queue of the conversation.
LEMMA ReceiveStep ==
  ASSUME DiscordInv, NEW m \in Posts, ReceivePost(m)
  PROVE  DiscordInv'
<1>1. /\ post[m] = "new" /\ post' = [post EXCEPT ![m] = "chained"] /\ chain' = Append(chain, m)
      /\ UNCHANGED <<inMap, entryPhase, timer, loose, awaiting, typed, settled, overtaken>>
  BY DEF ReceivePost, entryVars
<1>2. chain \in Seq(Posts) /\ Len(chain) \in Nat /\ post'[m] = "chained"
  BY <1>1 DEF DiscordInv, PostTypes
<1>3. /\ chain' \in Seq(Posts) /\ Len(chain') = Len(chain) + 1 /\ chain'[Len(chain) + 1] = m
      /\ \A i \in 1..Len(chain) : chain'[i] = chain[i]
      /\ chain' # <<>> /\ Head(chain') = IF chain = <<>> THEN m ELSE Head(chain)
  BY <1>1, <1>2, AppendTo
<1>4. PostTypes'
  BY <1>1, <1>3 DEF DiscordInv, PostTypes, InProgress
<1>5. \A i \in 1..Len(chain) : /\ chain[i] # m /\ chain[i] \in Posts /\ post[chain[i]] \in InProgress
                               /\ \A j \in 1..Len(chain) : chain[j] = chain[i] => j = i
  BY <1>1, <1>2 DEF DiscordInv, ChainInv, InProgress
<1>6. ASSUME NEW i \in 1..Len(chain')
      PROVE  /\ post'[chain'[i]] \in InProgress
             /\ \A j \in 1..Len(chain') : chain'[j] = chain'[i] => j = i
  <2>1. \A j \in 1..Len(chain') : j \in 1..Len(chain) \/ j = Len(chain) + 1
    BY <1>2, <1>3
  <2>2. post'[chain'[i]] \in InProgress
    BY <1>1, <1>2, <1>3, <1>5, <2>1 DEF InProgress, DiscordInv, PostTypes
  <2>3. \A j \in 1..Len(chain') : chain'[j] = chain'[i] => j = i
    BY <1>3, <1>5, <2>1
  <2>4. QED
    BY <2>2, <2>3
<1>7. \A x \in Posts : post'[x] \in InProgress \ {"chained"} => AtHead(x)'
  BY <1>1, <1>2, <1>3 DEF DiscordInv, PostTypes, ChainInv, AtHead
<1>8. ChainInv'
  BY <1>6, <1>7 DEF ChainInv
<1>9. PhaseInv'
  BY <1>1 DEF DiscordInv, PostTypes, PhaseInv
<1>10. WatchInv' /\ (Orderly => Orderly')
  BY <1>1 DEF DiscordInv, PostTypes, WatchInv, Orderly
<1>11. QED
  BY <1>1, <1>4, <1>8, <1>9, <1>10 DEF DiscordInv

\* The first message of the queue gets its entry.
LEMMA RegisterStep ==
  ASSUME DiscordInv, NEW m \in Posts, RegisterEntry(m)
  PROVE  DiscordInv'
<1>1. /\ post[m] = "chained" /\ AtHead(m) /\ chain' = chain /\ post' = [post EXCEPT ![m] = "writing"]
      /\ inMap' = {m} /\ entryPhase' = [entryPhase EXCEPT ![m] = "ack"] /\ timer' = [timer EXCEPT ![m] = "ack"]
      /\ UNCHANGED <<loose, awaiting, typed, settled, overtaken>>
  BY DEF RegisterEntry
<1>2. /\ awaiting[m] = "none" /\ m \notin inMap \cup loose \cup typed \cup settled
  BY <1>1 DEF DiscordInv, PhaseInv
<1>3. PostTypes'
  BY <1>1 DEF DiscordInv, PostTypes, InProgress
<1>4. ChainInv'
  BY <1>1, ChainKept DEF DiscordInv, PostTypes, InProgress
<1>5. PhaseInv'
  BY <1>1, <1>2 DEF DiscordInv, PostTypes, PhaseInv
<1>6. \A x \in Posts : post[x] \notin {"writing", "sent"}
  BY <1>1 DEF DiscordInv, ChainInv, AtHead, InProgress
<1>7. inMap = {}
  BY <1>6 DEF DiscordInv, WatchInv, PostTypes
<1>8. /\ \A x \in Posts : x # m => post'[x] = post[x] /\ timer'[x] = timer[x]
      /\ post'[m] = "writing" /\ timer'[m] = "ack"
  BY <1>1 DEF DiscordInv, PostTypes
<1>9. WatchInv'
  BY <1>1, <1>2, <1>6, <1>8 DEF WatchInv
<1>10. Orderly => Orderly'
  BY <1>1, <1>2, <1>6, <1>7, <1>8 DEF Orderly
<1>11. QED
  BY <1>1, <1>3, <1>4, <1>5, <1>9, <1>10 DEF DiscordInv

LEMMA WriteStep ==
  ASSUME DiscordInv, NEW m \in Posts, WritePost(m)
  PROVE  DiscordInv'
<1>1. /\ post[m] = "writing" /\ chain' = chain
      /\ post' = [post EXCEPT ![m] = IF m \in settled THEN "answered" ELSE "sent"]
      /\ UNCHANGED <<inMap, entryPhase, timer, loose, awaiting, typed, settled, overtaken>>
  BY DEF WritePost, entryVars
<1>2. AtHead(m)
  BY <1>1 DEF DiscordInv, ChainInv, InProgress
<1>3. PostTypes' /\ PhaseInv'
  BY <1>1 DEF DiscordInv, PostTypes, PhaseInv, InProgress
<1>4. ChainInv'
  BY <1>1, <1>2, ChainKept DEF DiscordInv, PostTypes, InProgress
<1>5. WatchInv' /\ (Orderly => Orderly')
  BY <1>1 DEF DiscordInv, PostTypes, WatchInv, Orderly
<1>6. QED
  BY <1>1, <1>3, <1>4, <1>5 DEF DiscordInv

\* An entry goes to another phase, or its timer is armed anew, while its request goes on;
\* or an await has ended too late.
LEMMA EntryStep ==
  ASSUME DiscordInv, NEW m \in Posts, post[m] \notin {"new", "chained"},
         NEW p \in {"none", "ack", "queued", "processing", "recovering"},
         NEW t \in {"none", "ack", "queue", "inactivity", "recovery"},
         NEW a \in {"none", "typing", "recover"},
         entryPhase' = [entryPhase EXCEPT ![m] = p], timer' = [timer EXCEPT ![m] = t],
         awaiting' = [awaiting EXCEPT ![m] = a], t # "none" \/ a # "none",
         t = "ack" => p = "ack", t = "queue" => p = "queued",
         t = "inactivity" \/ a = "typing" => p = "processing",
         t = "recovery" \/ a = "recover" => p = "recovering",
         typed \subseteq typed', typed' \subseteq typed \cup {m}, loose' \in {loose, loose \cup {m}},
         overtaken' \in BOOLEAN, overtaken' \/ (~overtaken /\ loose' = loose /\ m \in inMap),
         UNCHANGED <<post, chain, inMap, settled>>
  PROVE  DiscordInv'
<1>1. /\ entryPhase'[m] = p /\ timer'[m] = t /\ awaiting'[m] = a
      /\ \A x \in Posts : x # m => /\ entryPhase'[x] = entryPhase[x] /\ timer'[x] = timer[x]
                                   /\ awaiting'[x] = awaiting[x]
  BY DEF DiscordInv, PostTypes
<1>2. PostTypes'
  BY DEF DiscordInv, PostTypes
<1>3. ChainInv'
  BY DEF DiscordInv, ChainInv, AtHead
<1>4. PhaseInv'
  BY <1>1 DEF DiscordInv, PhaseInv
<1>5. WatchInv'
  BY <1>1 DEF DiscordInv, WatchInv
<1>6. overtaken' \/ Orderly'
  BY <1>1 DEF DiscordInv, Orderly
<1>7. QED
  BY <1>2, <1>3, <1>4, <1>5, <1>6 DEF DiscordInv

\* A process that dies, a socket that closes, an answer to a query.
LEMMA SocketStep ==
  ASSUME DiscordInv, RestartBridge \/ NoConfig \/ OpenSocket \/ CloseSocket \/ ReconnectBridge \/ QueryAnswered
  PROVE  DiscordInv'
<1>1. CASE RestartBridge \/ OpenSocket \/ ReconnectBridge
  BY <1>1, DiscordSame DEF RestartBridge, OpenSocket, ReconnectBridge
<1>2. CASE DieNow
  BY <1>2, DieNowStep
<1>3. ASSUME RejectPending, ~Unawaited
      PROVE  DiscordInv'
  <2>1. CASE inMap = {}
    BY <1>3, <2>1, DiscordSame DEF RejectPending
  <2>2. CASE inMap # {}
    <3>1. PICK m \in inMap : RejectEntry(m)
      BY <1>3, <2>2 DEF RejectPending
    <3>2. m \in Posts /\ post[m] = "sent"
      BY <1>3 DEF DiscordInv, PostTypes, WatchInv, Unawaited
    <3>3. QED
      BY <3>1, <3>2, RejectStep
  <2>3. QED
    BY <2>1, <2>2
<1>4. CASE CloseSocket
  BY <1>2, <1>3, <1>4 DEF CloseSocket
<1>5. CASE QueryAnswered
  <2>1. \/ DieNow \/ (~Unawaited /\ RejectPending)
        \/ UNCHANGED <<entryVars, postVars>> \/ \E e \in inMap : ResolveEntry(e)
    BY <1>5 DEF QueryAnswered
  <2>2. QED
    BY <1>2, <1>3, <2>1, DiscordSame, ResolveStep
<1>6. QED
  BY <1>1, <1>2, <1>4, <1>5 DEF NoConfig

\* An event of the server reaches the entry in the map.
LEMMA EventStep ==
  ASSUME DiscordInv, NEW m \in Posts,
         QueuedArrives(m) \/ ProcessingArrives(m) \/ StatusArrives(m) \/ ResponseArrives(m) \/ DropPost(m)
  PROVE  DiscordInv'
<1>1. \/ UNCHANGED <<entryVars, postVars>>
      \/ \E e \in inMap : OnQueued(e) \/ OnProcessing(e) \/ ResetInactivity(e) \/ ResolveEntry(e)
  BY DEF QueuedArrives, ProcessingArrives, StatusArrives, ResponseArrives, DropPost
<1>2. CASE UNCHANGED <<entryVars, postVars>>
  BY <1>2, DiscordSame
<1>3. ASSUME NEW e \in inMap, OnQueued(e) \/ OnProcessing(e) \/ ResetInactivity(e) \/ ResolveEntry(e)
      PROVE  DiscordInv'
  <2>1. /\ e \in Posts /\ post[e] \notin {"new", "chained"} /\ overtaken \in BOOLEAN
        /\ e \notin settled /\ (timer[e] # "none" \/ awaiting[e] # "none")
        /\ OnQueued(e) \/ OnProcessing(e) \/ ResetInactivity(e)
           => /\ loose' \in {loose, loose \cup {e}} /\ typed \subseteq typed' /\ typed' \subseteq typed \cup {e}
              /\ UNCHANGED <<post, chain, inMap, settled>>
    BY DEF DiscordInv, PostTypes, WatchInv, OnQueued, OnProcessing, ResetInactivity, postVars
  <2>2. CASE ResolveEntry(e)
    BY <2>2, ResolveStep
  <2>3. CASE OnQueued(e) /\ entryPhase[e] = "ack"
    <3>1. awaiting[e] = "none"
      BY <2>1, <2>3 DEF DiscordInv, PostTypes, PhaseInv
    <3>2. /\ entryPhase' = [entryPhase EXCEPT ![e] = "queued"] /\ timer' = [timer EXCEPT ![e] = "queue"]
          /\ awaiting' = [awaiting EXCEPT ![e] = "none"]
      BY <2>1, <2>3, <3>1 DEF OnQueued, DiscordInv, PostTypes
    <3>3. overtaken' \in BOOLEAN /\ (overtaken' \/ (~overtaken /\ loose' = loose /\ e \in inMap))
      BY <2>1, <2>3 DEF OnQueued
    <3>4. QED
      BY <2>1, <2>3, <3>2, <3>3, EntryStep
  <2>4. CASE OnProcessing(e) /\ entryPhase[e] = "queued"
    <3>1. /\ entryPhase' = [entryPhase EXCEPT ![e] = "processing"] /\ timer' = [timer EXCEPT ![e] = "none"]
          /\ awaiting' = [awaiting EXCEPT ![e] = "typing"]
      BY <2>4 DEF OnProcessing
    <3>2. overtaken' \in BOOLEAN /\ (overtaken' \/ (~overtaken /\ loose' = loose /\ e \in inMap))
      BY <2>1, <2>4 DEF OnProcessing
    <3>3. QED
      BY <2>1, <2>4, <3>1, <3>2, EntryStep
  <2>5. CASE ResetInactivity(e) /\ entryPhase[e] \in {"processing", "recovering"}
    <3>1. PICK t \in {"inactivity", "recovery"} :
             /\ timer' = [timer EXCEPT ![e] = t]
             /\ t = "inactivity" => entryPhase[e] = "processing"
             /\ t = "recovery" => entryPhase[e] = "recovering"
      BY <2>5 DEF ResetInactivity
    <3>2. /\ entryPhase' = [entryPhase EXCEPT ![e] = entryPhase[e]]
          /\ awaiting' = [awaiting EXCEPT ![e] = awaiting[e]]
      BY <2>1, <2>5 DEF ResetInactivity, DiscordInv, PostTypes
    <3>3. /\ entryPhase[e] \in {"none", "ack", "queued", "processing", "recovering"}
          /\ awaiting[e] \in {"none", "typing", "recover"}
          /\ awaiting[e] = "typing" => entryPhase[e] = "processing"
          /\ awaiting[e] = "recover" => entryPhase[e] = "recovering"
      BY <2>1 DEF DiscordInv, PostTypes, PhaseInv
    <3>4. overtaken' \in BOOLEAN /\ (overtaken' \/ (~overtaken /\ loose' = loose /\ e \in inMap))
      BY <2>1, <2>5 DEF ResetInactivity
    <3>5. QED
      BY <2>1, <2>5, <3>1, <3>2, <3>3, <3>4, EntryStep
  <2>6. CASE \/ OnQueued(e) /\ entryPhase[e] # "ack"
             \/ OnProcessing(e) /\ entryPhase[e] # "queued"
             \/ ResetInactivity(e) /\ entryPhase[e] \notin {"processing", "recovering"}
    BY <2>6, DiscordSame DEF OnQueued, OnProcessing, ResetInactivity, entryVars, postVars
  <2>7. QED
    BY <1>3, <2>2, <2>3, <2>4, <2>5, <2>6
<1>4. QED
  BY <1>1, <1>2, <1>3

\* What time and Discord bring about.
LEMMA PostStepKeeps ==
  ASSUME DiscordInv, NEW m \in Posts, PostStep(m)
  PROVE  DiscordInv'
<1>0. m \in Posts /\ overtaken \in BOOLEAN /\ entryPhase \in [Posts -> {"none", "ack", "queued", "processing", "recovering"}]
  BY DEF DiscordInv, PostTypes
<1>1. CASE DieNow
  BY <1>1, DieNowStep
<1>2. CASE RegisterEntry(m) \/ WritePost(m)
  BY <1>2, RegisterStep, WriteStep
<1>3. CASE PostNotWritten(m)
  BY <1>1, <1>3, DoneStep DEF PostNotWritten, entryVars
<1>4. CASE SendReply(m) \/ Apologised(m)
  BY <1>4, DoneStep DEF SendReply, Apologised, entryVars
<1>5. CASE AckTimeout(m)
  BY <1>1, <1>5, RejectStep DEF AckTimeout
<1>6. CASE QueueTimeout(m)
  <2>1. awaiting[m] = "none"
    BY <1>6 DEF QueueTimeout, DiscordInv, PostTypes, PhaseInv
  <2>2. QED
    BY <1>1, <1>6, <2>1, GiveUpStep DEF QueueTimeout
<1>7. CASE RecoveryTimeout(m)
  BY <1>1, <1>7, GiveUpStep DEF RecoveryTimeout
<1>8. CASE SilenceTimeout(m)
  <2>1. CASE overtaken
    <3>1. post[m] \notin {"new", "chained"}
      BY <1>8 DEF SilenceTimeout, DiscordInv, PhaseInv
    <3>2. QED
      BY <1>0, <1>8, <2>1, <3>1, EntryStep DEF SilenceTimeout, postVars
  <2>2. CASE ~overtaken
    <3>1. m \in inMap /\ post[m] \notin {"new", "chained"}
      BY <1>8, <2>2 DEF SilenceTimeout, DiscordInv, PhaseInv, Orderly
    <3>2. QED
      BY <1>0, <1>8, <2>2, <3>1, EntryStep DEF SilenceTimeout, postVars
  <2>3. QED
    BY <2>1, <2>2
<1>9. CASE RecoverAsked(m)
  <2>1. /\ post[m] \notin {"new", "chained"} /\ entryPhase[m] = "recovering"
        /\ ~overtaken => m \in settled \cup inMap
    BY <1>9 DEF RecoverAsked, DiscordInv, PhaseInv, Orderly
  <2>2. /\ entryPhase' = [entryPhase EXCEPT ![m] = "recovering"] /\ timer' = [timer EXCEPT ![m] = "recovery"]
        /\ awaiting' = [awaiting EXCEPT ![m] = "none"]
        /\ UNCHANGED <<post, chain, inMap, settled, typed>>
    BY <1>0, <1>9, <2>1 DEF RecoverAsked, postVars
  <2>3. /\ loose' \in {loose, loose \cup {m}} /\ overtaken' \in BOOLEAN
        /\ overtaken' \/ (~overtaken /\ loose' = loose /\ m \in inMap)
    BY <1>0, <1>9, <2>1 DEF RecoverAsked
  <2>4. QED
    BY <2>1, <2>2, <2>3, EntryStep
<1>10. CASE TypingStarted(m)
  <2>1. /\ post[m] \notin {"new", "chained"} /\ entryPhase[m] = "processing"
        /\ ~overtaken => m \in settled \cup inMap
    BY <1>10 DEF TypingStarted, DiscordInv, PhaseInv, Orderly
  <2>2. /\ entryPhase' = [entryPhase EXCEPT ![m] = "processing"] /\ timer' = [timer EXCEPT ![m] = "inactivity"]
        /\ awaiting' = [awaiting EXCEPT ![m] = "none"] /\ typed' = typed \cup {m}
        /\ UNCHANGED <<post, chain, inMap, settled, loose>>
    BY <1>0, <1>10, <2>1 DEF TypingStarted, postVars
  <2>3. overtaken' \in BOOLEAN /\ (overtaken' \/ (~overtaken /\ m \in inMap))
    BY <1>0, <1>10, <2>1 DEF TypingStarted
  <2>4. QED
    BY <2>1, <2>2, <2>3, EntryStep
<1>11. QED
  BY <1>2, <1>3, <1>4, <1>5, <1>6, <1>7, <1>8, <1>9, <1>10 DEF PostStep

LEMMA DiscordKept ==
  ASSUME DiscordInv, [DiscordNext]_discordVars
  PROVE  DiscordInv'
<1>1. CASE UNCHANGED discordVars
  BY <1>1, DiscordSame DEF discordVars
<1>2. ASSUME NEW m \in Posts,
             \/ ReceivePost(m) \/ PostStep(m) \/ QueuedArrives(m) \/ ProcessingArrives(m)
             \/ StatusArrives(m) \/ ResponseArrives(m) \/ DropPost(m)
      PROVE  DiscordInv'
  BY <1>2, ReceiveStep, PostStepKeeps, EventStep
<1>3. CASE RestartBridge \/ NoConfig \/ OpenSocket \/ CloseSocket \/ ReconnectBridge \/ QueryAnswered
  BY <1>3, SocketStep
<1>4. QED
  BY <1>1, <1>2, <1>3 DEF DiscordNext

LEMMA DiscordOrder == DiscordSpec => []DiscordInv
<1>1. DiscordInv /\ [DiscordNext]_discordVars => DiscordInv'
  BY DiscordKept
<1>2. QED
  BY DiscordStart, <1>1, PTL DEF DiscordSpec

LEMMA DiscordWatched == DiscordInv => EntryIsWatched
<1> SUFFICES ASSUME DiscordInv
             PROVE  EntryIsWatched
  OBVIOUS
<1>1. \A m \in inMap : AtHead(m) /\ m \notin settled /\ post[m] \in {"writing", "sent"}
  BY DEF DiscordInv, PostTypes, ChainInv, WatchInv, InProgress
<1>2. \A m \in Posts : post[m] = "sent" => m \notin settled /\ (timer[m] # "none" \/ awaiting[m] # "none")
  BY DEF DiscordInv, WatchInv
<1>3. \A m \in Posts :
        (post[m] = "sent" /\ m \notin inMap) \/ (m \in settled /\ (timer[m] # "none" \/ m \in typed)) => overtaken
  BY DEF DiscordInv, WatchInv, Orderly
<1>4. QED
  BY <1>1, <1>2, <1>3 DEF EntryIsWatched

\* A request of the Discord bridge that waits has a timer that will end it, or an await
\* that will arm one; the map holds the entry of the current message; and a request is
\* missing from it, or leaves a timer behind, only if an await in an entry ended too
\* late: for any number of messages and any order of timers, awaits, events and closings.
THEOREM EntriesAreWatched == DiscordSpec => []EntryIsWatched
<1>1. DiscordInv => EntryIsWatched
  BY DiscordWatched
<1>2. QED
  BY <1>1, DiscordOrder, PTL

-----------------------------------------------------------------------------
(* The types of the Discord bridge. *)

\* The types of what its entries do not depend on; an event of the server can only come
\* after a message has been written.
DiscordRest ==
  /\ bridgeUp \in BOOLEAN /\ clientReady \in BOOLEAN /\ query \in BOOLEAN
  /\ wire \in {"closed", "connecting", "open"} /\ cuts \in 0..MaxCuts
  /\ rerun \subseteq Posts /\ lastPut \in Posts \cup {NoPost}
  /\ work \in [Posts -> {"none", "acking", "waiting", "running", "resending"}]
  /\ lastPut = NoPost => \A m \in Posts : work[m] = "none" /\ entryPhase[m] \in {"none", "ack"}

\* No message in progress is missing from the queue.
ChainIsFull == \A m \in Posts : post[m] \in InProgress => \E i \in 1..Len(chain) : chain[i] = m

LEMMA DiscordRestStart == DiscordInit => DiscordRest /\ ChainIsFull
<1>. SUFFICES ASSUME DiscordInit
              PROVE  DiscordRest /\ ChainIsFull
  OBVIOUS
<1>1. /\ bridgeUp = TRUE /\ clientReady = FALSE /\ wire = "connecting" /\ cuts = 0 /\ query = FALSE
      /\ post = [m \in Posts |-> "new"] /\ entryPhase = [m \in Posts |-> "none"]
      /\ work = [m \in Posts |-> "none"] /\ rerun = {} /\ lastPut = NoPost
  BY DEF DiscordInit, Each
<1>2. DiscordRest
  <2>1. cuts \in 0..MaxCuts /\ wire \in {"closed", "connecting", "open"}
    BY <1>1, PostAssumption
  <2>2. bridgeUp \in BOOLEAN /\ clientReady \in BOOLEAN /\ query \in BOOLEAN
    BY <1>1
  <2>3. /\ rerun \subseteq Posts /\ lastPut \in Posts \cup {NoPost}
        /\ work \in [Posts -> {"none", "acking", "waiting", "running", "resending"}]
        /\ \A m \in Posts : work[m] = "none" /\ entryPhase[m] \in {"none", "ack"}
    BY <1>1
  <2>4. QED
    BY <2>1, <2>2, <2>3 DEF DiscordRest
<1>3. QED
  BY <1>1, <1>2 DEF ChainIsFull, InProgress

\* How a step changes the queue.
ChainStays == chain' = chain /\ \A m \in Posts : post'[m] \in InProgress => post[m] \in InProgress
ChainEmptied == \A m \in Posts : post'[m] \notin InProgress
ChainShortened == \E m \in Posts : AtHead(m) /\ Done(m)
ChainExtended == \E m \in Posts : post' = [post EXCEPT ![m] = "chained"] /\ chain' = Append(chain, m)

LEMMA DieNowEmpties ==
  ASSUME DieNow
  PROVE  ChainEmptied
  BY DEF DieNow, ChainEmptied, InProgress

LEMMA RejectShortens ==
  ASSUME DiscordInv, NEW m \in Posts, post[m] = "sent", RejectEntry(m)
  PROVE  ChainShortened
<1>1. AtHead(m)
  BY DEF DiscordInv, ChainInv, InProgress
<1>2. QED
  BY <1>1 DEF RejectEntry, Done, ChainShortened

LEMMA ResolveStays ==
  ASSUME DiscordInv, NEW m \in Posts, ResolveEntry(m)
  PROVE  ChainStays
  BY DEF DiscordInv, PostTypes, ResolveEntry, ChainStays, InProgress

LEMMA SocketChain ==
  ASSUME DiscordInv,
         RestartBridge \/ NoConfig \/ OpenSocket \/ CloseSocket \/ ReconnectBridge \/ QueryAnswered
  PROVE  ChainStays \/ ChainEmptied \/ ChainShortened
<1>1. CASE UNCHANGED <<entryVars, postVars>>
  BY <1>1 DEF postVars, ChainStays
<1>2. CASE DieNow
  BY <1>2, DieNowEmpties
<1>3. CASE ~Unawaited /\ RejectPending
  <2>1. CASE inMap = {}
    BY <1>1, <1>3, <2>1 DEF RejectPending
  <2>2. ASSUME NEW m \in inMap, RejectEntry(m)
        PROVE  ChainShortened
    <3>1. m \in Posts /\ post[m] = "sent"
      BY <1>3 DEF DiscordInv, PostTypes, WatchInv, Unawaited
    <3>2. QED
      BY <2>2, <3>1, RejectShortens
  <2>3. QED
    BY <1>3, <2>1, <2>2 DEF RejectPending
<1>4. ASSUME NEW e \in inMap, ResolveEntry(e)
      PROVE  ChainStays
  <2>1. e \in Posts
    BY DEF DiscordInv, PostTypes
  <2>2. QED
    BY <1>4, <2>1, ResolveStays
<1>5. QED
  BY <1>1, <1>2, <1>3, <1>4
     DEF RestartBridge, NoConfig, OpenSocket, CloseSocket, ReconnectBridge, QueryAnswered

LEMMA PostChain ==
  ASSUME DiscordInv, NEW m \in Posts, PostStep(m)
  PROVE  ChainStays \/ ChainEmptied \/ ChainShortened
<1>0. post[m] \in InProgress \ {"chained"} => AtHead(m)
  BY DEF DiscordInv, ChainInv
<1>1. CASE DieNow
  BY <1>1, DieNowEmpties
<1>2. CASE UNCHANGED postVars
  BY <1>2 DEF postVars, ChainStays
<1>3. CASE RegisterEntry(m) \/ WritePost(m)
  BY <1>3 DEF RegisterEntry, WritePost, DiscordInv, PostTypes, ChainStays, InProgress
<1>4. CASE PostNotWritten(m) \/ SendReply(m) \/ Apologised(m)
  BY <1>0, <1>1, <1>4 DEF PostNotWritten, SendReply, Apologised, ChainShortened, InProgress
<1>5. CASE AckTimeout(m)
  BY <1>1, <1>5, RejectShortens DEF AckTimeout
<1>6. ASSUME NEW left, GiveUpOn(m, left), ~DieNow
      PROVE  ChainStays
  BY <1>6 DEF GiveUpOn, DiscordInv, PostTypes, ChainStays, InProgress
<1>7. CASE QueueTimeout(m) \/ RecoveryTimeout(m)
  BY <1>1, <1>6, <1>7 DEF QueueTimeout, RecoveryTimeout
<1>8. CASE SilenceTimeout(m) \/ RecoverAsked(m) \/ TypingStarted(m)
  BY <1>2, <1>8 DEF SilenceTimeout, RecoverAsked, TypingStarted
<1>9. QED
  BY <1>3, <1>4, <1>5, <1>7, <1>8 DEF PostStep

LEMMA EventChain ==
  ASSUME DiscordInv, NEW m \in Posts,
         QueuedArrives(m) \/ ProcessingArrives(m) \/ StatusArrives(m) \/ ResponseArrives(m) \/ DropPost(m)
  PROVE  ChainStays
<1>1. CASE UNCHANGED postVars
  BY <1>1 DEF postVars, ChainStays
<1>2. ASSUME NEW e \in inMap, ResolveEntry(e)
      PROVE  ChainStays
  <2>1. e \in Posts
    BY DEF DiscordInv, PostTypes
  <2>2. QED
    BY <1>2, <2>1, ResolveStays
<1>3. QED
  BY <1>1, <1>2
     DEF QueuedArrives, ProcessingArrives, StatusArrives, ResponseArrives, DropPost, OnQueued, OnProcessing,
         ResetInactivity

LEMMA ChainFullStep ==
  ASSUME DiscordInv, ChainIsFull, [DiscordNext]_discordVars
  PROVE  ChainIsFull'
<1>0. chain \in Seq(Posts) /\ Len(chain) \in Nat
  BY DEF DiscordInv, PostTypes
<1>1. CASE ChainStays
  BY <1>1 DEF ChainStays, ChainIsFull
<1>2. CASE ChainEmptied
  BY <1>2 DEF ChainEmptied, ChainIsFull
<1>3. CASE ChainShortened
  <2>1. PICK m \in Posts : AtHead(m) /\ Done(m)
    BY <1>3 DEF ChainShortened
  <2>2. /\ chain # <<>> /\ chain[1] = m /\ 1 \in 1..Len(chain)
        /\ post' = [post EXCEPT ![m] = "over"] /\ chain' = Tail(chain)
    BY <1>0, <2>1, HeadOf DEF AtHead, Done
  <2>3. Len(chain') = Len(chain) - 1 /\ \A i \in 1..Len(chain') : chain'[i] = chain[i + 1]
    BY <1>0, <2>2, TailOf
  <2>4. ASSUME NEW x \in Posts, post'[x] \in InProgress
        PROVE  \E i \in 1..Len(chain') : chain'[i] = x
    <3>1. x # m /\ post[x] \in InProgress
      BY <2>2, <2>4 DEF DiscordInv, PostTypes, InProgress
    <3>2. PICK i \in 1..Len(chain) : chain[i] = x
      BY <3>1 DEF ChainIsFull
    <3>3. i - 1 \in 1..Len(chain') /\ (i - 1) + 1 = i
      BY <1>0, <2>2, <2>3, <3>1, <3>2
    <3>4. chain'[i - 1] = x
      BY <2>3, <3>2, <3>3
    <3>5. QED
      BY <3>3, <3>4
  <2>5. QED
    BY <2>4 DEF ChainIsFull
<1>4. CASE ChainExtended
  <2>1. PICK m \in Posts : post' = [post EXCEPT ![m] = "chained"] /\ chain' = Append(chain, m)
    BY <1>4 DEF ChainExtended
  <2>2. /\ Len(chain') = Len(chain) + 1 /\ chain'[Len(chain) + 1] = m
        /\ \A i \in 1..Len(chain) : chain'[i] = chain[i]
    BY <1>0, <2>1, AppendTo
  <2>3. 1..Len(chain) \subseteq 1..Len(chain') /\ Len(chain) + 1 \in 1..Len(chain')
    BY <1>0, <2>2
  <2>4. ASSUME NEW x \in Posts, post'[x] \in InProgress
        PROVE  \E i \in 1..Len(chain') : chain'[i] = x
    <3>1. x = m \/ post[x] \in InProgress
      BY <2>1, <2>4 DEF DiscordInv, PostTypes
    <3>2. QED
      BY <2>2, <2>3, <3>1 DEF ChainIsFull
  <2>5. QED
    BY <2>4 DEF ChainIsFull
<1>5. ChainStays \/ ChainEmptied \/ ChainShortened \/ ChainExtended
  <2>1. CASE UNCHANGED discordVars
    BY <2>1 DEF discordVars, postVars, ChainStays
  <2>2. ASSUME NEW m \in Posts, ReceivePost(m)
        PROVE  ChainExtended
    BY <2>2 DEF ReceivePost, ChainExtended
  <2>3. QED
    BY <2>1, <2>2, SocketChain, PostChain, EventChain DEF DiscordNext
<1>6. QED
  BY <1>1, <1>2, <1>3, <1>4, <1>5

LEMMA DiscordRestStep ==
  ASSUME DiscordInv, DiscordRest, [DiscordNext]_discordVars
  PROVE  DiscordRest'
<1>. DEFINE Works == {"none", "acking", "waiting", "running", "resending"}
            Sockets == {"closed", "connecting", "open"}
            WorkNext ==
              /\ rerun' \subseteq Posts /\ lastPut' \in Posts \cup {NoPost} /\ work' \in [Posts -> Works]
              /\ lastPut' = NoPost => lastPut = NoPost /\ \A m \in Posts : work'[m] = "none"
<1>0. /\ entryPhase \in [Posts -> {"none", "ack", "queued", "processing", "recovering"}]
      /\ inMap \subseteq Posts /\ NoPost \notin Posts
  BY PostAssumption DEF DiscordInv, PostTypes
<1>1. CASE UNCHANGED discordVars
  BY <1>1 DEF discordVars, entryVars, socketVars, serverSide, DiscordRest
\* The socket of the bridge, and the end of its process.
<1>2. /\ bridgeUp' \in BOOLEAN /\ clientReady' \in BOOLEAN /\ query' \in BOOLEAN
      /\ wire' \in Sockets /\ cuts' \in 0..MaxCuts
  <2>1. CASE UNCHANGED socketVars
    BY <2>1 DEF socketVars, DiscordRest
  <2>2. CASE DieNow /\ UNCHANGED cuts
    BY <2>2 DEF DieNow, DiscordRest
  <2>3. CASE RestartBridge \/ OpenSocket \/ ReconnectBridge
    <3>1. /\ UNCHANGED cuts /\ wire' \in Sockets
          /\ bridgeUp' = bridgeUp \/ bridgeUp' = TRUE
          /\ clientReady' = clientReady \/ clientReady' = TRUE
          /\ query' = query \/ query' = (inMap # {})
      BY <2>3 DEF RestartBridge, OpenSocket, ReconnectBridge
    <3>2. (inMap # {}) \in BOOLEAN
      OBVIOUS
    <3>3. QED
      BY <3>1, <3>2 DEF DiscordRest
  <2>4. CASE CloseSocket
    <3>1. cuts' \in 0..MaxCuts
      BY <2>4, PostAssumption DEF CloseSocket, DiscordRest
    <3>2. /\ wire' = "closed" /\ query' = FALSE
          /\ bridgeUp' = bridgeUp \/ bridgeUp' = FALSE
          /\ clientReady' = clientReady \/ clientReady' = FALSE
      BY <2>4 DEF CloseSocket, DieNow
    <3>3. QED
      BY <3>1, <3>2 DEF DiscordRest
  <2>5. CASE QueryAnswered
    <3>1. /\ UNCHANGED cuts
          /\ DieNow \/ (query' = FALSE /\ UNCHANGED <<bridgeUp, clientReady, wire>>)
      BY <2>5 DEF QueryAnswered
    <3>2. QED
      BY <2>2, <3>1 DEF DiscordRest
  <2>6. ASSUME NEW m \in Posts,
               \/ ReceivePost(m) \/ PostStep(m) \/ QueuedArrives(m) \/ ProcessingArrives(m)
               \/ StatusArrives(m) \/ ResponseArrives(m) \/ DropPost(m)
        PROVE  UNCHANGED socketVars \/ (DieNow /\ UNCHANGED cuts)
    BY <2>6 DEF ReceivePost, PostStep, RegisterEntry, WritePost, PostNotWritten, SendReply, AckTimeout, QueueTimeout,
                RecoveryTimeout, GiveUpOn, SilenceTimeout, RecoverAsked, TypingStarted, Apologised, QueuedArrives,
                ProcessingArrives, StatusArrives, ResponseArrives, DropPost
  <2>7. QED
    BY <1>1, <2>1, <2>2, <2>3, <2>4, <2>5, <2>6 DEF DiscordNext, NoConfig, discordVars
\* The messages the server works on.
<1>3. WorkNext
  <2>1. CASE UNCHANGED serverSide
    BY <2>1 DEF serverSide, DiscordRest
  <2>2. ASSUME NEW m \in Posts, WritePost(m)
        PROVE  WorkNext
    BY <1>0, <2>2 DEF WritePost, DiscordRest
  <2>3. CASE CloseSocket
    BY <2>3 DEF CloseSocket, Each, DiscordRest
  <2>4. ASSUME NEW m \in Posts,
               QueuedArrives(m) \/ ProcessingArrives(m) \/ StatusArrives(m) \/ ResponseArrives(m) \/ DropPost(m)
        PROVE  WorkNext
    BY <2>4 DEF QueuedArrives, ProcessingArrives, StatusArrives, ResponseArrives, DropPost, serverSide, DiscordRest
  <2>5. ASSUME NEW m \in Posts, RecoverAsked(m)
        PROVE  WorkNext
    <3>1. entryPhase[m] = "recovering"
      BY <2>5 DEF RecoverAsked, DiscordInv, PhaseInv
    <3>2. lastPut \in Posts /\ lastPut' = lastPut
      BY <2>5, <3>1 DEF RecoverAsked, DiscordRest
    <3>3. \/ UNCHANGED <<work, rerun>>
          \/ \E s \in {"waiting", "resending"} : work' = [work EXCEPT ![lastPut] = s] /\ UNCHANGED rerun
          \/ rerun' = rerun \cup {lastPut} /\ UNCHANGED work
      BY <2>5 DEF RecoverAsked
    <3>4. QED
      BY <1>0, <3>2, <3>3 DEF DiscordRest
  <2>6. ASSUME NEW m \in Posts, PostStep(m) \/ ReceivePost(m)
        PROVE  UNCHANGED serverSide \/ WritePost(m) \/ RecoverAsked(m)
    BY <2>6 DEF ReceivePost, PostStep, RegisterEntry, PostNotWritten, SendReply, AckTimeout, QueueTimeout,
                RecoveryTimeout, GiveUpOn, SilenceTimeout, TypingStarted, Apologised
  <2>7. QED
    BY <1>1, <2>1, <2>2, <2>3, <2>4, <2>5, <2>6
       DEF DiscordNext, RestartBridge, NoConfig, OpenSocket, ReconnectBridge, QueryAnswered, discordVars
\* No entry leaves its first phase before a message has been written.
<1>4. ASSUME lastPut' = NoPost, NEW x \in Posts
      PROVE  entryPhase'[x] \in {"none", "ack"}
  <2>0. entryPhase[x] \in {"none", "ack"} /\ \A m \in Posts : work[m] = "none" /\ entryPhase[m] \in {"none", "ack"}
    BY <1>3, <1>4 DEF DiscordRest
  <2>1. CASE UNCHANGED entryPhase
    BY <2>0, <2>1
  <2>2. CASE DieNow
    BY <2>2 DEF DieNow, Each
  <2>3. CASE RejectPending \/ \E e \in inMap : ResolveEntry(e)
    BY <2>0, <2>3 DEF RejectPending, RejectEntry, ResolveEntry, entryVars
  <2>4. CASE RestartBridge \/ NoConfig \/ OpenSocket \/ CloseSocket \/ ReconnectBridge \/ QueryAnswered
    BY <2>1, <2>2, <2>3, <2>4
       DEF RestartBridge, NoConfig, OpenSocket, CloseSocket, ReconnectBridge, QueryAnswered, entryVars
  <2>5. ASSUME NEW m \in Posts,
               QueuedArrives(m) \/ ProcessingArrives(m) \/ StatusArrives(m) \/ ResponseArrives(m) \/ DropPost(m)
        PROVE  FALSE
    BY <2>0, <2>5 DEF QueuedArrives, ProcessingArrives, StatusArrives, ResponseArrives, DropPost
  <2>6. ASSUME NEW m \in Posts, ReceivePost(m) \/ PostStep(m)
        PROVE  \/ UNCHANGED entryPhase \/ DieNow \/ RejectEntry(m)
               \/ entryPhase' = [entryPhase EXCEPT ![m] = "ack"]
               \/ entryPhase[m] = "processing"
    BY <2>6 DEF ReceivePost, PostStep, RegisterEntry, WritePost, PostNotWritten, SendReply, AckTimeout, QueueTimeout,
                RecoveryTimeout, GiveUpOn, SilenceTimeout, RecoverAsked, TypingStarted, Apologised, entryVars
  <2>7. ASSUME NEW m \in Posts, ReceivePost(m) \/ PostStep(m)
        PROVE  entryPhase'[x] \in {"none", "ack"}
    BY <1>0, <2>0, <2>1, <2>2, <2>6, <2>7 DEF RejectEntry
  <2>8. QED
    BY <1>1, <2>1, <2>4, <2>5, <2>7 DEF DiscordNext, discordVars, entryVars
<1>5. QED
  BY <1>2, <1>3, <1>4 DEF DiscordRest

\* The invariants of the Discord bridge give the types of its variables.
LEMMA DiscordTyped ==
  ASSUME DiscordInv, DiscordRest, ChainIsFull
  PROVE  DiscordTypeOK
<1>1. chain \in Seq(Posts)
  BY DEF DiscordInv, PostTypes
<1>2. IsInjective(chain)
  <2>1. DOMAIN chain = 1..Len(chain)
    BY <1>1
  <2>2. \A i, j \in 1..Len(chain) : chain[i] = chain[j] => i = j
    BY DEF DiscordInv, ChainInv
  <2>3. QED
    BY <2>1, <2>2 DEF IsInjective
<1>3. ToSet(chain) = {m \in Posts : post[m] \in InProgress}
  <2>1. DOMAIN chain = 1..Len(chain) /\ \A i \in 1..Len(chain) : chain[i] \in Posts
    BY <1>1
  <2>2. QED
    BY <2>1 DEF ToSet, DiscordInv, ChainInv, ChainIsFull
<1>4. inMap \cup loose \cup typed \cup settled \cup rerun \subseteq Posts
  BY DEF DiscordInv, PostTypes, DiscordRest
<1>5. QED
  BY <1>1, <1>2, <1>3, <1>4 DEF DiscordInv, PostTypes, DiscordRest, DiscordTypeOK

-----------------------------------------------------------------------------
(* REST requests. *)

\* How far a request and the pipeline's handler of its message have come, together;
\* a future holds at most the own answer of a request that is alone.
AloneFacts(r) ==
  /\ rest[r] = "new" => pipe[r] = "none"
  /\ rest[r] \in {"publishing", "waiting"} => pending[ThreadOf[r]] = r /\ pipe[r] # "none"
  /\ rest[r] = "waiting" => pipe[r] \in {"answered", "dropped"}
  /\ future[r] \in {r, NoRequest}
  /\ pipe[r] \in {"none", "asked", "running"} => future[r] = NoRequest
  /\ rest[r] \in {"publishing", "waiting"} /\ pipe[r] = "answered" => future[r] = r
  /\ rest[r] \in {"answered", "timed out", "failed"} => pipe[r] \in {"answered", "dropped"}
  /\ rest[r] = "answered" => future[r] = r
  /\ rest[r] = "timed out" => pipe[r] = "dropped"

RestInv ==
  /\ RestTypeOK /\ FutureIsAwaited
  /\ \A r \in Requests : Alone(r) => AloneFacts(r)

LEMMA RestStart == RestInit => RestInv
  BY RestAssumption DEF RestInit, RestInv, RestTypeOK, FutureIsAwaited, AloneFacts

LEMMA RestTypes ==
  ASSUME RestTypeOK, [RestNext]_restVars
  PROVE  RestTypeOK'
<1>. USE RestAssumption DEF RestTypeOK
<1>1. ASSUME NEW r \in Requests, Post(r)
      PROVE  RestTypeOK'
  BY <1>1 DEF Post
<1>2. ASSUME NEW r \in Requests, RestStep(r)
      PROVE  RestTypeOK'
  BY <1>2 DEF RestStep, RunPipeline, DropRequest, Respond, PublishReturns, Return, LeaveRest
<1>3. ASSUME NEW r \in Requests, Fail(r)
      PROVE  RestTypeOK'
  BY <1>3 DEF Fail, LeaveRest
<1>4. CASE UNCHANGED restVars
  BY <1>4 DEF restVars
<1>5. QED
  BY <1>1, <1>2, <1>3, <1>4 DEF RestNext

LEMMA FutureStep ==
  ASSUME RestTypeOK, FutureIsAwaited, [RestNext]_restVars
  PROVE  FutureIsAwaited'
<1>. SUFFICES ASSUME NEW c \in Threads, pending'[c] # NoRequest
              PROVE  /\ ThreadOf[pending'[c]] = c
                     /\ rest'[pending'[c]] \in {"publishing", "waiting"}
  BY DEF FutureIsAwaited
<1>1. /\ pending[c] # NoRequest =>
           /\ pending[c] \in Requests
           /\ ThreadOf[pending[c]] = c
           /\ rest[pending[c]] \in {"publishing", "waiting"}
      /\ DOMAIN rest = Requests /\ rest = [x \in Requests |-> rest[x]]
      /\ pending \in [Threads -> Requests \cup {NoRequest}]
  BY DEF FutureIsAwaited, RestTypeOK
<1>2. \A r \in Requests : ThreadOf[r] \in Threads /\ r # NoRequest
  BY RestAssumption
<1>3. ASSUME NEW r \in Requests, Post(r)
      PROVE  ThreadOf[pending'[c]] = c /\ rest'[pending'[c]] \in {"publishing", "waiting"}
  <2>1. /\ pending'[c] = IF c = ThreadOf[r] THEN r ELSE pending[c]
        /\ \A x \in Requests : rest'[x] = IF x = r THEN "publishing" ELSE rest[x]
    BY <1>1, <1>2, <1>3 DEF Post
  <2>2. QED
    BY <1>1, <1>2, <2>1
<1>4. ASSUME NEW r \in Requests, RunPipeline(r) \/ DropRequest(r) \/ Respond(r)
      PROVE  ThreadOf[pending'[c]] = c /\ rest'[pending'[c]] \in {"publishing", "waiting"}
  BY <1>1, <1>4 DEF RunPipeline, DropRequest, Respond
<1>5. ASSUME NEW r \in Requests, PublishReturns(r)
      PROVE  ThreadOf[pending'[c]] = c /\ rest'[pending'[c]] \in {"publishing", "waiting"}
  BY <1>1, <1>5 DEF PublishReturns
<1>6. ASSUME NEW r \in Requests, NEW how, LeaveRest(r, how)
      PROVE  ThreadOf[pending'[c]] = c /\ rest'[pending'[c]] \in {"publishing", "waiting"}
  BY <1>1, <1>2, <1>6 DEF LeaveRest
<1>7. CASE UNCHANGED restVars
  BY <1>1, <1>7 DEF restVars
<1>8. QED
  BY <1>3, <1>4, <1>5, <1>6, <1>7 DEF RestNext, RestStep, Return, Fail

\* A step of request x, seen from a request r that is alone.
LEMMA AloneStep ==
  ASSUME RestInv, [RestNext]_restVars, NEW r \in Requests, Alone(r)
  PROVE  AloneFacts(r)'
<1>. DEFINE c == ThreadOf[r]
<1>1. /\ RestTypeOK /\ AloneFacts(r)
      /\ r # NoRequest /\ c \in Threads
      /\ \A x \in Requests : x # r => ThreadOf[x] # c /\ ThreadOf[x] \in Threads
  BY RestAssumption DEF RestInv, Alone
<1>. DEFINE Same == /\ rest'[r] = rest[r] /\ pending'[c] = pending[c]
                    /\ future'[r] = future[r] /\ pipe'[r] = pipe[r]
<1>2. Same => AloneFacts(r)'
  BY <1>1 DEF AloneFacts
<1>3. ASSUME NEW x \in Requests, Post(x)
      PROVE  AloneFacts(r)'
  <2>1. CASE x = r
    <3>1. /\ rest[r] = "new" /\ rest'[r] = "publishing" /\ pending'[c] = r
          /\ pipe'[r] = "asked" /\ future'[r] = future[r]
      BY <1>1, <1>3, <2>1 DEF Post, RestTypeOK
    <3>2. QED
      BY <1>1, <3>1 DEF AloneFacts
  <2>2. CASE x # r
    BY <1>1, <1>2, <1>3, <2>2 DEF Post, RestTypeOK
  <2>3. QED
    BY <2>1, <2>2
<1>4. ASSUME NEW x \in Requests, RunPipeline(x)
      PROVE  AloneFacts(r)'
  BY <1>1, <1>4 DEF RunPipeline, RestTypeOK, AloneFacts
<1>5. ASSUME NEW x \in Requests, DropRequest(x)
      PROVE  AloneFacts(r)'
  BY <1>1, <1>5 DEF DropRequest, RestTypeOK, AloneFacts
<1>6. ASSUME NEW x \in Requests, Respond(x)
      PROVE  AloneFacts(r)'
  <2>1. CASE x = r
    <3>1. /\ pipe[r] = "running" /\ pipe'[r] = "answered"
          /\ rest'[r] = rest[r] /\ pending'[c] = pending[c]
      BY <1>1, <1>6, <2>1 DEF Respond, RestTypeOK
    <3>2. future[r] = NoRequest
      BY <1>1, <3>1 DEF AloneFacts
    <3>3. CASE rest[r] \in {"publishing", "waiting"}
      <4>1. pending[c] = r
        BY <1>1, <3>3 DEF AloneFacts
      <4>2. future'[r] = r
        BY <1>1, <1>6, <2>1, <3>2, <4>1 DEF Respond, Takes, RestTypeOK
      <4>3. QED
        BY <1>1, <3>1, <3>3, <4>1, <4>2 DEF AloneFacts
    <3>4. CASE rest[r] \notin {"publishing", "waiting"}
      BY <1>1, <3>1, <3>4 DEF AloneFacts, RestTypeOK
    <3>5. QED
      BY <3>3, <3>4
  <2>2. CASE x # r
    <3>1. pending[ThreadOf[x]] # r
      BY <1>1, <2>2 DEF RestInv, FutureIsAwaited
    <3>2. Same
      BY <1>1, <1>6, <2>2, <3>1 DEF Respond, RestTypeOK
    <3>3. QED
      BY <1>2, <3>2
  <2>3. QED
    BY <2>1, <2>2
<1>7. ASSUME NEW x \in Requests, PublishReturns(x)
      PROVE  AloneFacts(r)'
  BY <1>1, <1>7 DEF PublishReturns, RestTypeOK, AloneFacts
<1>8. ASSUME NEW x \in Requests, Return(x)
      PROVE  AloneFacts(r)'
  <2>1. CASE x = r
    <3>1. /\ rest[r] = "waiting" /\ UNCHANGED <<future, pipe>>
          /\ rest'[r] = IF future[r] # NoRequest THEN "answered" ELSE "timed out"
      BY <1>1, <1>8, <2>1 DEF Return, LeaveRest, RestTypeOK
    <3>2. QED
      BY <1>1, <3>1 DEF AloneFacts
  <2>2. CASE x # r
    BY <1>1, <1>2, <1>8, <2>2 DEF Return, LeaveRest, RestTypeOK
  <2>3. QED
    BY <2>1, <2>2
<1>9. ASSUME NEW x \in Requests, Fail(x)
      PROVE  AloneFacts(r)'
  <2>1. CASE x = r
    <3>1. /\ rest[r] \in {"publishing", "waiting"} /\ rest'[r] = "failed" /\ future' = future
          /\ pipe'[r] = IF pipe[r] \in {"asked", "running"} THEN "dropped" ELSE pipe[r]
      BY <1>1, <1>9, <2>1 DEF Fail, LeaveRest, RestTypeOK
    <3>2. pipe[r] # "none"
      BY <1>1, <3>1 DEF AloneFacts
    <3>3. QED
      BY <1>1, <3>1, <3>2 DEF AloneFacts, RestTypeOK
  <2>2. CASE x # r
    BY <1>1, <1>2, <1>9, <2>2 DEF Fail, LeaveRest, RestTypeOK
  <2>3. QED
    BY <2>1, <2>2
<1>10. CASE UNCHANGED restVars
  BY <1>1, <1>2, <1>10 DEF restVars
<1>11. QED
  BY <1>3, <1>4, <1>5, <1>6, <1>7, <1>8, <1>9, <1>10 DEF RestNext, RestStep

LEMMA RestKept ==
  ASSUME RestInv, [RestNext]_restVars
  PROVE  RestInv'
  BY RestTypes, FutureStep, AloneStep DEF RestInv, Alone

LEMMA RestOrder == RestSpec => []RestInv
<1>1. RestInv /\ [RestNext]_restVars => RestInv'
  BY RestKept
<1>2. QED
  BY RestStart, <1>1, PTL DEF RestSpec

\* A registered future is that of a request which still waits for it.
THEOREM FuturesAreAwaited == RestSpec => []FutureIsAwaited
<1>1. RestInv => FutureIsAwaited
  BY DEF RestInv
<1>2. QED
  BY RestOrder, <1>1, PTL

LEMMA RestOwn == RestInv => OwnAnswer
  BY DEF RestInv, AloneFacts, OwnAnswer

\* A request with its conversation to itself gets its own answer, and times out only
\* if the pipeline's handler has dropped its message.
THEOREM AnswersAreOwn == RestSpec => []OwnAnswer
<1>1. RestInv => OwnAnswer
  BY RestOwn
<1>2. QED
  BY RestOrder, <1>1, PTL

-----------------------------------------------------------------------------
(* The handler keeps the promise of ConversationReplies. *)

\* No answer is there before its request is.
FreshFutures == \A r \in Requests : rest[r] = "new" => future[r] = NoRequest

LEMMA RestTalkStart == RestInit => RestTalk!Init /\ FreshFutures
<1>. SUFFICES ASSUME RestInit
              PROVE  RestTalk!Init /\ FreshFutures
  OBVIOUS
<1>1. \A r \in Requests : rest[r] = "new" /\ pipe[r] = "none" /\ future[r] = NoRequest
  BY DEF RestInit
<1>2. restStatus = [r \in Requests |-> "new"] /\ restReply = [r \in Requests |-> NoRequest]
  BY <1>1 DEF restStatus, restReply, Waiting
<1>3. {r \in Requests : pipe[r] \in {"asked", "running"}} = {}
  BY <1>1
<1>4. QED
  BY <1>1, <1>2, <1>3 DEF RestTalk!Init, FreshFutures

LEMMA FreshStep ==
  ASSUME RestInv, FreshFutures, [RestNext]_restVars
  PROVE  FreshFutures'
<1>0. RestTypeOK /\ FutureIsAwaited
  BY DEF RestInv
<1>1. ASSUME NEW x \in Requests, Respond(x)
      PROVE  FreshFutures'
  <2>1. ThreadOf[x] \in Threads
    BY RestAssumption
  <2>2. /\ rest' = rest
        /\ \/ future' = future
           \/ \E p \in Requests : rest[p] # "new" /\ future' = [future EXCEPT ![p] = x]
    <3>1. CASE ~Takes(ThreadOf[x])
      BY <1>1, <3>1 DEF Respond
    <3>2. CASE Takes(ThreadOf[x])
      <4>0. pending[ThreadOf[x]] # NoRequest
        BY <3>2 DEF Takes
      <4>1. pending[ThreadOf[x]] \in Requests /\ rest[pending[ThreadOf[x]]] # "new"
        <5>1. pending[ThreadOf[x]] \in Requests
          BY <1>0, <2>1, <4>0 DEF RestTypeOK
        <5>2. rest[pending[ThreadOf[x]]] \in {"publishing", "waiting"}
          BY <1>0, <2>1, <4>0 DEF FutureIsAwaited
        <5>3. QED
          BY <5>1, <5>2
      <4>2. QED
        BY <1>1, <3>2, <4>1 DEF Respond
    <3>3. QED
      BY <3>1, <3>2
  <2>3. QED
    BY <1>0, <2>2 DEF FreshFutures, RestTypeOK
<1>2. ASSUME NEW x \in Requests, Post(x) \/ RunPipeline(x) \/ DropRequest(x) \/ PublishReturns(x)
                                  \/ Return(x) \/ Fail(x)
      PROVE  FreshFutures'
  BY <1>0, <1>2 DEF Post, RunPipeline, DropRequest, PublishReturns, Return, Fail, LeaveRest,
                    FreshFutures, RestTypeOK
<1>3. CASE UNCHANGED restVars
  BY <1>3 DEF restVars, FreshFutures
<1>4. QED
  BY <1>1, <1>2, <1>3 DEF RestNext, RestStep

\* The requests whose answer is still to come.
RestOwed == {r \in Requests : pipe[r] \in {"asked", "running"}}

LEMMA RestTalkStep ==
  ASSUME RestInv, FreshFutures, [RestNext]_restVars
  PROVE  [RestTalk!Next]_(RestTalk!talkVars)
<1>. DEFINE Same == restStatus' = restStatus /\ restReply' = restReply
<1>0. RestTypeOK /\ FutureIsAwaited
  BY DEF RestInv
<1>1. ASSUME NEW r \in Requests, Post(r)
      PROVE  RestTalk!Send(r)
  <2>1. /\ rest[r] = "new" /\ rest' = [rest EXCEPT ![r] = "publishing"]
        /\ pipe' = [pipe EXCEPT ![r] = "asked"] /\ future' = future
    BY <1>1 DEF Post
  <2>2. restStatus[r] = "new" /\ restStatus' = [restStatus EXCEPT ![r] = "sent"]
    BY <1>0, <2>1 DEF restStatus, Waiting, RestTypeOK
  <2>3. RestOwed' = RestOwed \cup {r}
    BY <1>0, <2>1 DEF RestOwed, RestTypeOK
  <2>4. future[r] = NoRequest
    BY <2>1 DEF FreshFutures
  <2>5. restReply' = restReply
    BY <1>0, <2>1, <2>4 DEF restReply, Waiting, RestTypeOK
  <2>6. QED
    BY <2>2, <2>3, <2>5 DEF RestTalk!Send, RestOwed
<1>2. ASSUME NEW r \in Requests, RunPipeline(r)
      PROVE  Same /\ RestOwed' = RestOwed
  BY <1>0, <1>2 DEF RunPipeline, RestOwed, RestTypeOK, restStatus, restReply, Waiting
<1>3. ASSUME NEW r \in Requests, DropRequest(r)
      PROVE  RestTalk!Lose(r)
  <2>1. Same /\ r \in RestOwed /\ RestOwed' = RestOwed \ {r}
    BY <1>0, <1>3 DEF DropRequest, RestOwed, RestTypeOK, restStatus, restReply, Waiting
  <2>2. QED
    BY <2>1 DEF RestTalk!Lose, RestOwed
<1>4. ASSUME NEW r \in Requests, Respond(r)
      PROVE  RestTalk!Lose(r) \/ \E p \in Requests : RestTalk!Deliver(r, p)
  <2>1. r \in RestOwed /\ RestOwed' = RestOwed \ {r} /\ restStatus' = restStatus
    BY <1>0, <1>4 DEF Respond, RestOwed, RestTypeOK, restStatus, Waiting
  <2>2. ThreadOf[r] \in Threads
    BY RestAssumption
  <2>3. CASE ~Takes(ThreadOf[r])
    <3>1. restReply' = restReply
      BY <1>4, <2>3 DEF Respond, restReply, Waiting
    <3>2. QED
      BY <2>1, <3>1 DEF RestTalk!Lose, RestOwed
  <2>4. CASE Takes(ThreadOf[r])
    <3>1. PICK p \in Requests : /\ p = pending[ThreadOf[r]] /\ future[p] = NoRequest
                                /\ ThreadOf[p] = ThreadOf[r] /\ Waiting(p)
      <4>1. pending[ThreadOf[r]] # NoRequest /\ future[pending[ThreadOf[r]]] = NoRequest
        BY <2>4 DEF Takes
      <4>2. pending[ThreadOf[r]] \in Requests
        BY <1>0, <2>2, <4>1 DEF RestTypeOK
      <4>3. /\ ThreadOf[pending[ThreadOf[r]]] = ThreadOf[r]
            /\ rest[pending[ThreadOf[r]]] \in {"publishing", "waiting"}
        BY <1>0, <2>2, <4>1 DEF FutureIsAwaited
      <4>4. QED
        BY <4>1, <4>2, <4>3 DEF Waiting
    <3>2. future' = [future EXCEPT ![p] = r] /\ rest' = rest
      BY <1>4, <2>4, <3>1 DEF Respond
    <3>3. restReply' = [restReply EXCEPT ![p] = r]
      BY <1>0, <3>1, <3>2 DEF restReply, Waiting, RestTypeOK
    <3>4. RestTalk!Waits(p)
      BY <3>1 DEF RestTalk!Waits, restStatus, restReply, Waiting
    <3>5. QED
      BY <2>1, <3>1, <3>3, <3>4 DEF RestTalk!Deliver, RestOwed
  <2>5. QED
    BY <2>3, <2>4
<1>5. ASSUME NEW r \in Requests, PublishReturns(r)
      PROVE  Same /\ RestOwed' = RestOwed
  BY <1>0, <1>5 DEF PublishReturns, RestOwed, RestTypeOK, restStatus, restReply, Waiting
<1>6. ASSUME NEW r \in Requests, Return(r) \/ Fail(r)
      PROVE  RestTalk!Close({r})
  <2>1. /\ Waiting(r) /\ future' = future
        /\ \E how \in {"answered", "timed out", "failed"} : rest' = [rest EXCEPT ![r] = how]
        /\ \A x \in Requests \ {r} : pipe'[x] = pipe[x]
        /\ pipe'[r] = pipe[r] \/ pipe'[r] = "dropped"
    BY <1>0, <1>6 DEF Return, Fail, LeaveRest, Waiting, RestTypeOK
  <2>2. /\ restStatus[r] = "sent"
        /\ restStatus' = [x \in Requests |-> IF x \in {r} THEN "closed" ELSE restStatus[x]]
    BY <1>0, <2>1 DEF restStatus, Waiting, RestTypeOK
  <2>3. restReply' = [x \in Requests |-> IF x \in {r} THEN NoRequest ELSE restReply[x]]
    BY <1>0, <2>1 DEF restReply, Waiting, RestTypeOK
  <2>4. RestOwed' \in {RestOwed, RestOwed \ {r}}
    BY <2>1 DEF RestOwed
  <2>5. QED
    BY <2>2, <2>3, <2>4 DEF RestTalk!Close, RestOwed
<1>7. ASSUME UNCHANGED restVars
      PROVE  Same /\ RestOwed' = RestOwed
  BY <1>7 DEF restVars, RestOwed, restStatus, restReply, Waiting
<1>8. Same /\ RestOwed' = RestOwed => UNCHANGED RestTalk!talkVars
  BY DEF RestTalk!talkVars, RestOwed
<1>9. \A r \in Requests : {r} \in SUBSET Requests
  OBVIOUS
<1>. HIDE DEF Same
<1>10. QED
  BY <1>1, <1>2, <1>3, <1>4, <1>5, <1>6, <1>7, <1>8, <1>9 DEF RestNext, RestStep, RestTalk!Next

\* Whichever requests of a conversation come, are answered, fail or time out in whatever
\* order: an answer resolves at most one of them, which waits and has none.
THEOREM RestImplementsReplies == RestSpec => RestGivesReplies
<1>1. RestInv /\ FreshFutures /\ [RestNext]_restVars => [RestTalk!Next]_(RestTalk!talkVars)
  BY RestTalkStep
<1>2. RestInv /\ FreshFutures /\ [RestNext]_restVars => FreshFutures'
  BY FreshStep
<1>3. RestInit => FreshFutures
  BY RestTalkStart
<1>4. QED
  BY RestTalkStart, <1>1, <1>2, <1>3, RestOrder, PTL DEF RestSpec, RestGivesReplies, RestTalk!Spec

-----------------------------------------------------------------------------
(* Calls to a bridge. *)

\* Between the invocation and its result a call is in one place only: sent to the
\* bridge, or carried out with a result on its way back.
CallFacts(k) ==
  /\ call[k] = "new" => k \notin carried
  /\ call[k] = "new" \/ k \in carried => did[k] = "none"
  /\ did[k] = "none" => outcome[k] = "none"
  /\ outcome[k] # "none" => did[k] = outcome[k]
  /\ call[k] \in {"ok", "error"} => did[k] = call[k]
  /\ call[k] = "waiting" => k \in futures
  /\ k \in futures => call[k] \in {"waiting", "cancelled"}

CallInv == CallTypeOK /\ \A k \in Actions : CallFacts(k)

\* While the bridge is connected, the server writes to its latest connection.
LinkInv == link # 0 => registered = link

LEMMA CallStart == CallInit => CallInv /\ LinkInv
<1>. SUFFICES ASSUME CallInit
              PROVE  CallInv /\ LinkInv
  OBVIOUS
<1>1. CallTypeOK
  <2>1. opened \in 0..MaxLinks /\ {link, registered} \subseteq 0..opened /\ handlers \subseteq 1..opened
    BY CallAssumption DEF CallInit
  <2>2. {did, outcome} \subseteq [Actions -> {"none", "ok", "error"}]
    BY DEF CallInit
  <2>3. QED
    BY <2>1, <2>2 DEF CallInit, CallTypeOK
<1>2. \A k \in Actions : CallFacts(k)
  BY DEF CallInit, CallFacts
<1>3. QED
  BY <1>1, <1>2 DEF CallInit, CallInv, LinkInv

LEMMA CallTypes ==
  ASSUME CallTypeOK, [CallNext]_callVars
  PROVE  CallTypeOK'
<1>. USE CallAssumption DEF CallTypeOK
<1>1. CASE OpenLink
  BY <1>1 DEF OpenLink
<1>2. CASE BreakLink
  BY <1>2 DEF BreakLink
<1>3. ASSUME NEW n \in 1..MaxLinks, NoticeClosed(n)
      PROVE  CallTypeOK'
  BY <1>3 DEF NoticeClosed
<1>4. CASE RegisterTools
  BY <1>4 DEF RegisterTools, linkEnds
<1>5. ASSUME NEW k \in Actions, Invoke(k)
      PROVE  CallTypeOK'
  BY <1>5 DEF Invoke, linkEnds
<1>6. ASSUME NEW k \in Actions, CarryOut(k)
      PROVE  CallTypeOK'
  BY <1>6 DEF CarryOut, linkEnds
<1>7. ASSUME NEW k \in Actions, Report(k)
      PROVE  CallTypeOK'
  BY <1>7 DEF Report, linkEnds
<1>8. ASSUME NEW k \in Actions, CallTimesOut(k) \/ CancelCall(k)
      PROVE  CallTypeOK'
  <2>1. CASE CallTimesOut(k)
    BY <2>1 DEF CallTimesOut, linkEnds
  <2>2. CASE CancelCall(k)
    BY <2>2 DEF CancelCall, linkEnds
  <2>3. QED
    BY <1>8, <2>1, <2>2
<1>9. ASSUME NEW p \in Pushes, Push(p)
      PROVE  CallTypeOK'
  BY <1>9 DEF Push, linkEnds
<1>10. CASE UNCHANGED callVars
  BY <1>10 DEF callVars, linkEnds
<1>11. QED
  BY <1>1, <1>2, <1>3, <1>4, <1>5, <1>6, <1>7, <1>8, <1>9, <1>10 DEF CallNext, CallStep

\* A step, seen from call k.
LEMMA CallStepFacts ==
  ASSUME CallInv, [CallNext]_callVars, NEW k \in Actions
  PROVE  CallFacts(k)'
<1>1. CallTypeOK /\ CallFacts(k)
  BY DEF CallInv
<1>. DEFINE Same == UNCHANGED <<call, futures, carried, did, outcome>>
<1>2. Same => CallFacts(k)'
  BY <1>1 DEF CallFacts
<1>3. ASSUME \/ OpenLink \/ BreakLink \/ RegisterTools \/ UNCHANGED callVars
             \/ \E n \in 1..MaxLinks : NoticeClosed(n)
             \/ \E p \in Pushes : Push(p)
      PROVE  Same
  BY <1>3 DEF OpenLink, BreakLink, RegisterTools, NoticeClosed, Push, callVars
<1>4. ASSUME NEW x \in Actions, Invoke(x)
      PROVE  CallFacts(k)'
  BY <1>1, <1>4 DEF Invoke, CallTypeOK, CallFacts
<1>5. ASSUME NEW x \in Actions, CarryOut(x)
      PROVE  CallFacts(k)'
  BY <1>1, <1>5 DEF CarryOut, CallTypeOK, CallFacts
<1>6. ASSUME NEW x \in Actions, Report(x)
      PROVE  CallFacts(k)'
  BY <1>1, <1>6 DEF Report, CallTypeOK, CallFacts
<1>7. ASSUME NEW x \in Actions, CallTimesOut(x) \/ CancelCall(x)
      PROVE  CallFacts(k)'
  BY <1>1, <1>7 DEF CallTimesOut, CancelCall, CallTypeOK, CallFacts
<1>8. QED
  BY <1>2, <1>3, <1>4, <1>5, <1>6, <1>7 DEF CallNext, CallStep

LEMMA CallKept ==
  ASSUME CallInv, [CallNext]_callVars
  PROVE  CallInv'
  BY CallTypes, CallStepFacts DEF CallInv

LEMMA CallOrder == CallSpec => []CallInv
<1>1. CallInv /\ [CallNext]_callVars => CallInv'
  BY CallKept
<1>2. QED
  BY CallStart, <1>1, PTL DEF CallSpec

LEMMA CallOwn == CallInv => ResultIsOwn
  BY DEF CallInv, CallFacts, ResultIsOwn

\* What the model is told of an action is what its own invocation did.
THEOREM ResultsAreOwn == CallSpec => []ResultIsOwn
<1>1. CallInv => ResultIsOwn
  BY CallOwn
<1>2. QED
  BY CallOrder, <1>1, PTL

LEMMA LinkStep ==
  ASSUME CallTypeOK, LinkInv, [CallNext]_callVars
  PROVE  LinkInv'
  BY DEF LinkInv, CallTypeOK, CallNext, CallStep, OpenLink, BreakLink, NoticeClosed, RegisterTools,
     Invoke, CarryOut, Report, CallTimesOut, CancelCall, Push, callVars, linkEnds

\* A message is lost only while no connection is open.
LEMMA PushArrives ==
  ASSUME CallTypeOK, LinkInv, [CallNext]_callVars
  PROVE  [\A p \in Pushes : pushed[p] = "new" /\ pushed'[p] = "lost" => link = 0]_callVars
<1>. SUFFICES ASSUME CallNext, NEW p \in Pushes, pushed[p] = "new", pushed'[p] = "lost"
              PROVE  link = 0
  OBVIOUS
<1>1. PICK q \in Pushes : Push(q)
  BY DEF CallNext, CallStep, OpenLink, BreakLink, NoticeClosed, RegisterTools,
     Invoke, CarryOut, Report, CallTimesOut, CancelCall
<1>2. ~Arrives
  BY <1>1 DEF Push, CallTypeOK
<1>3. QED
  BY <1>2 DEF Arrives, LinkInv, CallTypeOK

\* A message pushed while the bridge is connected reaches it, whichever handlers of
\* its former connections are still to end.
THEOREM PushesReachTheLink == CallSpec => PushReachesLink
<1>1. CallTypeOK /\ LinkInv /\ [CallNext]_callVars =>
        [\A p \in Pushes : pushed[p] = "new" /\ pushed'[p] = "lost" => link = 0]_callVars
  BY PushArrives
<1>2. CallInv => CallTypeOK
  BY DEF CallInv
<1>3. CallSpec => []LinkInv
  <2>1. CallTypeOK /\ LinkInv /\ [CallNext]_callVars => LinkInv'
    BY LinkStep
  <2>2. QED
    BY CallStart, CallOrder, <1>2, <2>1, PTL DEF CallSpec
<1>4. QED
  BY <1>1, <1>2, <1>3, CallOrder, PTL DEF CallSpec, PushReachesLink

=============================================================================
