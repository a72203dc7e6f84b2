----------------------------- MODULE System_proofs ------------------------------
(***************************************************************************)
(* What the client and the server guarantee together for every set of      *)
(* events, every size of a chunk, every number of retries and all faults.  *)
(***************************************************************************)
EXTENDS System, SequenceTheorems, TLAPS

-------------------------------------------------------------------------------
(* Sequences without repetitions *)

\* No event is twice in the sequence.
Distinct(s) == \A m, n \in 1..Len(s) : s[m] = s[n] => m = n

\* The elements of a sequence.
LEMMA Elements ==
    ASSUME NEW S, NEW s \in Seq(S)
    PROVE  /\ ToSet(s) = {s[n] : n \in 1..Len(s)}
           /\ ToSet(s) \subseteq S
           /\ Len(s) \in Nat
  BY DEF ToSet

\* Two sequences one after the other.
LEMMA Concatenated ==
    ASSUME NEW S, NEW s \in Seq(S), NEW t \in Seq(S)
    PROVE  /\ s \o t \in Seq(S)
           /\ ToSet(s \o t) = ToSet(s) \cup ToSet(t)
           /\ Distinct(s) /\ Distinct(t) /\ ToSet(s) \cap ToSet(t) = {} => Distinct(s \o t)
<1>1. /\ s \o t \in Seq(S) /\ Len(s \o t) = Len(s) + Len(t)
      /\ \A i \in 1..Len(s) + Len(t) : (s \o t)[i] = IF i <= Len(s) THEN s[i] ELSE t[i - Len(s)]
  BY ConcatProperties
<1>n. Len(s) \in Nat /\ Len(t) \in Nat
  BY Elements
<1>2. ToSet(s \o t) = {(s \o t)[n] : n \in 1..Len(s) + Len(t)}
  BY <1>1, Elements
<1>3. ToSet(s) = {s[n] : n \in 1..Len(s)} /\ ToSet(t) = {t[n] : n \in 1..Len(t)}
  BY Elements
<1> DEFINE u == s \o t
<1>u. /\ \A i \in 1..Len(s) : u[i] = s[i]
      /\ \A i \in 1..Len(t) : u[i + Len(s)] = t[i] /\ i + Len(s) \in 1..Len(s) + Len(t)
      /\ \A i \in 1..Len(s) + Len(t) : i \in 1..Len(s) \/ (i - Len(s) \in 1..Len(t) /\ u[i] = t[i - Len(s)])
      /\ Len(u) = Len(s) + Len(t)
  BY <1>1, <1>n
<1> HIDE DEF u
<1>4. ToSet(u) = ToSet(s) \cup ToSet(t)
  <2>1. ToSet(u) \subseteq ToSet(s) \cup ToSet(t)
    BY <1>2, <1>3, <1>u, <1>n DEF u
  <2>2. ToSet(s) \subseteq ToSet(u)
    BY <1>2, <1>3, <1>u, <1>n DEF u
  <2>3. ToSet(t) \subseteq ToSet(u)
    BY <1>2, <1>3, <1>u, <1>n DEF u
  <2> QED
    BY <2>1, <2>2, <2>3
<1>5. ASSUME Distinct(s), Distinct(t), ToSet(s) \cap ToSet(t) = {}
      PROVE  Distinct(u)
  <2> SUFFICES ASSUME NEW m \in 1..Len(u), NEW n \in 1..Len(u), u[m] = u[n]
               PROVE  m = n
    BY DEF Distinct
  <2>1. m \in 1..Len(s) + Len(t) /\ n \in 1..Len(s) + Len(t)
    BY <1>u
  <2>2. CASE m \in 1..Len(s) /\ n \in 1..Len(s)
    BY <2>2, <1>u, <1>5 DEF Distinct
  <2>3. CASE m \notin 1..Len(s) /\ n \notin 1..Len(s)
    <3>1. /\ m - Len(s) \in 1..Len(t) /\ u[m] = t[m - Len(s)]
          /\ n - Len(s) \in 1..Len(t) /\ u[n] = t[n - Len(s)]
      BY <2>1, <2>3, <1>u
    <3>2. m - Len(s) = n - Len(s)
      BY <3>1, <1>5 DEF Distinct
    <3> QED
      BY <3>2, <2>1, <1>n
  <2>4. CASE m \in 1..Len(s) /\ n \notin 1..Len(s)
    BY <2>1, <2>4, <1>u, <1>3, <1>5
  <2>5. CASE m \notin 1..Len(s) /\ n \in 1..Len(s)
    BY <2>1, <2>5, <1>u, <1>3, <1>5
  <2> QED
    BY <2>2, <2>3, <2>4, <2>5
<1> QED
  BY <1>1, <1>4, <1>5 DEF u

\* A part of a sequence.
LEMMA Part ==
    ASSUME NEW S, NEW s \in Seq(S), NEW a \in 1..Len(s) + 1, NEW b \in 0..Len(s)
    PROVE  /\ SubSeq(s, a, b) \in Seq(S)
           /\ ToSet(SubSeq(s, a, b)) = {s[n] : n \in a..b}
           /\ Distinct(s) => Distinct(SubSeq(s, a, b))
<1>n. Len(s) \in Nat
  BY Elements
<1>1. /\ SubSeq(s, a, b) \in Seq(S)
      /\ Len(SubSeq(s, a, b)) = IF a <= b THEN b - a + 1 ELSE 0
      /\ \A i \in 1..b - a + 1 : SubSeq(s, a, b)[i] = s[a + i - 1]
  BY <1>n, SubSeqProperties
<1> DEFINE u == SubSeq(s, a, b)
<1>2. ToSet(u) = {u[n] : n \in 1..Len(u)} /\ Len(u) \in Nat
  BY <1>1, Elements
<1>3. /\ \A i \in 1..Len(u) : u[i] = s[a + i - 1] /\ a + i - 1 \in a..b
      /\ \A n \in a..b : n - a + 1 \in 1..Len(u) /\ u[n - a + 1] = s[n]
      /\ a..b \subseteq 1..Len(s)
  BY <1>1, <1>n
<1> HIDE DEF u
<1>4. ToSet(u) = {s[n] : n \in a..b}
  <2>1. ASSUME NEW i \in 1..Len(u)
        PROVE  u[i] \in {s[n] : n \in a..b}
    BY <1>3
  <2>2. {s[n] : n \in a..b} \subseteq ToSet(u)
    BY <1>2, <1>3
  <2> QED
    BY <1>2, <2>1, <2>2
<1>5. ASSUME Distinct(s), NEW m \in 1..Len(u), NEW n \in 1..Len(u), u[m] = u[n]
      PROVE  m = n
  <2>1. s[a + m - 1] = s[a + n - 1] /\ a + m - 1 \in 1..Len(s) /\ a + n - 1 \in 1..Len(s)
    BY <1>5, <1>3
  <2>2. a + m - 1 = a + n - 1
    BY <2>1, <1>5 DEF Distinct
  <2> QED
    BY <2>2, <1>2, <1>n
<1> QED
  BY <1>1, <1>4, <1>5 DEF u, Distinct

\* The chunk that is sent next, and the rest of the batch.
LEMMA Chunked ==
    ASSUME NEW S, NEW b \in Seq(S)
    PROVE  /\ Chunk(b) \in Seq(S) /\ Rest(b) \in Seq(S)
           /\ ToSet(Chunk(b)) \subseteq ToSet(b) /\ ToSet(Rest(b)) \subseteq ToSet(b)
           /\ ToSet(b) \subseteq ToSet(Chunk(b)) \cup ToSet(Rest(b))
           /\ Distinct(b) => /\ Distinct(Chunk(b)) /\ Distinct(Rest(b))
                             /\ ToSet(Chunk(b)) \cap ToSet(Rest(b)) = {}
<1>n. Len(b) \in Nat /\ ToSet(b) = {b[n] : n \in 1..Len(b)}
  BY Elements
<1>1. PICK k \in 0..Len(b) : Chunk(b) = SubSeq(b, 1, k)
  BY <1>n, ClientAssumption DEF Chunk
<1>2. /\ Chunk(b) \in Seq(S) /\ ToSet(Chunk(b)) = {b[n] : n \in 1..k}
      /\ Distinct(b) => Distinct(Chunk(b))
  BY <1>1, <1>n, Part
<1>3. Len(Chunk(b)) = k
  BY <1>1, <1>n, SubSeqProperties
<1>4. /\ Rest(b) \in Seq(S) /\ ToSet(Rest(b)) = {b[n] : n \in k + 1..Len(b)}
      /\ Distinct(b) => Distinct(Rest(b))
  <2>1. k + 1 \in 1..Len(b) + 1 /\ Len(b) \in 0..Len(b)
    BY <1>n
  <2> QED
    BY <1>3, <2>1, Part DEF Rest
<1>5. ToSet(Chunk(b)) \subseteq ToSet(b) /\ ToSet(Rest(b)) \subseteq ToSet(b)
  BY <1>2, <1>4, <1>n
<1>7. ToSet(b) \subseteq ToSet(Chunk(b)) \cup ToSet(Rest(b))
  BY <1>2, <1>4, <1>n
<1>6. Distinct(b) => ToSet(Chunk(b)) \cap ToSet(Rest(b)) = {}
  BY <1>2, <1>4, <1>n DEF Distinct
<1> QED
  BY <1>2, <1>4, <1>5, <1>6, <1>7

\* The empty sequence has no elements.
LEMMA Empty == \A S : <<>> \in Seq(S) /\ ToSet(<<>>) = {} /\ Distinct(<<>>)
  BY EmptySeq DEF ToSet, Distinct

\* An event is appended.
LEMMA Appended ==
    ASSUME NEW S, NEW s \in Seq(S), NEW e \in S
    PROVE  /\ Append(s, e) \in Seq(S)
           /\ ToSet(Append(s, e)) = ToSet(s) \cup {e}
           /\ Distinct(s) /\ e \notin ToSet(s) => Distinct(Append(s, e))
<1>1. <<e>> \in Seq(S) /\ Append(s, e) = s \o <<e>>
  BY AppendIsConcat
<1>2. ToSet(<<e>>) = {e} /\ Distinct(<<e>>)
  BY DEF ToSet, Distinct
<1>3. ToSet(s) \cap {e} = {} <=> e \notin ToSet(s)
  OBVIOUS
<1>4. /\ s \o <<e>> \in Seq(S) /\ ToSet(s \o <<e>>) = ToSet(s) \cup ToSet(<<e>>)
      /\ Distinct(s) /\ Distinct(<<e>>) /\ ToSet(s) \cap ToSet(<<e>>) = {} => Distinct(s \o <<e>>)
  BY <1>1, Concatenated
<1> QED
  BY <1>1, <1>2, <1>3, <1>4

-------------------------------------------------------------------------------
(* The client *)

ClientTypeOK ==
    /\ buffered \in BOOLEAN /\ torn \in BOOLEAN
    /\ pending \in Seq(Events) /\ batch \in Seq(Events) /\ spool \in Seq(Events)
    /\ pc \in {"idle", "read", "truncate", "send", "spool", "echo"}
    /\ attempt \in Nat
    /\ tracked \subseteq Events /\ echoed \subseteq Events
    /\ answered \subseteq Events /\ spooled \subseteq Events
    /\ faulty \in BOOLEAN

\* An event is in one place of the client, once; between the read of the buffer
\* file and its truncation it is in the file and in the batch.
HeldOnce ==
    /\ Distinct(pending) /\ Distinct(batch) /\ Distinct(spool)
    /\ ToSet(pending) \cap (ToSet(batch) \cup ToSet(spool)) = {}
    /\ pc # "truncate" => ToSet(batch) \cap ToSet(spool) = {}

\* The client has, and the server has answered, only what the application gave it.
HeldIsGiven == Held \cup answered \subseteq tracked \cup echoed

ClientInv == ClientTypeOK /\ HeldOnce /\ HeldIsGiven /\ AnsweredIsDone

\* The client starts with nothing.
LEMMA ClientInit == Init => ClientInv
<1> SUFFICES ASSUME Init PROVE ClientInv
  OBVIOUS
<1>e. <<>> \in Seq(Events) /\ ToSet(<<>>) = {} /\ Distinct(<<>>)
  BY Empty
<1>1. ClientTypeOK
  BY <1>e DEF Init, ClientTypeOK
<1>2. HeldOnce
  BY <1>e DEF Init, HeldOnce
<1>3. HeldIsGiven /\ AnsweredIsDone
  BY <1>e DEF Init, HeldIsGiven, AnsweredIsDone, Held
<1> QED
  BY <1>1, <1>2, <1>3 DEF ClientInv

\* flush takes the queue out of the client.
LEMMA BeginFlushInv ==
    ASSUME ClientTypeOK, Distinct(spool), NEW q \in Seq(Events), Distinct(q),
           ToSet(q) \cap ToSet(spool) = {}, ToSet(q) \cap answered = {}, ToSet(spool) \cap answered = {},
           ToSet(q) \cup ToSet(spool) \cup answered \subseteq tracked' \cup echoed',
           tracked' \subseteq Events, echoed' \subseteq Events,
           BeginFlush(q), UNCHANGED <<buffered, file, answered, spooled, faulty>>
    PROVE  ClientInv'
<1>1. /\ pending' = <<>> /\ batch' = q /\ spool' = spool /\ attempt' = 0
      /\ answered' = answered /\ pc' # "truncate"
      /\ pc' \in {"idle", "read", "send"}
  BY DEF BeginFlush, file
<1>2. ToSet(pending') = {} /\ Distinct(pending') /\ pending' \in Seq(Events)
  BY <1>1, Empty
<1>3. ClientTypeOK'
  BY <1>1, <1>2 DEF ClientTypeOK, file
<1>4. HeldOnce'
  BY <1>1, <1>2 DEF HeldOnce
<1>5. HeldIsGiven' /\ AnsweredIsDone'
  BY <1>1, <1>2 DEF HeldIsGiven, AnsweredIsDone, Held
<1> QED
  BY <1>3, <1>4, <1>5 DEF ClientInv

\* A step that takes nothing new into the client and the answers keeps the invariant.
LEMMA NothingNew ==
    ASSUME ClientInv, ClientTypeOK', HeldOnce',
           Held' \subseteq Held, answered' \subseteq answered, tracked \cup echoed \subseteq tracked' \cup echoed'
    PROVE  ClientInv'
<1>1. HeldIsGiven'
  BY DEF ClientInv, HeldIsGiven
<1>2. AnsweredIsDone'
  BY DEF ClientInv, AnsweredIsDone
<1> QED
  BY <1>1, <1>2 DEF ClientInv

\* Every step of the client keeps its events apart.
LEMMA ClientNext == ClientInv /\ [Next]_vars => ClientInv'
<1> SUFFICES ASSUME ClientInv, [Next]_vars
             PROVE  ClientInv'
  OBVIOUS
<1> USE DEF memory, file, history
<1>t. ClientTypeOK /\ HeldOnce /\ HeldIsGiven /\ AnsweredIsDone
  BY DEF ClientInv
<1>e. <<>> \in Seq(Events) /\ ToSet(<<>>) = {} /\ Distinct(<<>>)
  BY Empty
<1>c. /\ Chunk(batch) \in Seq(Events) /\ Rest(batch) \in Seq(Events)
      /\ ToSet(Chunk(batch)) \subseteq ToSet(batch) /\ ToSet(Rest(batch)) \subseteq ToSet(batch)
      /\ Distinct(Chunk(batch)) /\ Distinct(Rest(batch))
      /\ ToSet(Chunk(batch)) \cap ToSet(Rest(batch)) = {}
      /\ ToSet(Chunk(batch)) \subseteq Events
  <2>1. batch \in Seq(Events) /\ Distinct(batch)
    BY <1>t DEF ClientTypeOK, HeldOnce
  <2> QED
    BY <2>1, Chunked, Elements
<1>p. /\ pending \in Seq(Events) /\ Distinct(pending) /\ ToSet(pending) \subseteq Events
      /\ spool \in Seq(Events) /\ Distinct(spool) /\ batch \in Seq(Events)
  BY <1>t, Elements DEF ClientTypeOK, HeldOnce
<1>1. ASSUME NEW e \in Events, Track(e)
      PROVE  ClientInv'
  <2> DEFINE q == Append(pending, e)
  <2>1. e \notin Held \cup answered
    BY <1>1, <1>t DEF Track, HeldIsGiven
  <2>2. q \in Seq(Events) /\ ToSet(q) = ToSet(pending) \cup {e} /\ Distinct(q)
    <3>1. e \notin ToSet(pending)
      BY <2>1 DEF Held
    <3> QED
      BY <1>p, <3>1, Appended
  <2>3. CASE BeginFlush(q)
    <3>1. /\ tracked' = tracked \cup {e} /\ echoed' = echoed
          /\ UNCHANGED <<buffered, file, answered, spooled, faulty>>
      BY <1>1 DEF Track
    <3>2. /\ ToSet(q) \cap ToSet(spool) = {} /\ ToSet(q) \cap answered = {}
          /\ ToSet(spool) \cap answered = {}
          /\ ToSet(q) \cup ToSet(spool) \cup answered \subseteq tracked' \cup echoed'
      BY <1>t, <2>1, <2>2, <3>1 DEF HeldOnce, HeldIsGiven, AnsweredIsDone, Held
    <3>3. tracked' \subseteq Events /\ echoed' \subseteq Events
      BY <1>t, <3>1 DEF ClientTypeOK
    <3> HIDE DEF q
    <3> QED
      BY <1>t, <1>p, <2>2, <2>3, <3>1, <3>2, <3>3, BeginFlushInv
  <2>4. CASE pending' = q /\ UNCHANGED <<batch, pc, attempt>>
    <3>1. /\ tracked' = tracked \cup {e}
          /\ UNCHANGED <<buffered, file, echoed, answered, spooled, faulty>>
      BY <1>1 DEF Track
    <3> HIDE DEF q
    <3>2. ClientTypeOK'
      BY <1>t, <2>2, <2>4, <3>1 DEF ClientTypeOK
    <3>3. HeldOnce'
      BY <1>t, <2>1, <2>2, <2>4, <3>1 DEF HeldOnce, Held
    <3>4. HeldIsGiven' /\ AnsweredIsDone'
      BY <1>t, <2>1, <2>2, <2>4, <3>1 DEF HeldIsGiven, AnsweredIsDone, Held
    <3> QED
      BY <3>2, <3>3, <3>4 DEF ClientInv
  <2> QED
    BY <1>1, <2>3, <2>4 DEF Track
<1>2. CASE Flush
  <2>1. BeginFlush(pending) /\ UNCHANGED <<buffered, file, answered, spooled, faulty, tracked, echoed>>
    BY <1>2 DEF Flush
  <2>2. /\ ToSet(pending) \cap ToSet(spool) = {} /\ ToSet(pending) \cap answered = {}
        /\ ToSet(spool) \cap answered = {}
        /\ ToSet(pending) \cup ToSet(spool) \cup answered \subseteq tracked' \cup echoed'
        /\ tracked' \subseteq Events /\ echoed' \subseteq Events
    BY <1>t, <2>1 DEF HeldOnce, HeldIsGiven, AnsweredIsDone, Held, ClientTypeOK
  <2> QED
    BY <1>t, <1>p, <2>1, <2>2, BeginFlushInv
<1>3. CASE Echo
  <2>1. /\ batch' = pending /\ pending' = <<>> /\ attempt' = 0 /\ pc' = "echo"
        /\ tracked' = tracked \ ToSet(pending) /\ echoed' = echoed \cup ToSet(pending)
        /\ UNCHANGED <<buffered, spool, torn, answered, spooled, faulty>>
    BY <1>3 DEF Echo
  <2>2. ClientTypeOK'
    BY <1>t, <1>p, <1>e, <2>1 DEF ClientTypeOK
  <2>3. HeldOnce'
    BY <1>t, <1>e, <2>1 DEF HeldOnce
  <2>4. Held' \subseteq Held
    BY <1>e, <2>1 DEF Held
  <2> QED
    BY <2>1, <2>2, <2>3, <2>4, NothingNew
<1>4. CASE ReadSpool
  <2>1. UNCHANGED <<pending, attempt, buffered, spool, torn, tracked, echoed, answered, spooled, faulty>>
    BY <1>4 DEF ReadSpool
  <2>2. /\ spool \o batch \in Seq(Events) /\ ToSet(spool \o batch) = ToSet(spool) \cup ToSet(batch)
        /\ Distinct(spool \o batch)
    <3>1. Distinct(batch) /\ ToSet(spool) \cap ToSet(batch) = {}
      BY <1>4, <1>t DEF ReadSpool, HeldOnce
    <3> QED
      BY <1>p, <3>1, Concatenated
  <2>3. \/ batch' = <<>> /\ pc' = "idle"
        \/ batch' = spool \o batch /\ pc' = "truncate"
    BY <1>4 DEF ReadSpool
  <2>4. ClientTypeOK'
    BY <1>t, <1>e, <2>1, <2>2, <2>3 DEF ClientTypeOK
  <2>5. HeldOnce'
    BY <1>t, <1>e, <2>1, <2>2, <2>3 DEF HeldOnce
  <2>6. Held' \subseteq Held
    BY <1>e, <2>1, <2>2, <2>3 DEF Held
  <2> QED
    BY <2>1, <2>4, <2>5, <2>6, NothingNew
<1>5. CASE TruncateSpool
  <2>1. /\ spool' = <<>> /\ torn' = FALSE /\ pc' \in {"idle", "send"}
        /\ UNCHANGED <<pending, batch, attempt, buffered, tracked, echoed, answered, spooled, faulty>>
    BY <1>5 DEF TruncateSpool
  <2>2. ClientTypeOK'
    BY <1>t, <1>e, <2>1 DEF ClientTypeOK
  <2>3. HeldOnce'
    BY <1>t, <1>e, <2>1 DEF HeldOnce
  <2>4. Held' \subseteq Held
    BY <1>e, <2>1 DEF Held
  <2> QED
    BY <2>1, <2>2, <2>3, <2>4, NothingNew
<1>6. CASE Answered
  <2>1. /\ UNCHANGED <<pending, buffered, spool, torn, tracked, echoed, spooled, faulty>>
        /\ attempt' = 0 /\ pc' \in {"idle", "send"} /\ pc # "truncate"
    BY <1>6 DEF Answered
  <2>2. \/ batch' = Rest(batch) /\ answered' = answered \cup ToSet(Chunk(batch))
        \/ batch' = <<>> /\ answered' = answered
    BY <1>6 DEF Answered, Sent
  <2>3. ClientTypeOK'
    BY <1>t, <1>e, <1>c, <2>1, <2>2 DEF ClientTypeOK
  <2>4. HeldOnce'
    BY <1>t, <1>e, <1>c, <2>1, <2>2 DEF HeldOnce
  <2>5. HeldIsGiven'
    BY <1>t, <1>e, <1>c, <2>1, <2>2 DEF HeldIsGiven, Held
  <2>6. AnsweredIsDone'
    BY <1>t, <1>e, <1>c, <2>1, <2>2 DEF AnsweredIsDone, Held, HeldOnce
  <2> QED
    BY <2>3, <2>4, <2>5, <2>6 DEF ClientInv
<1>7. CASE Retry
  <2>1. ClientTypeOK' /\ HeldOnce' /\ Held' = Held /\ UNCHANGED <<answered, tracked, echoed>>
    BY <1>7, <1>t DEF Retry, ClientTypeOK, HeldOnce, Held
  <2> QED
    BY <2>1, NothingNew
<1>8. CASE GiveUp
  <2>1. /\ UNCHANGED <<buffered, spool, torn, tracked, echoed, answered, spooled, faulty>>
        /\ attempt' = 0 /\ pc \in {"send", "echo"}
    BY <1>8 DEF GiveUp
  <2>2. \/ pc' = "spool" /\ UNCHANGED <<pending, batch>>
        \/ pc' = "idle" /\ batch' = <<>> /\ pending' = Chunk(batch) \o pending
        \/ pc' = "idle" /\ batch' = <<>> /\ UNCHANGED pending
    BY <1>8 DEF GiveUp, Sent
  <2>3. /\ Chunk(batch) \o pending \in Seq(Events)
        /\ ToSet(Chunk(batch) \o pending) = ToSet(Chunk(batch)) \cup ToSet(pending)
        /\ Distinct(Chunk(batch) \o pending)
    <3>1. ToSet(Chunk(batch)) \cap ToSet(pending) = {}
      BY <1>t, <1>c DEF HeldOnce
    <3> QED
      BY <1>p, <1>c, <3>1, Concatenated
  <2>4. ClientTypeOK'
    BY <1>t, <1>e, <2>1, <2>2, <2>3 DEF ClientTypeOK
  <2>5. HeldOnce'
    BY <1>t, <1>e, <1>c, <2>1, <2>2, <2>3 DEF HeldOnce
  <2>6. Held' \subseteq Held
    BY <1>e, <1>c, <2>1, <2>2, <2>3 DEF Held
  <2> QED
    BY <2>1, <2>4, <2>5, <2>6, NothingNew
<1>9. CASE Outage
  <2>1. /\ UNCHANGED <<pending, buffered, spool, torn, tracked, echoed, answered, spooled>>
        /\ attempt' = 0 /\ batch' = <<>> /\ pc' = "idle" /\ faulty' = TRUE
    BY <1>9 DEF Outage
  <2>2. ClientTypeOK' /\ HeldOnce' /\ Held' \subseteq Held
    BY <1>t, <1>e, <2>1 DEF ClientTypeOK, HeldOnce, Held
  <2> QED
    BY <2>1, <2>2, NothingNew
<1>10. CASE Spool
  <2>1. /\ UNCHANGED <<pending, attempt, buffered, torn, tracked, echoed, answered, faulty>>
        /\ spool' = spool \o Chunk(batch) /\ spooled' = spooled \cup ToSet(Chunk(batch))
        /\ batch' = Rest(batch) /\ pc' \in {"idle", "send"} /\ pc = "spool"
    BY <1>10 DEF Spool
  <2>2. /\ spool \o Chunk(batch) \in Seq(Events)
        /\ ToSet(spool \o Chunk(batch)) = ToSet(spool) \cup ToSet(Chunk(batch))
        /\ Distinct(spool \o Chunk(batch))
    <3>1. ToSet(spool) \cap ToSet(Chunk(batch)) = {}
      BY <1>t, <1>c, <2>1 DEF HeldOnce
    <3> QED
      BY <1>p, <1>c, <3>1, Concatenated
  <2>3. ClientTypeOK'
    BY <1>t, <1>c, <2>1, <2>2 DEF ClientTypeOK
  <2>4. HeldOnce'
    BY <1>t, <1>c, <2>1, <2>2 DEF HeldOnce
  <2>5. Held' \subseteq Held
    BY <1>c, <2>1, <2>2 DEF Held
  <2> QED
    BY <2>1, <2>3, <2>4, <2>5, NothingNew
<1>11. CASE Crash
  <2>1. /\ UNCHANGED <<buffered, tracked, echoed, answered, spooled>>
        /\ pc' = "idle" /\ pending' = <<>> /\ batch' = <<>> /\ attempt' = 0 /\ faulty' = TRUE
    BY <1>11 DEF Crash
  <2>2. /\ spool' \in Seq(Events) /\ Distinct(spool') /\ torn' \in BOOLEAN
        /\ ToSet(spool') \subseteq ToSet(spool) \cup ToSet(batch)
    <3>1. CASE UNCHANGED file
      BY <3>1, <1>t, <1>p DEF ClientTypeOK
    <3>2. ASSUME pc = "spool", NEW n \in 0..Len(Chunk(batch)),
                 spool' = spool \o SubSeq(Chunk(batch), 1, n), torn' \in BOOLEAN
          PROVE  /\ spool' \in Seq(Events) /\ Distinct(spool') /\ torn' \in BOOLEAN
                 /\ ToSet(spool') \subseteq ToSet(spool) \cup ToSet(batch)
      <4> DEFINE c == SubSeq(Chunk(batch), 1, n)
      <4>0. Len(Chunk(batch)) \in Nat
        BY <1>c, Elements
      <4>1. c \in Seq(Events) /\ ToSet(c) = {Chunk(batch)[i] : i \in 1..n} /\ Distinct(c)
        BY <1>c, <4>0, Part
      <4>2. ToSet(c) \subseteq ToSet(Chunk(batch))
        BY <4>0, <4>1, <1>c, Elements
      <4>3. ToSet(spool) \cap ToSet(c) = {}
        BY <1>t, <1>c, <3>2, <4>2 DEF HeldOnce
      <4> HIDE DEF c
      <4>4. spool \o c \in Seq(Events) /\ ToSet(spool \o c) = ToSet(spool) \cup ToSet(c) /\ Distinct(spool \o c)
        BY <1>p, <4>1, <4>3, Concatenated
      <4> QED
        BY <3>2, <4>2, <4>4, <1>c DEF c
    <3> QED
      BY <1>11, <3>1, <3>2 DEF Crash
  <2>3. ClientTypeOK' /\ HeldOnce' /\ Held' \subseteq Held
    BY <1>t, <1>e, <2>1, <2>2 DEF ClientTypeOK, HeldOnce, Held
  <2> QED
    BY <2>1, <2>3, NothingNew
<1>12. CASE UNCHANGED vars
  <2>1. ClientTypeOK' /\ HeldOnce' /\ Held' = Held /\ UNCHANGED <<answered, tracked, echoed>>
    BY <1>12, <1>t DEF vars, ClientTypeOK, HeldOnce, Held
  <2> QED
    BY <2>1, NothingNew
<1> QED
  BY <1>1, <1>2, <1>3, <1>4, <1>5, <1>6, <1>7, <1>8, <1>9, <1>10, <1>11, <1>12 DEF Next, Step

\* The client alone: what the server has answered is nowhere in the client, not
\* even after a crash that leaves half of a chunk in the buffer file.
THEOREM ClientAnsweredOnce == Spec => []AnsweredIsDone
<1>1. ClientInv => AnsweredIsDone
  BY DEF ClientInv
<1> QED
  BY <1>1, ClientInit, ClientNext, PTL DEF Spec

-------------------------------------------------------------------------------
(* What the client keeps *)

\* A client with a buffer file that has met no crash and no outage still has every
\* event that it was given for delivery and that the server has not answered.
NothingLost == buffered /\ ~faulty => tracked \subseteq Held \cup answered

\* Where the events of a call are: half a line is left by a crash only, no batch
\* outlives its call, the file is truncated when the batch has its events, and
\* echo sends what is no longer asked to be delivered.
CallKeeps ==
    /\ torn => faulty
    /\ pc = "idle" => batch = <<>>
    /\ pc = "truncate" => ToSet(spool) \subseteq ToSet(batch)
    /\ pc = "echo" => ToSet(batch) \cap tracked = {}

KeepInv == CallKeeps /\ NothingLost

\* At the start nothing was given to the client.
LEMMA KeepInit == Init => KeepInv
  BY DEF Init, KeepInv, CallKeeps, NothingLost

\* flush moves the queue into the batch; no call was in progress.
LEMMA BeginFlushKeeps ==
    ASSUME KeepInv, ClientTypeOK, pc = "idle", NEW q \in Seq(Events),
           tracked' \subseteq tracked \cup ToSet(q), ToSet(pending) \subseteq ToSet(q),
           BeginFlush(q), UNCHANGED <<buffered, file, answered, faulty>>
    PROVE  KeepInv'
<1>1. /\ pending' = <<>> /\ batch' = q /\ batch = <<>>
      /\ UNCHANGED <<spool, torn, buffered, answered, faulty>>
      /\ pc' \in {"idle", "read", "send"} /\ (pc' = "idle" => q = <<>>)
  BY DEF BeginFlush, file, KeepInv, CallKeeps
<1>2. ToSet(pending') = {} /\ ToSet(batch) = {}
  BY <1>1, Empty
<1>3. CallKeeps'
  BY <1>1 DEF KeepInv, CallKeeps
<1>4. NothingLost'
  BY <1>1, <1>2 DEF KeepInv, NothingLost, Held
<1> QED
  BY <1>3, <1>4 DEF KeepInv

\* Every step of the client keeps what it was given.
LEMMA KeepNext == ClientInv /\ KeepInv /\ [Next]_vars => KeepInv'
<1> SUFFICES ASSUME ClientInv, KeepInv, [Next]_vars
             PROVE  KeepInv'
  OBVIOUS
<1> USE DEF memory, file, history
<1>k. CallKeeps /\ NothingLost
  BY DEF KeepInv
<1>t. /\ ClientTypeOK /\ HeldOnce
      /\ pending \in Seq(Events) /\ batch \in Seq(Events) /\ spool \in Seq(Events)
  BY DEF ClientInv, ClientTypeOK
<1>e. ToSet(<<>>) = {}
  BY Empty
<1>c. /\ Chunk(batch) \in Seq(Events)
      /\ ToSet(batch) \subseteq ToSet(Chunk(batch)) \cup ToSet(Rest(batch))
      /\ ToSet(Rest(batch)) \subseteq ToSet(batch)
  BY <1>t, Chunked
<1>1. ASSUME NEW e \in Events, Track(e)
      PROVE  KeepInv'
  <2> DEFINE q == Append(pending, e)
  <2>1. q \in Seq(Events) /\ ToSet(q) = ToSet(pending) \cup {e}
    BY <1>t, Appended
  <2>2. /\ pc = "idle" /\ tracked' = tracked \cup {e}
        /\ UNCHANGED <<buffered, spool, torn, answered, faulty>>
    BY <1>1 DEF Track
  <2>3. BeginFlush(q) \/ (pending' = q /\ UNCHANGED <<batch, pc, attempt>>)
    BY <1>1 DEF Track
  <2> HIDE DEF q
  <2>4. CASE BeginFlush(q)
    BY <1>t, <2>1, <2>2, <2>4, BeginFlushKeeps
  <2>5. CASE pending' = q /\ UNCHANGED <<batch, pc, attempt>>
    <3>1. CallKeeps'
      BY <1>k, <2>2, <2>5 DEF CallKeeps
    <3>2. NothingLost'
      BY <1>k, <2>1, <2>2, <2>5 DEF NothingLost, Held
    <3> QED
      BY <3>1, <3>2 DEF KeepInv
  <2> QED
    BY <2>3, <2>4, <2>5
<1>2. CASE Flush
  <2>1. pc = "idle" /\ BeginFlush(pending) /\ UNCHANGED <<buffered, file, answered, faulty, tracked>>
    BY <1>2 DEF Flush
  <2> QED
    BY <1>t, <2>1, BeginFlushKeeps
<1>3. CASE Echo
  <2>1. /\ pc = "idle" /\ batch' = pending /\ pending' = <<>> /\ pc' = "echo"
        /\ tracked' = tracked \ ToSet(pending)
        /\ UNCHANGED <<buffered, spool, torn, answered, faulty>>
    BY <1>3 DEF Echo
  <2>2. CallKeeps'
    BY <1>k, <2>1 DEF CallKeeps
  <2>3. ToSet(batch) = {}
    BY <1>k, <1>e, <2>1 DEF CallKeeps
  <2>4. NothingLost'
    BY <1>k, <2>1, <2>3 DEF NothingLost, Held
  <2> QED
    BY <2>2, <2>4 DEF KeepInv
<1>4. CASE ReadSpool
  <2>1. UNCHANGED <<pending, buffered, spool, torn, tracked, answered, faulty>>
    BY <1>4 DEF ReadSpool
  <2>2. ToSet(spool \o batch) = ToSet(spool) \cup ToSet(batch)
    BY <1>t, Concatenated
  <2>3. \/ torn /\ batch' = <<>> /\ pc' = "idle"
        \/ batch' = spool \o batch /\ pc' = "truncate"
    BY <1>4 DEF ReadSpool
  <2>4. CallKeeps'
    BY <1>k, <2>1, <2>2, <2>3 DEF CallKeeps
  <2>5. NothingLost'
    BY <1>k, <2>1, <2>2, <2>3 DEF NothingLost, Held, CallKeeps
  <2> QED
    BY <2>4, <2>5 DEF KeepInv
<1>5. CASE TruncateSpool
  <2>1. /\ pc = "truncate" /\ spool' = <<>> /\ torn' = FALSE /\ pc' \in {"idle", "send"}
        /\ pc' = "idle" => batch = <<>>
        /\ UNCHANGED <<pending, batch, buffered, tracked, answered, faulty>>
    BY <1>5 DEF TruncateSpool
  <2>2. CallKeeps'
    BY <1>k, <2>1 DEF CallKeeps
  <2>3. ToSet(spool) \subseteq ToSet(batch)
    BY <1>k, <2>1 DEF CallKeeps
  <2>4. NothingLost'
    BY <1>k, <1>e, <2>1, <2>3 DEF NothingLost, Held
  <2> QED
    BY <2>2, <2>4 DEF KeepInv
<1>6. CASE Answered
  <2>1. /\ UNCHANGED <<pending, buffered, spool, torn, tracked, faulty>>
        /\ pc \in {"send", "echo"} /\ pc' \in {"idle", "send"} /\ (pc' = "idle" => batch' = <<>>)
    BY <1>6 DEF Answered
  <2>2. \/ batch' = Rest(batch) /\ answered' = answered \cup ToSet(Chunk(batch))
        \/ pc = "echo" /\ batch' = <<>> /\ answered' = answered
    BY <1>6 DEF Answered, Sent
  <2>3. CallKeeps'
    BY <1>k, <2>1 DEF CallKeeps
  <2>4. CASE batch' = Rest(batch) /\ answered' = answered \cup ToSet(Chunk(batch))
    BY <1>k, <1>c, <2>1, <2>3, <2>4 DEF NothingLost, Held, KeepInv
  <2>5. CASE pc = "echo" /\ batch' = <<>> /\ answered' = answered
    <3>1. ToSet(batch) \cap tracked = {}
      BY <1>k, <2>5 DEF CallKeeps
    <3> QED
      BY <1>k, <2>1, <2>3, <2>5, <3>1 DEF NothingLost, Held, KeepInv
  <2> QED
    BY <2>2, <2>4, <2>5
<1>7. CASE Retry
  <2>1. UNCHANGED <<pending, batch, pc, buffered, spool, torn, tracked, answered, faulty>>
    BY <1>7 DEF Retry
  <2> QED
    BY <1>k, <2>1 DEF KeepInv, CallKeeps, NothingLost, Held
<1>8. CASE GiveUp
  <2>1. UNCHANGED <<buffered, spool, torn, tracked, answered, faulty>>
    BY <1>8 DEF GiveUp
  <2>2. \/ pc' = "spool" /\ UNCHANGED <<pending, batch>>
        \/ pc' = "idle" /\ batch' = <<>> /\ ~buffered
        \/ pc = "echo" /\ pc' = "idle" /\ batch' = <<>> /\ UNCHANGED pending
    BY <1>8 DEF GiveUp
  <2>3. CallKeeps'
    BY <1>k, <2>1, <2>2 DEF CallKeeps
  <2>4. pc = "echo" => ToSet(batch) \cap tracked = {}
    BY <1>k DEF CallKeeps
  <2>5. NothingLost'
    BY <1>k, <2>1, <2>2, <2>4 DEF NothingLost, Held
  <2> QED
    BY <2>3, <2>5 DEF KeepInv
<1>9. CASE Outage
  <2>1. faulty' = TRUE /\ batch' = <<>> /\ pc' = "idle"
    BY <1>9 DEF Outage
  <2> QED
    BY <2>1 DEF KeepInv, CallKeeps, NothingLost
<1>10. CASE Spool
  <2>1. /\ UNCHANGED <<pending, buffered, torn, tracked, answered, faulty>>
        /\ spool' = spool \o Chunk(batch)
        /\ batch' = Rest(batch) /\ pc' \in {"idle", "send"} /\ (pc' = "idle" => batch' = <<>>)
    BY <1>10 DEF Spool
  <2>2. ToSet(spool \o Chunk(batch)) = ToSet(spool) \cup ToSet(Chunk(batch))
    BY <1>t, <1>c, Concatenated
  <2>3. CallKeeps'
    BY <1>k, <2>1 DEF CallKeeps
  <2>4. NothingLost'
    BY <1>k, <1>c, <2>1, <2>2 DEF NothingLost, Held
  <2> QED
    BY <2>3, <2>4 DEF KeepInv
<1>11. CASE Crash
  <2>1. faulty' = TRUE /\ batch' = <<>> /\ pc' = "idle"
    BY <1>11 DEF Crash
  <2> QED
    BY <2>1 DEF KeepInv, CallKeeps, NothingLost
<1>12. CASE UNCHANGED vars
  <2>1. UNCHANGED <<pending, batch, pc, buffered, spool, torn, tracked, answered, faulty>>
    BY <1>12 DEF vars
  <2> QED
    BY <1>k, <2>1 DEF KeepInv, CallKeeps, NothingLost, Held
<1> QED
  BY <1>1, <1>2, <1>3, <1>4, <1>5, <1>6, <1>7, <1>8, <1>9, <1>10, <1>11, <1>12 DEF Next, Step

\* The client alone: however many chunks fail, are retried, spooled and replayed,
\* a buffered client that neither crashes nor meets an outage loses no event.
THEOREM ClientKeeps == Spec => []NothingLost
<1>1. Init => ClientInv /\ KeepInv
  BY ClientInit, KeepInit
<1>2. ClientInv /\ KeepInv /\ [Next]_vars => ClientInv' /\ KeepInv'
  BY ClientNext, KeepNext
<1>3. KeepInv => NothingLost
  BY DEF KeepInv
<1> QED
  BY <1>1, <1>2, <1>3, PTL DEF Spec

-------------------------------------------------------------------------------
(* The client and the server *)

\* Every step of the system is a step of the client, or leaves it alone.
LEMMA SysStepIsClientStep == [SysNext]_sysvars => [Next]_vars
<1> SUFFICES ASSUME [SysNext]_sysvars
             PROVE  [Next]_vars
  OBVIOUS
<1>1. CASE Call /\ UNCHANGED <<request, server>>
  BY <1>1 DEF Call, Next
<1>2. CASE Progress
  <2>1. CASE ClientStep
    BY <2>1 DEF ClientStep, Local, Next, Step
  <2>2. CASE Send \/ Serve
    BY <2>2 DEF Send, Serve
  <2>3. CASE Respond \/ RespondError \/ Disconnect
    BY <2>3 DEF Respond, RespondError, Disconnect, Next, Step
  <2> QED
    BY <1>2, <2>1, <2>2, <2>3 DEF Progress
<1>3. CASE \E r \in abandoned : ServeAbandoned(r) \/ FailAbandoned(r)
  BY <1>3 DEF ServeAbandoned, FailAbandoned
<1>4. CASE \E e \in Events : Fold(e)
  BY <1>4 DEF Fold
<1>5. CASE Die
  BY <1>5 DEF Die, Next
<1>6. CASE UNCHANGED sysvars
  BY <1>6 DEF sysvars
<1> QED
  BY <1>1, <1>2, <1>3, <1>4, <1>5, <1>6 DEF SysNext

\* The client in the system behaves as the client specification says: connecting
\* it to the write plane adds no behaviour to it.
THEOREM SystemClient == SysSpec => Spec
<1>1. SysInit => Init
  BY DEF SysInit
<1> QED
  BY <1>1, SysStepIsClientStep, PTL DEF SysSpec, Spec

\* An event that the server has answered is nowhere in the client of the system:
\* no later flush, replay of the buffer file or restart sends it again.
THEOREM AnsweredOnce == SysSpec => []AnsweredIsDone
  BY SystemClient, ClientAnsweredOnce, PTL

\* The awaited request is the chunk, or the echo, that the client is sending:
\* what is not waiting in it any more is stored or in quarantine.
AwaitedIsSent ==
    request # None =>
        /\ pc \in {"send", "echo"}
        /\ request \in Seq(Events)
        /\ ToSet(Sent) \subseteq facts \cup quarantined \cup ToSet(request)

SysInv == ClientInv /\ AwaitedIsSent /\ AnsweredIsStored

\* Nothing leaves the store or the quarantine.
LEMMA StoreGrows ==
    ASSUME [SysNext]_sysvars
    PROVE  facts \cup quarantined \subseteq facts' \cup quarantined'
<1>1. ASSUME NEW e, Process(e)
      PROVE  facts \cup quarantined \subseteq facts' \cup quarantined'
  BY <1>1 DEF Process
<1>2. UNCHANGED <<facts, quarantined>> => facts \cup quarantined \subseteq facts' \cup quarantined'
  OBVIOUS
<1>3. CASE Call /\ UNCHANGED <<request, server>>
  BY <1>3, <1>2 DEF server
<1>4. CASE Progress
  BY <1>4, <1>1, <1>2 DEF Progress, ClientStep, Send, Serve, Respond, RespondError, Disconnect, Abandon, server
<1>5. CASE \E r \in abandoned : ServeAbandoned(r) \/ FailAbandoned(r)
  BY <1>5, <1>1, <1>2 DEF ServeAbandoned, FailAbandoned
<1>6. CASE (\E e \in Events : Fold(e)) \/ Die \/ UNCHANGED sysvars
  BY <1>6, <1>2 DEF Fold, Die, Abandon, server, sysvars
<1> QED
  BY <1>3, <1>4, <1>5, <1>6 DEF SysNext

\* Every step keeps the awaited request and the client together.
LEMMA AwaitedNext ==
    ASSUME ClientInv, AwaitedIsSent, [SysNext]_sysvars
    PROVE  AwaitedIsSent'
<1>g. facts \cup quarantined \subseteq facts' \cup quarantined'
  BY StoreGrows
<1>q. UNCHANGED vars => UNCHANGED <<pc, batch, Sent>>
  BY DEF vars, memory, Sent
<1>1. CASE request' = None
  BY <1>1 DEF AwaitedIsSent
<1>2. CASE request' = request /\ UNCHANGED vars
  BY <1>2, <1>g, <1>q DEF AwaitedIsSent
<1>3. CASE request' = request /\ pc \notin {"send", "echo"}
  BY <1>3 DEF AwaitedIsSent
<1>4. CASE Send
  <2>1. /\ pc \in {"send", "echo"} /\ request' = Sent /\ UNCHANGED vars
    BY <1>4 DEF Send
  <2>2. Sent \in Seq(Events)
    BY Chunked DEF Sent, ClientInv, ClientTypeOK
  <2> QED
    BY <2>1, <2>2, <1>q DEF AwaitedIsSent
<1>5. CASE Serve
  <2>1. /\ request # None /\ request # <<>> /\ request' = Tail(request) /\ UNCHANGED vars
        /\ Process(Head(request))
    BY <1>5 DEF Serve
  <2>2. /\ pc \in {"send", "echo"} /\ request \in Seq(Events)
        /\ ToSet(Sent) \subseteq facts \cup quarantined \cup ToSet(request)
    BY <2>1 DEF AwaitedIsSent
  <2>3. Tail(request) \in Seq(Events) /\ ToSet(request) \subseteq {Head(request)} \cup ToSet(Tail(request))
    <3>1. PICK r \in Seq(Events) : r = request /\ r # <<>>
      BY <2>1, <2>2
    <3>2. PICK t \in Seq(Events) : t = Tail(r)
      BY <3>1, HeadTailProperties
    <3>3. /\ Len(r) \in Nat \ {0} /\ Head(r) = r[1] /\ Len(t) = Len(r) - 1
          /\ \A i \in 1..Len(t) : t[i] = r[i + 1]
      BY <3>1, <3>2
    <3>4. ToSet(r) = {r[n] : n \in 1..Len(r)} /\ ToSet(t) = {t[n] : n \in 1..Len(t)}
      BY Elements
    <3>5. ASSUME NEW n \in 1..Len(r)
          PROVE  r[n] \in {Head(r)} \cup ToSet(t)
      <4>1. CASE n = 1
        BY <4>1, <3>3
      <4>2. CASE n # 1
        <5>1. n - 1 \in 1..Len(t) /\ t[n - 1] = r[n]
          BY <4>2, <3>3
        <5> QED
          BY <5>1, <3>4
      <4> QED
        BY <4>1, <4>2
    <3>6. ToSet(r) \subseteq {Head(r)} \cup ToSet(t)
      BY <3>4, <3>5
    <3> QED
      BY <3>1, <3>2, <3>6
  <2>4. Head(request) \in facts' \cup quarantined'
    BY <2>1 DEF Process
  <2> QED
    BY <1>g, <1>q, <2>1, <2>2, <2>3, <2>4 DEF AwaitedIsSent
<1> QED
  BY <1>1, <1>2, <1>3, <1>4, <1>5 DEF SysNext, Call, Track, Flush, Echo, Progress, ClientStep, Local,
     ReadSpool, TruncateSpool, Spool, Respond, RespondError, Disconnect, Die, Abandon,
     ServeAbandoned, FailAbandoned, Fold, sysvars

\* Only an answer to a chunk makes its events answered.
LEMMA SysStepAnswers ==
    ASSUME [SysNext]_sysvars
    PROVE  Respond \/ UNCHANGED answered
<1> USE DEF history, vars
<1>1. CASE Call /\ UNCHANGED <<request, server>>
  BY <1>1 DEF Call, Track, Flush, Echo
<1>2. CASE Progress
  BY <1>2 DEF Progress, ClientStep, Local, ReadSpool, TruncateSpool, Spool, Send, Serve,
     RespondError, Retry, GiveUp, Disconnect, Outage
<1>3. CASE (\E r \in abandoned : ServeAbandoned(r) \/ FailAbandoned(r)) \/ \E e \in Events : Fold(e)
  BY <1>3 DEF ServeAbandoned, FailAbandoned, Fold
<1>4. CASE Die
  BY <1>4 DEF Die, Crash
<1>5. CASE UNCHANGED sysvars
  BY <1>5 DEF sysvars
<1> QED
  BY <1>1, <1>2, <1>3, <1>4, <1>5 DEF SysNext

\* The system starts with nothing sent and nothing stored.
LEMMA SysInvInit == SysInit => SysInv
<1> SUFFICES ASSUME SysInit PROVE SysInv
  OBVIOUS
<1>1. ClientInv
  BY ClientInit DEF SysInit
<1>2. AwaitedIsSent /\ AnsweredIsStored
  BY DEF SysInit, Init, AwaitedIsSent, AnsweredIsStored
<1> QED
  BY <1>1, <1>2 DEF SysInv

\* Every step of the system keeps what is answered in the store.
LEMMA SysInvNext == SysInv /\ [SysNext]_sysvars => SysInv'
<1> SUFFICES ASSUME SysInv, [SysNext]_sysvars
             PROVE  SysInv'
  OBVIOUS
<1>1. ClientInv /\ AwaitedIsSent /\ AnsweredIsStored
  BY DEF SysInv
<1>2. ClientInv'
  BY <1>1, SysStepIsClientStep, ClientNext
<1>3. AwaitedIsSent'
  BY <1>1, AwaitedNext
<1>4. facts \cup quarantined \subseteq facts' \cup quarantined'
  BY StoreGrows
<1>5. CASE Respond
  <2>1. request = <<>> /\ request # None /\ answered' \subseteq answered \cup ToSet(Sent)
    <3>1. <<>> \in Seq(Events)
      BY Empty
    <3> QED
      BY <1>5, <3>1, SystemAssumption DEF Respond, Answered
  <2>2. ToSet(Sent) \subseteq facts \cup quarantined
    BY <1>1, <2>1, Empty DEF AwaitedIsSent
  <2> QED
    BY <1>1, <1>2, <1>3, <1>4, <2>1, <2>2 DEF SysInv, AnsweredIsStored
<1>6. CASE UNCHANGED answered
  BY <1>1, <1>2, <1>3, <1>4, <1>6 DEF SysInv, AnsweredIsStored
<1> QED
  BY <1>5, <1>6, SysStepAnswers

\* What the client has let go of because it was answered is in the witness store
\* or in quarantine: errors in the middle of a batch, requests that go on after
\* their client left, deaths and replays of the buffer file do not separate them.
THEOREM AnsweredStored == SysSpec => []AnsweredIsStored
<1>1. SysInv => AnsweredIsStored
  BY DEF SysInv
<1> QED
  BY <1>1, SysInvInit, SysInvNext, PTL DEF SysSpec

-------------------------------------------------------------------------------
(* End to end *)

\* What a buffered client was given for delivery, and has met no crash and no
\* outage with, is in the client, in the store or in quarantine.
Accounted ==
    buffered /\ ~faulty => tracked \subseteq Held \cup facts \cup quarantined

\* No event is lost between the application and the store, whatever errors the
\* server answers, in whatever state of a batch.
THEOREM NothingLostEndToEnd == SysSpec => []Accounted
<1>1. NothingLost /\ AnsweredIsStored => Accounted
  BY DEF NothingLost, AnsweredIsStored, Accounted
<1> QED
  BY <1>1, SystemClient, ClientKeeps, AnsweredStored, PTL

-------------------------------------------------------------------------------
(* The store, as the client sees it *)

\* What the answers have told the client: the facts of the answered events are in
\* the store.  Whether this request or an earlier one put them there, an
\* answer to a repeated chunk does not say.
Told == {[key |-> e, status |-> "duplicate"] : e \in answered \ Malformed}

Store == INSTANCE WitnessStore
         WITH Keys <- Events, Answers <- [key : Events, status : {"duplicate"}], told <- Told

\* The server keeps events apart: only malformed ones are in quarantine, and the
\* requests nobody waits for have events left.
ServerTypeOK ==
    /\ facts \subseteq Events
    /\ quarantined \subseteq Malformed
    /\ abandoned \subseteq Seq(Events) \ {<<>>}

\* Storing an event is storing a fact, or changes nothing in the store.
LEMMA ProcessWitnesses ==
    ASSUME NEW e \in Events, Process(e), UNCHANGED answered
    PROVE  [Store!Next]_(Store!vars)
<1>1. Told' = Told
  BY DEF Told
<1>2. CASE facts' = facts
  BY <1>1, <1>2 DEF Store!vars
<1>3. CASE e \notin facts /\ facts' = facts \cup {e}
  BY <1>1, <1>3 DEF Store!Next, Store!Witness
<1> QED
  BY <1>2, <1>3 DEF Process

\* The events of a request that has some left: the first, and the others.
LEMMA HeadAndTail ==
    ASSUME NEW r \in Seq(Events), r # <<>>
    PROVE  Head(r) \in Events /\ Tail(r) \in Seq(Events)
  BY HeadTailProperties

StoreInv == SysInv /\ ServerTypeOK

\* Every step leaves the server's events apart.
LEMMA ServerTypeNext ==
    ASSUME StoreInv, [SysNext]_sysvars
    PROVE  ServerTypeOK'
<1> USE DEF server
<1>t. /\ facts \subseteq Events /\ quarantined \subseteq Malformed
      /\ abandoned \subseteq Seq(Events) \ {<<>>}
  BY DEF StoreInv, ServerTypeOK
<1>r. request # None => request \in Seq(Events)
  BY DEF StoreInv, SysInv, AwaitedIsSent
<1>p. ASSUME NEW e \in Events, Process(e)
      PROVE  facts' \subseteq Events /\ quarantined' \subseteq Malformed
  BY <1>t, <1>p DEF Process
<1>1. CASE UNCHANGED <<abandoned, facts, quarantined>>
  BY <1>t, <1>1 DEF ServerTypeOK
<1>2. CASE Serve
  <2>1. request # None /\ request # <<>> /\ Process(Head(request)) /\ UNCHANGED abandoned
    BY <1>2 DEF Serve
  <2>2. Head(request) \in Events
    BY <1>r, <2>1, HeadAndTail
  <2> QED
    BY <1>t, <1>p, <2>1, <2>2 DEF ServerTypeOK
<1>3. ASSUME NEW r \in abandoned, ServeAbandoned(r)
      PROVE  ServerTypeOK'
  <2>1. Process(Head(r)) /\ abandoned' = (abandoned \ {r}) \cup ({Tail(r)} \ {<<>>})
    BY <1>3 DEF ServeAbandoned
  <2>2. Head(r) \in Events /\ Tail(r) \in Seq(Events)
    BY <1>t, HeadAndTail
  <2>3. facts' \subseteq Events /\ quarantined' \subseteq Malformed
    BY <1>p, <2>1, <2>2
  <2>4. abandoned' \subseteq Seq(Events) \ {<<>>}
    BY <1>t, <2>1, <2>2
  <2> QED
    BY <2>3, <2>4 DEF ServerTypeOK
<1>4. ASSUME NEW r \in abandoned, FailAbandoned(r)
      PROVE  ServerTypeOK'
  BY <1>t, <1>4 DEF FailAbandoned, ServerTypeOK
<1>5. CASE Abandon
  BY <1>t, <1>r, <1>5 DEF Abandon, ServerTypeOK
<1> QED
  BY <1>1, <1>2, <1>3, <1>4, <1>5 DEF SysNext, Progress, ClientStep, Send, Respond, RespondError,
     Disconnect, Die, Fold, sysvars

\* An answered chunk tells the client what is in the store.
LEMMA RespondTells ==
    ASSUME StoreInv, StoreInv', Respond
    PROVE  Store!Tell
<1>1. UNCHANGED facts /\ answered \subseteq answered'
  BY DEF Respond, Answered, server
<1>2. answered' \subseteq facts' \cup quarantined' /\ quarantined' \subseteq Malformed /\ facts' \subseteq Events
  BY DEF StoreInv, SysInv, AnsweredIsStored, ServerTypeOK
<1>3. Told \subseteq Told'
  BY <1>1 DEF Told
<1>4. \A a \in Told' : a.key \in facts /\ a.status = "duplicate" /\ a \in [key : Events, status : {"duplicate"}]
  BY <1>1, <1>2 DEF Told
<1> QED
  BY <1>1, <1>3, <1>4 DEF Store!Tell, Store!Claims, Store!Accepts

\* Every step of the system is a step of the store, or leaves it alone.
LEMMA SysStepIsStoreStep ==
    ASSUME StoreInv, StoreInv', [SysNext]_sysvars
    PROVE  [Store!Next]_(Store!vars)
<1> USE DEF server
<1>r. /\ request # None => request \in Seq(Events)
      /\ abandoned \subseteq Seq(Events) \ {<<>>}
  BY DEF StoreInv, SysInv, AwaitedIsSent, ServerTypeOK
<1>1. CASE UNCHANGED <<facts, answered>>
  BY <1>1 DEF Store!vars, Told
<1>2. CASE Respond
  BY <1>2, RespondTells DEF Store!Next
<1>3. CASE Serve
  <2>1. request # None /\ request # <<>> /\ Process(Head(request)) /\ UNCHANGED vars
    BY <1>3 DEF Serve
  <2>2. Head(request) \in Events /\ UNCHANGED answered
    BY <1>r, <2>1, HeadAndTail DEF vars, history
  <2> QED
    BY <2>1, <2>2, ProcessWitnesses
<1>4. ASSUME NEW r \in abandoned, ServeAbandoned(r)
      PROVE  [Store!Next]_(Store!vars)
  <2>1. Process(Head(r)) /\ UNCHANGED answered
    BY <1>4 DEF ServeAbandoned, vars, history
  <2>2. Head(r) \in Events
    BY <1>r, HeadAndTail
  <2> QED
    BY <2>1, <2>2, ProcessWitnesses
<1>5. Respond \/ UNCHANGED answered
  BY SysStepAnswers
<1>6. \/ UNCHANGED facts \/ Respond \/ Serve
      \/ \E r \in abandoned : ServeAbandoned(r)
  BY DEF SysNext, Progress, ClientStep, Send, RespondError, Disconnect, Abandon, FailAbandoned, Die, Fold, sysvars
<1> QED
  BY <1>1, <1>2, <1>3, <1>4, <1>5, <1>6

\* The store of the composition is the store that the write plane is proved to
\* implement: to the client, the server's requests, awaited or not, are
\* submissions to one witness store whose answers are true.
THEOREM SystemStore == SysSpec => Store!Spec
<1>1. SysInit => StoreInv /\ Store!Init
  <2> SUFFICES ASSUME SysInit PROVE StoreInv /\ Store!Init
    OBVIOUS
  <2>1. SysInv
    BY SysInvInit
  <2>2. ServerTypeOK
    BY DEF SysInit, ServerTypeOK
  <2>3. Store!Init
    BY DEF SysInit, Init, Store!Init, Told
  <2> QED
    BY <2>1, <2>2, <2>3 DEF StoreInv
<1>2. StoreInv /\ [SysNext]_sysvars => StoreInv'
  BY SysInvNext, ServerTypeNext DEF StoreInv
<1>3. StoreInv /\ StoreInv' /\ [SysNext]_sysvars => [Store!Next]_(Store!vars)
  BY SysStepIsStoreStep
<1> QED
  BY <1>1, <1>2, <1>3, PTL DEF SysSpec, Store!Spec

===============================================================================
