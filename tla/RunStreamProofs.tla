-------------------------- MODULE RunStreamProofs ---------------------------
(* Proofs about RunStream for any outputs of the run, size of batches and   *)
(* number of lost connections, errors, timeouts, reloads and expiries.     *)
EXTENDS RunStream, FiniteSetTheorems, SequenceTheorems, TLAPS

Terminal == Run!Terminal
Entries == UNION {{es[i] : i \in DOMAIN es} : es \in Outputs}
Frames == [type : {e.type : e \in Entries} \cup {"end", "error"}, seq : Nat]
Kept(i) == events[i].type # "metadata"

-----------------------------------------------------------------------------
(* The inductive invariant.                                                *)

(* The run: behind an end event no token follows, and its row is terminal. *)
RunOK ==
    /\ status \in {"absent"} \cup Run!Active \cup Terminal
    /\ events \in Seq(Entries)
    /\ \A i \in 1 .. Len(events) : Run!IsEnd(events[i]) =>
           status \in Terminal /\ \A j \in i .. Len(events) : ~Run!IsToken(events[j])

Typed ==
    /\ TypeOK
    /\ wire \in Seq(Frames) /\ applied \in Seq(Nat)
    /\ budget \in [Bounds -> Nat]

(* What the server has seen of the row is still so. *)
ServerKnows ==
    /\ rowSeen \in Terminal => status \in Terminal
    /\ server = "last" => rowSeen \in Terminal

(* Every token that is still there is behind the server's cursor. *)
NoMoreTokens == \A i \in base + 1 .. Len(events) : Run!IsToken(events[i]) => i <= lastSeq

(* A frame that was sent for an entry. *)
Proper(f) ==
    /\ f.seq \in cursor + 1 .. lastSeq
    /\ f.type = events[f.seq].type

(* A frame the server made up before it closed the stream. *)
LastWord(f) ==
    \/ f.type = "error" /\ f.seq = 0
    \/ f.type = "end" /\ NoMoreTokens /\ (f.seq = 0 \/ f.seq >= lastSeq)

IsLastWord(k) == k = Len(wire) /\ server = "closed" /\ LastWord(wire[k])

(* The frames on their way are those of entries behind the page's cursor,   *)
(* in order, and perhaps a last word.                                      *)
WireInOrder ==
    /\ \A k \in 1 .. Len(wire) : Proper(wire[k]) \/ IsLastWord(k)
    /\ \A k, l \in 1 .. Len(wire) : k < l => wire[k].seq < wire[l].seq \/ IsLastWord(l)

(* What the server has sent and the page has not applied is on its way. *)
WireIsComplete ==
    \A i \in base + 1 .. lastSeq :
        Kept(i) => i \in Applied \/ \E k \in 1 .. Len(wire) : wire[k].seq = i

Followed ==
    page = "open" =>
        /\ cursor <= lastSeq
        /\ WireInOrder /\ WireIsComplete
        /\ server = "last" => lastSeq = 0 /\ wire = <<>> /\ NoMoreTokens

(* Terminal frames tell the truth. *)
FramesTell ==
    \A k \in 1 .. Len(wire) :
        /\ wire[k].type = "end" => status \in Terminal
        /\ wire[k].type = "error" /\ wire[k].seq = 0 => budget["errors"] > 0

(* What the page has applied lies up to its cursor. *)
PageKnows ==
    /\ \A i \in 1 .. Len(applied) : applied[i] \in 1 .. cursor
    /\ page # "done" => how = "none"
    /\ page = "done" => how # "none"
    /\ page = "resume" => applied = <<>>

StreamInvariant ==
    /\ RunOK /\ Typed /\ ServerKnows /\ Followed /\ FramesTell /\ PageKnows
    /\ ExactReplay /\ EndHasTheAnswer /\ LeavesOnlyOver

-----------------------------------------------------------------------------
(* Finite sets of numbers, listed in ascending order.                      *)

(* Such a list exists: the place of a number in it is the number of those   *)
(* up to it.  It holds every number of the set.                            *)
LEMMA AscendingProperties ==
    ASSUME NEW S \in SUBSET Nat, IsFiniteSet(S)
    PROVE  /\ Cardinality(S) \in Nat
           /\ Ascending(S) \in [1 .. Cardinality(S) -> S]
           /\ \A i, j \in 1 .. Cardinality(S) : i < j => Ascending(S)[i] < Ascending(S)[j]
           /\ \A x \in S : \E i \in 1 .. Cardinality(S) : Ascending(S)[i] = x
<1> DEFINE n == Cardinality(S)
           Below(i) == {j \in S : j <= i}
           rank == [i \in S |-> Cardinality(Below(i))]
<1>1. n \in Nat /\ IsFiniteSet(1 .. n) /\ Cardinality(1 .. n) = n
  BY FS_CardinalityType, FS_Interval
<1>2. \A i \in S : IsFiniteSet(Below(i)) /\ rank[i] \in 1 .. n
  <2> TAKE i \in S
  <2>1. Below(i) \in SUBSET S /\ i \in Below(i)
    OBVIOUS
  <2>2. IsFiniteSet(Below(i)) /\ Cardinality(Below(i)) <= n
    BY <2>1, FS_Subset
  <2>3. Cardinality(Below(i)) \in Nat /\ Cardinality(Below(i)) # 0
    BY <2>1, <2>2, FS_CardinalityType, FS_EmptySet
  <2> QED
    BY <1>1, <2>2, <2>3
<1>3. \A i, j \in S : i < j => rank[i] < rank[j]
  <2> SUFFICES ASSUME NEW i \in S, NEW j \in S, i < j PROVE rank[i] < rank[j]
    OBVIOUS
  <2>1. Below(i) \in SUBSET Below(j) /\ Below(j) # Below(i)
    <3>1. j \in Below(j) /\ j \notin Below(i)
      OBVIOUS
    <3>2. \A x \in Below(i) : x \in Below(j)
      OBVIOUS
    <3> HIDE DEF Below
    <3> QED
      BY <3>1, <3>2
  <2>2. IsFiniteSet(Below(j))
    BY <1>2
  <2>3. /\ Cardinality(Below(i)) <= Cardinality(Below(j))
        /\ Cardinality(Below(j)) # Cardinality(Below(i))
    BY <2>1, <2>2, FS_Subset
  <2>4. rank[i] = Cardinality(Below(i)) /\ rank[j] = Cardinality(Below(j))
    OBVIOUS
  <2>5. rank[i] \in 1 .. n /\ rank[j] \in 1 .. n
    BY <1>2
  <2> HIDE DEF Below, rank
  <2> QED
    BY <1>1, <2>3, <2>4, <2>5
<1> HIDE DEF n, rank
<1>4. rank \in Surjection(S, 1 .. n)
  <2>1. rank \in [S -> 1 .. n]
    BY <1>2 DEF rank
  <2>2. rank \in Injection(S, 1 .. n)
    BY <1>1, <1>2, <1>3, <2>1 DEF Injection, IsInjective
  <2> QED
    BY <1>1, <2>2, FS_Injection DEF n
<1>5. \E s \in [1 .. n -> S] : \A i, j \in DOMAIN s : i < j => s[i] < s[j]
  <2> DEFINE inv == [k \in 1 .. n |-> CHOOSE i \in S : rank[i] = k]
  <2>1. \A k \in 1 .. n : inv[k] \in S /\ rank[inv[k]] = k
    <3> TAKE k \in 1 .. n
    <3>1. \E i \in S : rank[i] = k
      BY <1>4 DEF Surjection
    <3>2. inv[k] = CHOOSE i \in S : rank[i] = k
      OBVIOUS
    <3>3. \E i : i \in S /\ rank[i] = k
      BY <3>1
    <3>4. (CHOOSE i \in S : rank[i] = k) \in S /\ rank[CHOOSE i \in S : rank[i] = k] = k
      BY <3>3
    <3> HIDE DEF inv
    <3> QED
      BY <3>2, <3>4
  <2>2. inv \in [1 .. n -> S]
    BY <2>1
  <2>3. \A k, l \in 1 .. n : k < l => inv[k] < inv[l]
    <3> HIDE DEF inv
    <3> SUFFICES ASSUME NEW k \in 1 .. n, NEW l \in 1 .. n, k < l, ~(inv[k] < inv[l])
                 PROVE  FALSE
      OBVIOUS
    <3>1. inv[k] \in S /\ inv[l] \in S /\ rank[inv[k]] = k /\ rank[inv[l]] = l
      BY <2>1
    <3>2. inv[l] = inv[k] \/ inv[l] < inv[k]
      <4>1. inv[k] \in Nat /\ inv[l] \in Nat
        BY <3>1
      <4> QED
        BY <4>1
    <3>3. CASE inv[l] = inv[k]
      BY <1>1, <3>1, <3>3
    <3>4. CASE inv[l] < inv[k]
      <4>1. rank[inv[l]] < rank[inv[k]]
        BY <1>3, <3>1, <3>4
      <4> QED
        BY <1>1, <3>1, <4>1
    <3> QED
      BY <3>2, <3>3, <3>4
  <2> QED
    BY <2>2, <2>3
<1>6. /\ Ascending(S) \in [1 .. n -> S]
      /\ \A i, j \in 1 .. n : i < j => Ascending(S)[i] < Ascending(S)[j]
  BY <1>5 DEF Ascending, n
<1>7. Ascending(S) \in Injection(1 .. n, S)
  <2> DEFINE s == Ascending(S)
  <2> HIDE DEF s
  <2>1. s \in [1 .. n -> S] /\ \A i, j \in 1 .. n : i < j => s[i] < s[j]
    BY <1>6 DEF s
  <2>2. \A i, j \in 1 .. n : s[i] = s[j] => i = j
    <3> SUFFICES ASSUME NEW i \in 1 .. n, NEW j \in 1 .. n, i < j, s[i] = s[j] PROVE FALSE
      BY <1>1
    <3>1. s[i] < s[j] /\ s[i] \in Nat
      BY <2>1
    <3> QED
      BY <3>1
  <2>3. s \in Injection(1 .. n, S)
    BY <2>1, <2>2 DEF Injection, IsInjective
  <2> QED
    BY <2>3 DEF s
<1>8. Ascending(S) \in Surjection(1 .. n, S)
  BY <1>1, <1>7, FS_Injection DEF n
<1> QED
  BY <1>1, <1>6, <1>8 DEF n, Surjection

-----------------------------------------------------------------------------
(* What a round of the server reads and sends.                             *)

(* What one write appends are entries. *)
LEMMA EntriesAppended ==
    ASSUME events \in Seq(Entries), NEW es \in Outputs
    PROVE  /\ es \in Seq(Entries) /\ events \o es \in Seq(Entries)
           /\ Len(events \o es) = Len(events) + Len(es)
           /\ \A i \in 1 .. Len(events) : (events \o es)[i] = events[i]
           /\ \A i \in 1 .. Len(es) : (events \o es)[Len(events) + i] = es[i]
<1>1. es \in Seq({es[i] : i \in DOMAIN es})
  BY OutputsAssumption
<1>2. {es[i] : i \in DOMAIN es} \subseteq Entries
  BY DEF Entries
<1>3. es \in Seq(Entries)
  BY <1>1, <1>2, SeqMonotonic
<1>4. Len(events) \in Nat /\ Len(es) \in Nat
  BY <1>3, LenProperties
<1>5. /\ events \o es \in Seq(Entries)
      /\ Len(events \o es) = Len(events) + Len(es)
      /\ \A i \in 1 .. Len(events) + Len(es) :
             (events \o es)[i] = IF i <= Len(events) THEN events[i] ELSE es[i - Len(events)]
  BY <1>3, ConcatProperties
<1> QED
  BY <1>3, <1>4, <1>5

(* The batch lies behind the cursor; its last entry is the new cursor; all  *)
(* of what is still there up to that is in it, and if it is empty there is *)
(* nothing behind the cursor.                                              *)
LEMMA BatchProperties ==
    ASSUME Len(events) \in Nat, base \in 0 .. Len(events), NEW seq \in 0 .. Len(events)
    PROVE  /\ IsFiniteSet(Batch(seq)) /\ Batch(seq) \subseteq seq + 1 .. Len(events)
           /\ Batch(seq) = {} => seq = Len(events) \/ base = Len(events)
           /\ Batch(seq) # {} =>
                  /\ Last(Batch(seq)) \in Batch(seq)
                  /\ \A i \in Batch(seq) : i <= Last(Batch(seq))
                  /\ \A i \in base + 1 .. Last(Batch(seq)) : i <= seq \/ i \in Batch(seq)
<1> USE BatchAssumption
<1> DEFINE first == FirstAfter(seq)
           last == Least(Len(events), first + BatchLimit - 1)
<1>1. first \in Nat /\ last \in Int /\ seq < first /\ base < first /\ last <= Len(events)
  BY DEF FirstAfter, Least
<1>2. first = seq + 1 \/ first = base + 1
  BY DEF FirstAfter
<1>3. last < first => first > Len(events)
  BY <1>1 DEF Least
<1>4. Batch(seq) = first .. last
  BY DEF Batch
<1>5. IsFiniteSet(Batch(seq))
  BY <1>1, <1>4, FS_Interval
<1> HIDE DEF first, last
<1>6. Batch(seq) # {} => Last(Batch(seq)) = last
  <2> HAVE Batch(seq) # {}
  <2>1. last \in Batch(seq) /\ \A j \in Batch(seq) : j <= last
    BY <1>1, <1>4
  <2>2. /\ Last(Batch(seq)) \in Batch(seq)
        /\ \A j \in Batch(seq) : j <= Last(Batch(seq))
    BY <2>1 DEF Last
  <2> QED
    BY <1>1, <1>4, <2>1, <2>2
<1> QED
  BY <1>1, <1>2, <1>3, <1>4, <1>5, <1>6

(* The frames of a batch: of its entries, in order, none but metadata       *)
(* missing.                                                                *)
LEMMA SentProperties ==
    ASSUME events \in Seq(Entries), NEW B \in SUBSET (1 .. Len(events)), IsFiniteSet(B)
    PROVE  /\ Sent(B) \in Seq(Frames)
           /\ \A k \in 1 .. Len(Sent(B)) :
                  Sent(B)[k].seq \in B /\ Sent(B)[k].type = events[Sent(B)[k].seq].type
           /\ \A k, l \in 1 .. Len(Sent(B)) : k < l => Sent(B)[k].seq < Sent(B)[l].seq
           /\ \A i \in B : Kept(i) => \E k \in 1 .. Len(Sent(B)) : Sent(B)[k].seq = i
<1> DEFINE S == {i \in B : events[i].type # "metadata"}
           n == Cardinality(S)
           s == Ascending(S)
<1>1. S \in SUBSET B /\ S \in SUBSET Nat /\ IsFiniteSet(S)
  <2>1. S \in SUBSET B /\ B \subseteq Nat
    OBVIOUS
  <2>2. IsFiniteSet(S)
    BY <2>1, FS_Subset
  <2> HIDE DEF S
  <2> QED
    BY <2>1, <2>2
<1>2. /\ n \in Nat /\ s \in [1 .. n -> S]
      /\ \A i, j \in 1 .. n : i < j => s[i] < s[j]
      /\ \A x \in S : \E i \in 1 .. n : s[i] = x
  BY <1>1, AscendingProperties
<1>3. Sent(B) = [k \in DOMAIN s |-> Frame(events[s[k]].type, s[k])]
  BY DEF Sent
<1>4. \A i \in S : i \in Nat /\ i \in B /\ Kept(i) /\ events[i].type \in {e.type : e \in Entries}
  <2> TAKE i \in S
  <2>1. i \in 1 .. Len(events) /\ Kept(i)
    BY DEF Kept
  <2>2. events[i] \in Entries
    BY <2>1, ElementOfSeq
  <2> QED
    BY <2>1, <2>2
<1>5. \A i \in B : Kept(i) => i \in S
  BY DEF Kept
<1> HIDE DEF S, n, s
<1>6. Sent(B) = [k \in 1 .. n |-> Frame(events[s[k]].type, s[k])]
  BY <1>2, <1>3
<1>7. \A k \in 1 .. n : Sent(B)[k] = Frame(events[s[k]].type, s[k]) /\ s[k] \in S
  BY <1>2, <1>6
<1>8. Sent(B) \in [1 .. n -> Frames]
  <2>1. \A k \in 1 .. n : Sent(B)[k] \in Frames
    <3> TAKE k \in 1 .. n
    <3>1. s[k] \in S
      BY <1>7
    <3>2. s[k] \in Nat /\ events[s[k]].type \in {e.type : e \in Entries}
      BY <1>4, <3>1
    <3>3. Sent(B)[k] = [type |-> events[s[k]].type, seq |-> s[k]]
      BY <1>7 DEF Frame
    <3> QED
      BY <3>2, <3>3 DEF Frames
  <2> QED
    BY <1>6, <2>1
<1>9. Sent(B) \in Seq(Frames) /\ Len(Sent(B)) = n
  BY <1>2, <1>8
<1>10. \A k \in 1 .. n : /\ Sent(B)[k].seq = s[k] /\ Sent(B)[k].type = events[s[k]].type
                        /\ s[k] \in B
  <2> TAKE k \in 1 .. n
  <2>1. s[k] \in S
    BY <1>7
  <2>2. s[k] \in B
    BY <1>4, <2>1
  <2>3. Sent(B)[k] = [type |-> events[s[k]].type, seq |-> s[k]]
    BY <1>7 DEF Frame
  <2> QED
    BY <2>2, <2>3
<1> QED
  BY <1>2, <1>5, <1>9, <1>10

-----------------------------------------------------------------------------
(* Facts about one step.                                                   *)

(* What a failure costs; an error leaves its trace. *)
LEMMA SpendKeeps ==
    ASSUME Typed, NEW b \in Bounds, Spend(b)
    PROVE  /\ budget' \in [Bounds -> Nat] /\ \A c \in Bounds : budget'[c] \in 0 .. Limit[c]
           /\ budget'["errors"] >= budget["errors"]
           /\ b = "errors" => budget'["errors"] > 0
<1>1. budget \in [Bounds -> Nat] /\ \A c \in Bounds : budget[c] \in 0 .. Limit[c]
  BY DEF Typed, TypeOK
<1>2. \A c \in Bounds : Limit[c] \in Nat
  BY BoundsAssumption DEF Bounds, Limit
<1>3. budget[b] < Limit[b] /\ budget' = [budget EXCEPT ![b] = budget[b] + 1]
  BY DEF Spend
<1>4. budget' \in [Bounds -> Nat] /\ \A c \in Bounds : budget'[c] \in 0 .. Limit[c]
  BY <1>1, <1>2, <1>3
<1>5. budget'["errors"] >= budget["errors"] /\ (b = "errors" => budget'["errors"] > 0)
  BY <1>1, <1>3 DEF Bounds
<1> QED
  BY <1>4, <1>5

(* The run's own steps: what is written stays, a run that is over writes no *)
(* more tokens.                                                            *)
LEMMA RunGoesOn ==
    ASSUME RunOK, Run!Next
    PROVE  /\ RunOK' /\ Len(events) \in Nat /\ Len(events') \in Nat
           /\ status \in Terminal => status' = status
           /\ Len(events) <= Len(events')
           /\ \A i \in 1 .. Len(events) : events'[i] = events[i]
           /\ status \in Terminal =>
                  \A i \in Len(events) + 1 .. Len(events') : ~Run!IsToken(events'[i])
<1>1. Len(events) \in Nat
  BY LenProperties DEF RunOK
<1>2. CASE UNCHANGED events /\ status \notin Terminal /\ status' \in Run!Active \cup Terminal
  <2>1. \A i \in 1 .. Len(events) : ~Run!IsEnd(events[i])
    BY <1>2 DEF RunOK
  <2> QED
    BY <1>1, <1>2, <2>1 DEF RunOK
<1>3. ASSUME NEW es \in Outputs, Run!Write(es)
      PROVE  /\ RunOK' /\ Len(events') \in Nat /\ status' = status
             /\ Len(events) <= Len(events')
             /\ \A i \in 1 .. Len(events) : events'[i] = events[i]
             /\ status \in Terminal =>
                    \A i \in Len(events) + 1 .. Len(events') : ~Run!IsToken(events'[i])
  <2>1. /\ events' = events \o es /\ status' = status /\ status # "absent"
        /\ \A i \in 1 .. Len(es) :
               IF status \in Run!Active THEN ~Run!IsEnd(es[i]) ELSE ~Run!IsToken(es[i])
    BY <1>3 DEF Run!Write
  <2>2. /\ es \in Seq(Entries) /\ events' \in Seq(Entries)
        /\ Len(events') = Len(events) + Len(es)
        /\ \A i \in 1 .. Len(events) : events'[i] = events[i]
        /\ \A i \in 1 .. Len(es) : events'[Len(events) + i] = es[i]
    BY <2>1, EntriesAppended DEF RunOK
  <2>3. Len(es) \in Nat
    BY <2>2, LenProperties
  <2>4. \A i \in Len(events) + 1 .. Len(events') :
            i - Len(events) \in 1 .. Len(es) /\ events'[i] = es[i - Len(events)]
    <3> TAKE i \in Len(events) + 1 .. Len(events')
    <3>1. i - Len(events) \in 1 .. Len(es) /\ i = Len(events) + (i - Len(events))
      BY <1>1, <2>2, <2>3
    <3> QED
      BY <2>2, <3>1
  <2>5. CASE status \in Run!Active
    <3>1. status \notin Terminal
      BY <2>5 DEF Terminal, Run!Active, Run!Terminal
    <3>2. \A i \in 1 .. Len(events') : ~Run!IsEnd(events'[i])
      <4> TAKE i \in 1 .. Len(events')
      <4>1. CASE i \in 1 .. Len(events)
        BY <2>2, <3>1, <4>1 DEF RunOK, Run!IsEnd
      <4>2. CASE i \in Len(events) + 1 .. Len(events')
        BY <2>1, <2>4, <2>5, <4>2 DEF Run!IsEnd
      <4> QED
        BY <1>1, <2>2, <2>3, <4>1, <4>2
    <3> QED
      BY <1>1, <2>1, <2>2, <2>3, <3>1, <3>2 DEF RunOK
  <2>6. CASE status \in Terminal
    <3>1. status \notin Run!Active
      BY <2>6 DEF Terminal, Run!Active, Run!Terminal
    <3>2. \A i \in Len(events) + 1 .. Len(events') : ~Run!IsToken(events'[i])
      BY <2>1, <2>4, <3>1 DEF Run!IsToken
    <3>3. ASSUME NEW i \in 1 .. Len(events'), Run!IsEnd(events'[i]), NEW j \in i .. Len(events')
          PROVE  ~Run!IsToken(events'[j])
      <4>1. CASE j \in Len(events) + 1 .. Len(events')
        BY <3>2, <4>1
      <4>2. CASE j \in 1 .. Len(events)
        <5>1. i \in 1 .. Len(events) /\ j \in i .. Len(events)
          BY <1>1, <2>2, <2>3, <4>2
        <5>2. Run!IsEnd(events[i]) /\ events'[j] = events[j]
          BY <2>2, <3>3, <4>2, <5>1 DEF Run!IsEnd
        <5> QED
          BY <5>1, <5>2 DEF RunOK, Run!IsToken
      <4> QED
        BY <1>1, <2>2, <2>3, <4>1, <4>2
    <3>4. RunOK'
      BY <2>1, <2>2, <2>6, <3>3 DEF RunOK
    <3> QED
      BY <1>1, <2>1, <2>2, <2>3, <3>2, <3>4
  <2> QED
    BY <2>1, <2>5, <2>6 DEF RunOK
<1> QED
  <2>1. CASE \E es \in Outputs : Run!Write(es)
    BY <1>1, <1>3, <2>1
  <2>2. CASE UNCHANGED events /\ status \notin Terminal /\ status' \in Run!Active \cup Terminal
    BY <1>1, <1>2, <2>2
  <2> QED
    BY <2>1, <2>2 DEF Run!Next, Run!Create, Run!Progress, Run!Finish, Terminal, Run!Terminal,
       Run!Active

-----------------------------------------------------------------------------
(* The steps keep the invariant, action by action.                         *)

(* What the invariant says of the numbers, in one place. *)
LEMMA Numbers ==
    ASSUME Typed, RunOK
    PROVE  /\ Len(events) \in Nat /\ Len(wire) \in Nat /\ Len(applied) \in Nat
           /\ base \in 0 .. Len(events) /\ lastSeq \in 0 .. Len(events)
           /\ cursor \in 0 .. Len(events)
           /\ \A k \in 1 .. Len(wire) : wire[k].seq \in 0 .. Len(events)
           /\ \A i \in 1 .. Len(applied) : applied[i] \in Nat
BY LenProperties, ElementOfSeq DEF Typed, TypeOK, RunOK

(* The run writes on. *)
LEMMA RunStepsKeep ==
    ASSUME StreamInvariant, RunSteps
    PROVE  StreamInvariant'
<1>1. /\ RunOK' /\ Len(events) \in Nat /\ Len(events') \in Nat
      /\ status \in Terminal => status' = status
      /\ Len(events) <= Len(events')
      /\ \A i \in 1 .. Len(events) : events'[i] = events[i]
      /\ status \in Terminal =>
             \A i \in Len(events) + 1 .. Len(events') : ~Run!IsToken(events'[i])
  BY RunGoesOn DEF StreamInvariant, RunSteps
<1>2. UNCHANGED <<base, server, rowSeen, lastSeq, wire, page, cursor, applied, how, budget>>
  BY DEF RunSteps, serverVars, pageVars
<1>3. /\ Typed /\ ServerKnows /\ Followed /\ FramesTell /\ PageKnows
      /\ ExactReplay /\ EndHasTheAnswer /\ LeavesOnlyOver
  BY DEF StreamInvariant
<1>4. /\ Len(wire) \in Nat /\ Len(applied) \in Nat
      /\ base \in 0 .. Len(events) /\ lastSeq \in 0 .. Len(events)
      /\ cursor \in 0 .. Len(events)
      /\ \A k \in 1 .. Len(wire) : wire[k].seq \in 0 .. Len(events)
      /\ \A i \in 1 .. Len(applied) : applied[i] \in Nat
  BY Numbers DEF StreamInvariant
<1>5. Typed'
  BY <1>1, <1>2, <1>3, <1>4 DEF Typed, TypeOK
<1>6. ServerKnows' /\ FramesTell' /\ PageKnows'
  BY <1>1, <1>2, <1>3 DEF ServerKnows, FramesTell, PageKnows
<1>7. ASSUME status \in Terminal, NoMoreTokens PROVE NoMoreTokens'
  <2> SUFFICES ASSUME NEW i \in base + 1 .. Len(events'), Run!IsToken(events'[i])
               PROVE  i <= lastSeq
    BY <1>2 DEF NoMoreTokens
  <2>1. i \in base + 1 .. Len(events)
    BY <1>1, <1>4, <1>7
  <2>2. Run!IsToken(events[i])
    BY <1>1, <1>4, <2>1 DEF Run!IsToken
  <2> QED
    BY <1>7, <2>1, <2>2 DEF NoMoreTokens
<1>8. ASSUME page = "open" PROVE Followed'
  <2>1. \A f : Proper(f) => Proper(f)'
    <3> SUFFICES ASSUME NEW f, Proper(f) PROVE Proper(f)'
      OBVIOUS
    <3>1. f.seq \in 1 .. Len(events)
      BY <1>4 DEF Proper
    <3> QED
      BY <1>1, <1>2, <3>1 DEF Proper
  <2>2. \A k \in 1 .. Len(wire) : IsLastWord(k) => IsLastWord(k)'
    BY <1>2, <1>3, <1>7 DEF IsLastWord, LastWord, FramesTell, Terminal
  <2>3. WireInOrder'
    BY <1>2, <1>3, <1>8, <2>1, <2>2 DEF Followed, WireInOrder
  <2>4. WireIsComplete'
    <3>1. \A i \in base + 1 .. lastSeq : Kept(i)' => Kept(i)
      BY <1>1, <1>4 DEF Kept
    <3>2. Applied' = Applied
      BY <1>2 DEF Applied
    <3> QED
      BY <1>2, <1>3, <1>8, <3>1, <3>2 DEF Followed, WireIsComplete
  <2> QED
    BY <1>2, <1>3, <1>7, <1>8, <2>3, <2>4 DEF Followed, ServerKnows
<1>9. Followed'
  BY <1>2, <1>8 DEF Followed
<1>10. ExactReplay'
  BY <1>1, <1>2, <1>3, <1>4 DEF ExactReplay, Applied
<1>11. EndHasTheAnswer'
  <2> SUFFICES ASSUME how = "end" PROVE EndHasTheAnswer'
    BY <1>2 DEF EndHasTheAnswer
  <2>1. status \in Terminal
    BY <1>3 DEF PageKnows, LeavesOnlyOver, Terminal
  <2> QED
    BY <1>1, <1>2, <1>3, <1>4, <2>1 DEF EndHasTheAnswer, Applied, Run!IsToken
<1>12. LeavesOnlyOver'
  <2>1. Applied \subseteq 1 .. Len(events)
    BY <1>3, <1>4 DEF PageKnows, Applied
  <2>2. Applied' = Applied
    BY <1>2 DEF Applied
  <2> QED
    BY <1>1, <1>2, <1>3, <2>1, <2>2 DEF LeavesOnlyOver, Terminal
<1> QED
  BY <1>1, <1>5, <1>6, <1>9, <1>10, <1>11, <1>12 DEF StreamInvariant

(* The stream expires in Redis: no event is left that a page could miss. *)
LEMMA StreamExpiresKeeps ==
    ASSUME StreamInvariant, StreamExpires
    PROVE  StreamInvariant'
<1>1. /\ base' = Len(events)
      /\ UNCHANGED <<status, events, server, rowSeen, lastSeq, wire, page, cursor, applied, how>>
  BY DEF StreamExpires, runVars, serverVars, pageVars
<1>2. /\ RunOK /\ Typed /\ ServerKnows /\ Followed /\ FramesTell /\ PageKnows
      /\ ExactReplay /\ EndHasTheAnswer /\ LeavesOnlyOver
  BY DEF StreamInvariant
<1>3. /\ Len(events) \in Nat /\ Len(wire) \in Nat /\ Len(applied) \in Nat
      /\ base \in 0 .. Len(events) /\ lastSeq \in 0 .. Len(events)
      /\ cursor \in 0 .. Len(events)
  BY <1>2, Numbers
<1>4. /\ budget' \in [Bounds -> Nat] /\ \A c \in Bounds : budget'[c] \in 0 .. Limit[c]
      /\ budget'["errors"] >= budget["errors"]
  BY <1>2, SpendKeeps DEF StreamExpires, Bounds
<1>5. budget["errors"] \in Nat
  BY <1>2 DEF Typed, Bounds
<1>6. RunOK' /\ Typed' /\ ServerKnows' /\ PageKnows'
  BY <1>1, <1>2, <1>3, <1>4 DEF RunOK, Typed, TypeOK, ServerKnows, PageKnows
<1>7. FramesTell'
  BY <1>1, <1>2, <1>4, <1>5 DEF FramesTell, Bounds
<1>8. NoMoreTokens'
  BY <1>1, <1>3 DEF NoMoreTokens
<1>9. Followed'
  <2> SUFFICES ASSUME page = "open" PROVE Followed'
    BY <1>1 DEF Followed
  <2>1. WireInOrder'
    BY <1>1, <1>2, <1>8 DEF Followed, WireInOrder, Proper, IsLastWord, LastWord
  <2>2. WireIsComplete'
    BY <1>1, <1>3 DEF WireIsComplete
  <2> QED
    BY <1>1, <1>2, <1>8, <2>1, <2>2 DEF Followed
<1>10. ExactReplay' /\ EndHasTheAnswer'
  BY <1>1, <1>2, <1>3 DEF ExactReplay, EndHasTheAnswer, Applied
<1>11. LeavesOnlyOver'
  <2>1. Applied' = Applied
    BY <1>1 DEF Applied
  <2>2. budget["errors"] > 0 => budget'["errors"] > 0
    BY <1>4, <1>5 DEF Bounds
  <2> QED
    BY <1>1, <1>2, <2>1, <2>2 DEF LeavesOnlyOver
<1> QED
  BY <1>6, <1>7, <1>9, <1>10, <1>11 DEF StreamInvariant

(* The generator reads the row, before the stream. *)
LEMMA ServerReadsRowKeeps ==
    ASSUME StreamInvariant, ServerReadsRow
    PROVE  StreamInvariant'
<1>1. /\ server = "row" /\ server' = "read" /\ rowSeen' = status
      /\ UNCHANGED <<status, events, base, lastSeq, wire, page, cursor, applied, how, budget>>
  BY DEF ServerReadsRow, runVars, pageVars
<1>2. /\ RunOK /\ Typed /\ ServerKnows /\ Followed /\ FramesTell /\ PageKnows
      /\ ExactReplay /\ EndHasTheAnswer /\ LeavesOnlyOver
  BY DEF StreamInvariant
<1>3. RunOK' /\ Typed' /\ ServerKnows' /\ PageKnows' /\ FramesTell'
  BY <1>1, <1>2 DEF RunOK, Typed, TypeOK, ServerKnows, PageKnows, FramesTell, Terminal
<1>4. Followed'
  BY <1>1, <1>2 DEF Followed, WireInOrder, WireIsComplete, Proper, IsLastWord, Kept, Applied
<1>5. ExactReplay' /\ EndHasTheAnswer' /\ LeavesOnlyOver'
  BY <1>1, <1>2 DEF ExactReplay, EndHasTheAnswer, LeavesOnlyOver, Applied
<1> QED
  BY <1>3, <1>4, <1>5 DEF StreamInvariant

(* The generator reads a batch, sends it, and ends when the row was terminal. *)
LEMMA ServerReadsStreamKeeps ==
    ASSUME StreamInvariant, ServerReadsStream
    PROVE  StreamInvariant'
<1> DEFINE batch == Batch(lastSeq)
           new == Sent(batch)
           sent == wire \o new
           n == Len(wire)
<1>1. /\ server = "read"
      /\ UNCHANGED <<status, events, base, rowSeen, page, cursor, applied, how>>
  BY DEF ServerReadsStream, runVars, pageVars
<1>2. /\ RunOK /\ Typed /\ ServerKnows /\ Followed /\ FramesTell /\ PageKnows
      /\ ExactReplay /\ EndHasTheAnswer /\ LeavesOnlyOver
  BY DEF StreamInvariant
<1>3. /\ Len(events) \in Nat /\ n \in Nat /\ Len(applied) \in Nat
      /\ base \in 0 .. Len(events) /\ lastSeq \in 0 .. Len(events)
      /\ cursor \in 0 .. Len(events)
      /\ \A k \in 1 .. n : wire[k].seq \in 0 .. Len(events)
  BY <1>2, Numbers
<1>4. /\ IsFiniteSet(batch) /\ batch \subseteq lastSeq + 1 .. Len(events)
      /\ batch = {} => lastSeq = Len(events) \/ base = Len(events)
      /\ batch # {} => /\ Last(batch) \in batch
                       /\ \A i \in batch : i <= Last(batch)
                       /\ \A i \in base + 1 .. Last(batch) : i <= lastSeq \/ i \in batch
  BY <1>3, BatchProperties
<1>5. /\ new \in Seq(Frames)
      /\ \A k \in 1 .. Len(new) :
             new[k].seq \in batch /\ new[k].type = events[new[k].seq].type
      /\ \A k, l \in 1 .. Len(new) : k < l => new[k].seq < new[l].seq
      /\ \A i \in batch : Kept(i) => \E k \in 1 .. Len(new) : new[k].seq = i
  <2>1. batch \in SUBSET (1 .. Len(events))
    BY <1>3, <1>4
  <2> QED
    BY <1>2, <1>4, <2>1, SentProperties DEF RunOK
<1>6. /\ lastSeq' = IF batch = {} THEN lastSeq ELSE Last(batch)
      /\ \/ server' \in {"closed", "row"} /\ wire' = sent
         \/ /\ batch = {} /\ OverSeen /\ lastSeq' = 0 /\ server' = "last" /\ wire' = sent
         \/ /\ batch = {} /\ OverSeen /\ server' = "closed"
            /\ wire' = Append(sent, Frame("end", lastSeq'))
  BY DEF ServerReadsStream, NothingLeft
<1>7. budget' = budget \/ Spend("timeouts")
  BY DEF ServerReadsStream
<1>8. /\ budget' \in [Bounds -> Nat] /\ \A c \in Bounds : budget'[c] \in 0 .. Limit[c]
      /\ budget["errors"] > 0 => budget'["errors"] > 0
  <2>1. CASE budget' = budget
    BY <1>2, <2>1 DEF Typed, TypeOK
  <2>2. CASE Spend("timeouts")
    <3>1. /\ budget' \in [Bounds -> Nat] /\ \A c \in Bounds : budget'[c] \in 0 .. Limit[c]
          /\ budget'["errors"] >= budget["errors"]
      BY <1>2, <2>2, SpendKeeps DEF Bounds
    <3>2. budget["errors"] \in Nat /\ budget'["errors"] \in Nat
      BY <1>2, <3>1 DEF Typed, Bounds
    <3> QED
      BY <3>1, <3>2
  <2> QED
    BY <1>7, <2>1, <2>2
<1>9. /\ sent \in Seq(Frames) /\ Len(new) \in Nat /\ Len(sent) = n + Len(new)
      /\ \A k \in 1 .. n : sent[k] = wire[k]
      /\ \A k \in n + 1 .. Len(sent) : k - n \in 1 .. Len(new) /\ sent[k] = new[k - n]
      /\ \A k \in 1 .. Len(new) : n + k \in n + 1 .. Len(sent) /\ sent[n + k] = new[k]
  <2>1. wire \in Seq(Frames) /\ Len(new) \in Nat
    BY <1>2, <1>5, LenProperties DEF Typed
  <2>2. /\ sent \in Seq(Frames) /\ Len(sent) = n + Len(new)
        /\ \A k \in 1 .. n + Len(new) : sent[k] = IF k <= n THEN wire[k] ELSE new[k - n]
    BY <1>5, <2>1, ConcatProperties
  <2> HIDE DEF sent, new, n
  <2> QED
    BY <1>3, <2>1, <2>2
<1> HIDE DEF batch, new, sent, n
<1>10. /\ lastSeq' \in lastSeq .. Len(events)
       /\ \A i \in batch : i \in lastSeq + 1 .. lastSeq'
       /\ \A i \in base + 1 .. lastSeq' : i <= lastSeq \/ i \in batch
       /\ batch = {} => lastSeq' = lastSeq
  BY <1>3, <1>4, <1>6
<1>11. \A k \in 1 .. Len(sent) :
          /\ sent[k].seq \in 0 .. Len(events)
          /\ k > n => /\ sent[k].seq \in lastSeq + 1 .. lastSeq'
                      /\ sent[k].type = events[sent[k].seq].type
  <2> TAKE k \in 1 .. Len(sent)
  <2>1. CASE k \in 1 .. n
    BY <1>3, <1>9, <2>1 DEF n
  <2>2. CASE k \in n + 1 .. Len(sent)
    <3>1. k - n \in 1 .. Len(new) /\ sent[k] = new[k - n]
      BY <1>9, <2>2
    <3>2. new[k - n].seq \in batch /\ new[k - n].type = events[new[k - n].seq].type
      BY <1>5, <3>1
    <3>3. sent[k].seq \in lastSeq + 1 .. lastSeq' /\ sent[k].seq \in 0 .. Len(events)
      <4> DEFINE q == new[k - n].seq
      <4> HIDE DEF q
      <4>1. q \in lastSeq + 1 .. lastSeq' /\ sent[k].seq = q
        BY <1>10, <3>1, <3>2 DEF q
      <4>2. q \in 0 .. Len(events)
        BY <1>3, <1>10, <4>1
      <4> QED
        BY <4>1, <4>2
    <3> QED
      BY <3>1, <3>2, <3>3
  <2> QED
    BY <1>3, <1>9, <2>1, <2>2
<1>12. ASSUME batch = {} PROVE sent \in Seq(Frames) /\ Len(sent) = n
  BY <1>3, <1>5, <1>9, <1>12
<1>13. ASSUME batch = {}, OverSeen
       PROVE  status \in Terminal /\ \A i \in base + 1 .. Len(events) : i <= lastSeq
  BY <1>2, <1>3, <1>4, <1>13 DEF ServerKnows, OverSeen, Terminal
<1>14. /\ wire' \in Seq(Frames)
       /\ \A k \in 1 .. Len(sent) : wire'[k] = sent[k]
       /\ \/ wire' = sent /\ Len(wire') = Len(sent)
          \/ /\ batch = {} /\ OverSeen /\ server' = "closed"
             /\ Len(sent) = n /\ Len(wire') = n + 1
             /\ wire'[n + 1].type = "end" /\ wire'[n + 1].seq = lastSeq
  <2>1. CASE wire' = sent
    BY <1>9, <2>1
  <2>2. CASE /\ batch = {} /\ OverSeen /\ server' = "closed"
             /\ wire' = Append(sent, Frame("end", lastSeq'))
    <3>1. Frame("end", lastSeq') \in Frames
      BY <1>3, <1>10, <2>2 DEF Frame, Frames
    <3>2. /\ wire' \in Seq(Frames) /\ Len(wire') = Len(sent) + 1
          /\ \A k \in 1 .. Len(sent) : wire'[k] = sent[k]
          /\ wire'[Len(sent) + 1] = Frame("end", lastSeq')
      BY <1>9, <2>2, <3>1, AppendProperties
    <3> QED
      BY <1>10, <1>12, <2>2, <3>2 DEF Frame
  <2> QED
    BY <1>6, <2>1, <2>2
<1>15. /\ Len(sent) \in Nat /\ Len(wire') \in Nat
       /\ \A k \in 1 .. Len(wire') : k \in 1 .. Len(sent) \/ (k = n + 1 /\ k = Len(wire'))
  BY <1>3, <1>9, <1>14
<1>16. RunOK' /\ ServerKnows' /\ PageKnows'
  BY <1>1, <1>2, <1>6 DEF RunOK, ServerKnows, PageKnows, OverSeen, Terminal
<1>17. Typed'
  <2>1. \A k \in 1 .. Len(wire') : wire'[k].seq \in 0 .. Len(events)
    BY <1>3, <1>11, <1>14, <1>15
  <2> QED
    BY <1>1, <1>2, <1>3, <1>6, <1>8, <1>10, <1>14, <2>1 DEF Typed, TypeOK
<1>18. FramesTell'
  <2> SUFFICES ASSUME NEW k \in 1 .. Len(wire')
               PROVE  /\ wire'[k].type = "end" => status \in Terminal
                      /\ wire'[k].type = "error" /\ wire'[k].seq = 0 => budget["errors"] > 0
    BY <1>1, <1>8 DEF FramesTell
  <2>1. CASE k \in 1 .. n
    <3>1. wire'[k] = wire[k]
      BY <1>3, <1>9, <1>14, <2>1
    <3> QED
      BY <1>2, <2>1, <3>1 DEF FramesTell, n
  <2>2. CASE k \in 1 .. Len(sent) /\ k > n
    <3>1. /\ wire'[k].seq \in lastSeq + 1 .. lastSeq'
          /\ wire'[k].type = events[wire'[k].seq].type
      BY <1>11, <1>14, <2>2
    <3>2. wire'[k].seq \in 1 .. Len(events)
      BY <1>3, <1>10, <3>1
    <3>3. events[wire'[k].seq].type = "end" => status \in Terminal
      BY <1>2, <3>2 DEF RunOK, Run!IsEnd
    <3> QED
      BY <3>1, <3>2, <3>3
  <2>3. CASE Len(wire') = n + 1 /\ k = n + 1 /\ batch = {} /\ OverSeen /\ wire'[k].type = "end"
    BY <1>13, <2>3
  <2> QED
    BY <1>3, <1>14, <1>15, <2>1, <2>2, <2>3
<1>19. ASSUME page = "open" PROVE Followed'
  <2>1. \A k \in 1 .. n : Proper(wire[k]) /\ wire[k].seq <= lastSeq
    BY <1>1, <1>2, <1>3, <1>19 DEF Followed, WireInOrder, IsLastWord, Proper, n
  <2>2. \A k, l \in 1 .. n : k < l => wire[k].seq < wire[l].seq
    BY <1>1, <1>2, <1>19 DEF Followed, WireInOrder, IsLastWord, n
  <2>3. \A k \in 1 .. Len(sent) : /\ sent[k].seq \in cursor + 1 .. lastSeq'
                                  /\ sent[k].type = events[sent[k].seq].type
    <3> TAKE k \in 1 .. Len(sent)
    <3>1. CASE k \in 1 .. n
      <4>1. /\ sent[k] = wire[k] /\ wire[k].seq \in cursor + 1 .. lastSeq
            /\ wire[k].type = events[wire[k].seq].type
        BY <1>9, <2>1, <3>1 DEF Proper
      <4>2. wire[k].seq \in cursor + 1 .. lastSeq'
        BY <1>3, <1>10, <4>1
      <4> QED
        BY <4>1, <4>2
    <3>2. CASE k > n
      <4>1. cursor <= lastSeq
        BY <1>2, <1>19 DEF Followed
      <4>2. /\ sent[k].seq \in lastSeq + 1 .. lastSeq'
            /\ sent[k].type = events[sent[k].seq].type
        BY <1>11, <3>2
      <4>3. sent[k].seq \in cursor + 1 .. lastSeq'
        BY <1>3, <1>10, <4>1, <4>2
      <4> QED
        BY <4>2, <4>3
    <3> QED
      BY <1>3, <1>15, <3>1, <3>2
  <2>4. ASSUME NEW k \in 1 .. Len(sent), NEW l \in 1 .. Len(sent), k < l
        PROVE  sent[k].seq < sent[l].seq
    <3>1. CASE l \in 1 .. n
      <4>1. k \in 1 .. n
        BY <1>3, <2>4, <3>1
      <4> QED
        BY <1>9, <2>2, <2>4, <3>1, <4>1
    <3>2. CASE k \in 1 .. n /\ l > n
      <4>1. sent[k].seq <= lastSeq
        BY <1>9, <2>1, <3>2
      <4>2. sent[l].seq \in lastSeq + 1 .. lastSeq' /\ sent[k].seq \in 0 .. Len(events)
        BY <1>11, <3>2
      <4> QED
        BY <1>3, <4>1, <4>2
    <3>3. CASE k > n /\ l > n
      <4>1. /\ k - n \in 1 .. Len(new) /\ sent[k] = new[k - n]
            /\ l - n \in 1 .. Len(new) /\ sent[l] = new[l - n] /\ k - n < l - n
        <5>1. k \in n + 1 .. Len(sent) /\ l \in n + 1 .. Len(sent) /\ k - n < l - n
          BY <1>3, <1>15, <2>4, <3>3
        <5> QED
          BY <1>9, <5>1
      <4> QED
        BY <1>5, <4>1
    <3> QED
      BY <1>3, <1>15, <2>4, <3>1, <3>2, <3>3
  <2>5. \A k \in 1 .. Len(wire') : k \in 1 .. Len(sent) \/ IsLastWord(k)'
    <3> SUFFICES ASSUME NEW k \in 1 .. Len(wire'), k \notin 1 .. Len(sent)
                 PROVE  IsLastWord(k)'
      OBVIOUS
    <3>1. /\ k = Len(wire') /\ batch = {} /\ OverSeen /\ server' = "closed"
          /\ wire'[k].type = "end" /\ wire'[k].seq = lastSeq
      BY <1>3, <1>14, <1>15
    <3>2. lastSeq' = lastSeq /\ lastSeq' <= wire'[k].seq
      BY <1>3, <1>10, <3>1
    <3>3. NoMoreTokens'
      BY <1>1, <1>13, <3>1, <3>2 DEF NoMoreTokens
    <3> QED
      BY <1>3, <3>1, <3>2, <3>3 DEF IsLastWord, LastWord
  <2>6. WireInOrder'
    <3>1. \A k \in 1 .. Len(sent) : Proper(wire[k])'
      BY <1>1, <1>14, <2>3 DEF Proper
    <3>2. \A k, l \in 1 .. Len(wire') : k < l => wire'[k].seq < wire'[l].seq \/ IsLastWord(l)'
      <4> SUFFICES ASSUME NEW k \in 1 .. Len(wire'), NEW l \in 1 .. Len(sent), k < l
                   PROVE  wire'[k].seq < wire'[l].seq
        BY <2>5
      <4>1. k \in 1 .. Len(sent)
        BY <1>15
      <4> QED
        BY <1>14, <2>4, <4>1
    <3> QED
      BY <2>5, <3>1, <3>2 DEF WireInOrder
  <2>7. WireIsComplete'
    <3> SUFFICES ASSUME NEW i \in base + 1 .. lastSeq', Kept(i), i \notin Applied
                 PROVE  \E k \in 1 .. Len(wire') : wire'[k].seq = i
      BY <1>1 DEF WireIsComplete, Kept, Applied
    <3>1. \E k \in 1 .. Len(sent) : sent[k].seq = i
      <4>1. CASE i <= lastSeq
        <5>1. i \in base + 1 .. lastSeq
          BY <1>3, <4>1
        <5>2. PICK k \in 1 .. n : wire[k].seq = i
          BY <1>2, <1>19, <5>1 DEF Followed, WireIsComplete, n
        <5>3. k \in 1 .. Len(sent) /\ sent[k] = wire[k]
          BY <1>3, <1>9, <5>2
        <5> QED
          BY <5>2, <5>3
      <4>2. CASE i \in batch
        <5>1. PICK k \in 1 .. Len(new) : new[k].seq = i
          BY <1>5, <4>2
        <5>2. n + k \in 1 .. Len(sent) /\ sent[n + k] = new[k]
          BY <1>3, <1>9, <5>1
        <5> QED
          BY <5>1, <5>2
      <4> QED
        BY <1>10, <4>1, <4>2
    <3>2. \A k \in 1 .. Len(sent) : k \in 1 .. Len(wire') /\ wire'[k] = sent[k]
      BY <1>3, <1>14, <1>15
    <3> QED
      BY <3>1, <3>2
  <2>8. server' = "last" => lastSeq' = 0 /\ wire' = <<>> /\ NoMoreTokens'
    <3> SUFFICES ASSUME server' = "last"
                 PROVE  lastSeq' = 0 /\ wire' = <<>> /\ NoMoreTokens'
      OBVIOUS
    <3>1. lastSeq' = 0 /\ batch = {} /\ OverSeen /\ wire' = sent
      BY <1>6
    <3>2. \A k \in 1 .. Len(sent) : FALSE
      BY <1>3, <2>3, <3>1
    <3>3. Len(sent) = 0
      BY <1>15, <3>2
    <3>4. wire' = <<>>
      BY <1>9, <3>1, <3>3, EmptySeq
    <3>5. NoMoreTokens'
      BY <1>1, <1>10, <1>13, <3>1 DEF NoMoreTokens
    <3> QED
      BY <3>1, <3>4, <3>5
  <2>9. cursor' <= lastSeq'
    BY <1>1, <1>2, <1>3, <1>10, <1>19 DEF Followed
  <2> QED
    BY <2>6, <2>7, <2>8, <2>9 DEF Followed
<1>20. ExactReplay' /\ EndHasTheAnswer'
  BY <1>1, <1>2 DEF ExactReplay, EndHasTheAnswer, Applied
<1>21. LeavesOnlyOver'
  <2>1. Applied' = Applied
    BY <1>1 DEF Applied
  <2> QED
    BY <1>1, <1>2, <1>8, <2>1 DEF LeavesOnlyOver
<1> QED
  BY <1>1, <1>16, <1>17, <1>18, <1>19, <1>20, <1>21 DEF StreamInvariant, Followed

(* The end for a page without a cursor, after the last id was read. *)
LEMMA ServerReadsLastKeeps ==
    ASSUME StreamInvariant, ServerReadsLast
    PROVE  StreamInvariant'
<1> DEFINE f == Frame("end", IF Len(events) > base THEN Len(events) ELSE 0)
<1>1. /\ server = "last" /\ server' = "closed" /\ wire' = Append(wire, f)
      /\ UNCHANGED <<status, events, base, rowSeen, lastSeq, page, cursor, applied, how, budget>>
  BY DEF ServerReadsLast, runVars, pageVars
<1>2. /\ RunOK /\ Typed /\ ServerKnows /\ Followed /\ FramesTell /\ PageKnows
      /\ ExactReplay /\ EndHasTheAnswer /\ LeavesOnlyOver
  BY DEF StreamInvariant
<1>3. /\ Len(events) \in Nat /\ Len(wire) \in Nat
      /\ base \in 0 .. Len(events) /\ lastSeq \in 0 .. Len(events)
      /\ \A k \in 1 .. Len(wire) : wire[k].seq \in 0 .. Len(events)
  BY <1>2, Numbers
<1>4. f \in Frames /\ f.type = "end" /\ f.seq \in 0 .. Len(events)
  BY <1>3 DEF Frame, Frames
<1> HIDE DEF f
<1>5. /\ wire' \in Seq(Frames) /\ Len(wire') = Len(wire) + 1 /\ wire'[Len(wire) + 1] = f
      /\ \A k \in 1 .. Len(wire) : wire'[k] = wire[k]
  BY <1>1, <1>2, <1>4, AppendProperties DEF Typed
<1>6. status \in Terminal
  BY <1>1, <1>2 DEF ServerKnows
<1>7. RunOK' /\ ServerKnows' /\ PageKnows'
  BY <1>1, <1>2 DEF RunOK, ServerKnows, PageKnows
<1>8. Typed'
  <2>1. \A k \in 1 .. Len(wire') : wire'[k].seq \in 0 .. Len(events)
    BY <1>3, <1>4, <1>5
  <2> QED
    BY <1>1, <1>2, <1>5, <2>1 DEF Typed, TypeOK
<1>9. FramesTell'
  <2>1. \A k \in 1 .. Len(wire') : k \in 1 .. Len(wire) \/ wire'[k] = f
    BY <1>3, <1>5
  <2> QED
    BY <1>1, <1>2, <1>4, <1>5, <1>6, <2>1 DEF FramesTell, Terminal
<1>10. ASSUME page = "open" PROVE Followed'
  <2>1. lastSeq = 0 /\ wire = <<>> /\ NoMoreTokens /\ cursor <= lastSeq
    BY <1>1, <1>2, <1>10 DEF Followed
  <2>2. Len(wire') = 1 /\ wire'[1] = f
    BY <1>5, <2>1
  <2>3. NoMoreTokens'
    BY <1>1, <2>1 DEF NoMoreTokens
  <2>4. IsLastWord(1)'
    BY <1>1, <1>3, <1>4, <2>1, <2>2, <2>3 DEF IsLastWord, LastWord
  <2>5. WireInOrder'
    BY <2>2, <2>4 DEF WireInOrder
  <2>6. WireIsComplete'
    BY <1>1, <1>3, <2>1 DEF WireIsComplete
  <2> QED
    BY <1>1, <2>1, <2>5, <2>6 DEF Followed
<1>11. ExactReplay' /\ EndHasTheAnswer' /\ LeavesOnlyOver'
  BY <1>1, <1>2 DEF ExactReplay, EndHasTheAnswer, LeavesOnlyOver, Applied
<1> QED
  BY <1>1, <1>7, <1>8, <1>9, <1>10, <1>11 DEF StreamInvariant, Followed

(* A read raises, and the generator says so. *)
LEMMA ServerErrsKeeps ==
    ASSUME StreamInvariant, ServerErrs
    PROVE  StreamInvariant'
<1> DEFINE f == Frame("error", 0)
<1>1. /\ server \in {"row", "read"} /\ server' = "closed" /\ wire' = Append(wire, f)
      /\ UNCHANGED <<status, events, base, rowSeen, lastSeq, page, cursor, applied, how>>
  BY DEF ServerErrs, runVars, pageVars
<1>2. /\ RunOK /\ Typed /\ ServerKnows /\ Followed /\ FramesTell /\ PageKnows
      /\ ExactReplay /\ EndHasTheAnswer /\ LeavesOnlyOver
  BY DEF StreamInvariant
<1>3. /\ Len(events) \in Nat /\ Len(wire) \in Nat
      /\ \A k \in 1 .. Len(wire) : wire[k].seq \in 0 .. Len(events)
  BY <1>2, Numbers
<1>4. /\ budget' \in [Bounds -> Nat] /\ \A c \in Bounds : budget'[c] \in 0 .. Limit[c]
      /\ budget'["errors"] > 0
  BY <1>2, SpendKeeps DEF ServerErrs, Bounds
<1>5. f \in Frames /\ f.type = "error" /\ f.seq = 0
  BY DEF Frame, Frames
<1> HIDE DEF f
<1>6. /\ wire' \in Seq(Frames) /\ Len(wire') = Len(wire) + 1 /\ wire'[Len(wire) + 1] = f
      /\ \A k \in 1 .. Len(wire) : wire'[k] = wire[k]
  BY <1>1, <1>2, <1>5, AppendProperties DEF Typed
<1>7. RunOK' /\ ServerKnows' /\ PageKnows'
  BY <1>1, <1>2 DEF RunOK, ServerKnows, PageKnows
<1>8. Typed'
  <2>1. \A k \in 1 .. Len(wire') : wire'[k].seq \in 0 .. Len(events)
    BY <1>3, <1>5, <1>6
  <2> QED
    BY <1>1, <1>2, <1>4, <1>6, <2>1 DEF Typed, TypeOK
<1>9. FramesTell'
  BY <1>1, <1>2, <1>3, <1>4, <1>5, <1>6 DEF FramesTell
<1>10. ASSUME page = "open" PROVE Followed'
  <2>1. WireInOrder /\ WireIsComplete
    BY <1>2, <1>10 DEF Followed
  <2>2. \A k \in 1 .. Len(wire) : Proper(wire[k])
    BY <1>1, <2>1 DEF WireInOrder, IsLastWord
  <2>3. \A k \in 1 .. Len(wire) : Proper(wire[k])'
    BY <1>1, <1>6, <2>2 DEF Proper
  <2>4. \A k, l \in 1 .. Len(wire) : k < l => wire'[k].seq < wire'[l].seq
    BY <1>1, <1>6, <2>1 DEF WireInOrder, IsLastWord
  <2>5. \A k : k = Len(wire) + 1 => IsLastWord(k)'
    BY <1>1, <1>5, <1>6 DEF IsLastWord, LastWord
  <2>6. \A k \in 1 .. Len(wire') : k \in 1 .. Len(wire) \/ k = Len(wire) + 1
    BY <1>3, <1>6
  <2>7. WireInOrder'
    <3>1. \A k \in 1 .. Len(wire') : Proper(wire[k])' \/ IsLastWord(k)'
      BY <2>3, <2>5, <2>6
    <3>2. \A k, l \in 1 .. Len(wire') : k < l => wire'[k].seq < wire'[l].seq \/ IsLastWord(l)'
      <4> SUFFICES ASSUME NEW k \in 1 .. Len(wire'), NEW l \in 1 .. Len(wire), k < l
                   PROVE  wire'[k].seq < wire'[l].seq
        BY <2>5, <2>6
      <4>1. k \in 1 .. Len(wire)
        BY <1>3
      <4> QED
        BY <2>4, <4>1
    <3> QED
      BY <3>1, <3>2 DEF WireInOrder
  <2>8. WireIsComplete'
    BY <1>1, <1>3, <1>6, <2>1 DEF WireIsComplete, Kept, Applied
  <2> QED
    BY <1>1, <1>2, <1>10, <2>7, <2>8 DEF Followed
<1>11. ExactReplay' /\ EndHasTheAnswer' /\ LeavesOnlyOver'
  BY <1>1, <1>2, <1>4 DEF ExactReplay, EndHasTheAnswer, LeavesOnlyOver, Applied
<1> QED
  BY <1>1, <1>7, <1>8, <1>9, <1>10, <1>11 DEF StreamInvariant, Followed

(* Steps that leave a page without a connection, and the frames alone or    *)
(* thrown away.                                                            *)
LEMMA PageAwayKeeps ==
    ASSUME StreamInvariant, ServerBreaks \/ PageFindsClosed \/ PageChecks
                            \/ ConnectionDrops \/ PageReloads
    PROVE  StreamInvariant'
<1>1. /\ RunOK /\ Typed /\ ServerKnows /\ Followed /\ FramesTell /\ PageKnows
      /\ ExactReplay /\ EndHasTheAnswer /\ LeavesOnlyOver
  BY DEF StreamInvariant
<1>2. /\ UNCHANGED <<status, events, base, rowSeen, lastSeq>>
      /\ server' \in {server, "closed"} /\ wire' \in {wire, <<>>}
      /\ page' # "open"
  BY <1>1 DEF ServerBreaks, PageFindsClosed, PageChecks, ConnectionDrops, PageReloads, Finish,
     runVars, serverVars, Typed, TypeOK
<1>3. \/ UNCHANGED <<cursor, applied>> /\ page' # "resume"
      \/ page' = "resume" /\ cursor' = 0 /\ applied' = <<>> /\ UNCHANGED how /\ page # "done"
      \/ page' = page /\ UNCHANGED <<cursor, applied, how>>
  BY DEF ServerBreaks, PageFindsClosed, PageChecks, ConnectionDrops, PageReloads, Finish
<1>4. /\ page' \in {page, "check", "wait", "resume", "done"}
      /\ \/ UNCHANGED how /\ page' # "done" /\ page # "done"
         \/ UNCHANGED how /\ page' = page
         \/ page # "done" /\ page' = "done" /\ how' = "status" /\ status \in Run!Terminal
  BY DEF ServerBreaks, PageFindsClosed, PageChecks, ConnectionDrops, PageReloads, Finish
<1>5. /\ budget' \in [Bounds -> Nat] /\ \A c \in Bounds : budget'[c] \in 0 .. Limit[c]
      /\ budget["errors"] > 0 => budget'["errors"] > 0
  <2>1. UNCHANGED budget \/ \E b \in Bounds : Spend(b)
    BY DEF ServerBreaks, PageFindsClosed, PageChecks, ConnectionDrops, PageReloads, Bounds
  <2>2. CASE UNCHANGED budget
    BY <1>1, <2>2 DEF Typed, TypeOK
  <2>3. CASE \E b \in Bounds : Spend(b)
    <3>1. /\ budget' \in [Bounds -> Nat] /\ \A c \in Bounds : budget'[c] \in 0 .. Limit[c]
          /\ budget'["errors"] >= budget["errors"]
      BY <1>1, <2>3, SpendKeeps
    <3>2. budget["errors"] \in Nat /\ budget'["errors"] \in Nat
      BY <1>1, <3>1 DEF Typed, Bounds
    <3> QED
      BY <3>1, <3>2
  <2> QED
    BY <2>1, <2>2, <2>3
<1>6. RunOK' /\ ServerKnows' /\ Followed'
  BY <1>1, <1>2 DEF RunOK, ServerKnows, Followed
<1>7. /\ wire' \in Seq(Frames)
      /\ \A k \in 1 .. Len(wire') : k \in 1 .. Len(wire) /\ wire'[k] = wire[k]
  <2>1. CASE wire' = wire
    BY <1>1, <2>1 DEF Typed
  <2>2. CASE wire' = <<>>
    BY <2>2, EmptySeq
  <2> QED
    BY <1>2, <2>1, <2>2
<1>8. FramesTell'
  BY <1>1, <1>2, <1>5, <1>7 DEF FramesTell
<1>9. /\ applied' \in Seq(Nat) /\ cursor' \in 0 .. Len(events)
      /\ (UNCHANGED <<applied, cursor>> \/ (applied' = <<>> /\ cursor' = 0 /\ page' # "done"))
  <2>1. CASE UNCHANGED <<cursor, applied>>
    BY <1>1, <2>1 DEF Typed, TypeOK
  <2>2. CASE page' = "resume" /\ cursor' = 0 /\ applied' = <<>>
    <3>1. 0 \in 0 .. Len(events)
      BY <1>1, Numbers
    <3> QED
      BY <2>2, <3>1, EmptySeq
  <2> QED
    BY <1>3, <2>1, <2>2
<1>10. Typed'
  <2>1. \A k \in 1 .. Len(wire') : wire'[k].seq \in 0 .. Len(events)
    BY <1>1, <1>7 DEF Typed, TypeOK
  <2>2. /\ page' \in {"new", "open", "check", "wait", "resume", "done"}
        /\ how' \in {"none", "end", "error", "status"}
        /\ server' \in {"closed", "row", "read", "last"}
    BY <1>1, <1>2, <1>4 DEF Typed, TypeOK
  <2> QED
    BY <1>1, <1>2, <1>5, <1>7, <1>9, <2>1, <2>2 DEF Typed, TypeOK
<1>11. PageKnows'
  <2>1. \A i \in 1 .. Len(applied') : applied'[i] \in 1 .. cursor'
    BY <1>1, <1>9, EmptySeq DEF PageKnows
  <2>2. (page' # "done" => how' = "none") /\ (page' = "done" => how' # "none")
    BY <1>1, <1>4 DEF PageKnows
  <2>3. page' = "resume" => applied' = <<>>
    BY <1>1, <1>3 DEF PageKnows
  <2> QED
    BY <2>1, <2>2, <2>3 DEF PageKnows
<1>12. ExactReplay'
  <2>1. CASE UNCHANGED <<applied, cursor>>
    <3>1. how' # "end" => how # "end"
      BY <1>1, <1>4 DEF PageKnows
    <3>2. Applied' = Applied
      BY <2>1 DEF Applied
    <3> QED
      BY <1>1, <1>2, <2>1, <3>1, <3>2 DEF ExactReplay
  <2>2. CASE applied' = <<>> /\ cursor' = 0
    <3>1. base \in Nat
      BY <1>1, Numbers
    <3> QED
      BY <1>2, <2>2, <3>1, EmptySeq DEF ExactReplay
  <2> QED
    BY <1>9, <2>1, <2>2
<1>13. EndHasTheAnswer' /\ LeavesOnlyOver'
  <2>1. CASE UNCHANGED <<applied, cursor>>
    <3>1. Applied' = Applied
      BY <2>1 DEF Applied
    <3>2. EndHasTheAnswer'
      BY <1>1, <1>2, <1>4, <3>1 DEF EndHasTheAnswer
    <3>3. LeavesOnlyOver'
      BY <1>1, <1>2, <1>4, <1>5, <3>1 DEF LeavesOnlyOver
    <3> QED
      BY <3>2, <3>3
  <2>2. CASE page' # "done"
    BY <1>11, <2>2 DEF EndHasTheAnswer, LeavesOnlyOver, PageKnows
  <2> QED
    BY <1>9, <2>1, <2>2
<1> QED
  BY <1>6, <1>8, <1>10, <1>11, <1>12, <1>13 DEF StreamInvariant

(* A connection begins behind what the page has applied. *)
LEMMA PageOpensKeeps ==
    ASSUME StreamInvariant, PageOpens \/ PageResumes
    PROVE  StreamInvariant'
<1>1. /\ RunOK /\ Typed /\ ServerKnows /\ Followed /\ FramesTell /\ PageKnows
      /\ ExactReplay /\ EndHasTheAnswer /\ LeavesOnlyOver
  BY DEF StreamInvariant
<1>2. /\ UNCHANGED <<status, events, base, rowSeen, applied, budget>>
      /\ page \in {"new", "wait", "resume"}
  BY DEF PageOpens, PageResumes, Open, runVars, serverVars, Finish
<1>3. \/ /\ page' = "open" /\ server' = "row" /\ lastSeq' = cursor' /\ wire' = <<>>
         /\ UNCHANGED how
         /\ cursor' = cursor \/ (cursor' = 0 /\ page = "resume")
      \/ /\ page' = "done" /\ how' = "status" /\ status \in Run!Terminal
         /\ UNCHANGED <<server, lastSeq, wire, cursor>>
  BY DEF PageOpens, PageResumes, Open, serverVars, Finish
<1>4. /\ Len(events) \in Nat /\ base \in 0 .. Len(events) /\ cursor \in 0 .. Len(events)
  BY <1>1, Numbers
<1>5. cursor' = 0 /\ page = "resume" => applied = <<>>
  BY <1>1 DEF PageKnows
<1>6. CASE /\ page' = "done" /\ how' = "status" /\ status \in Run!Terminal
           /\ UNCHANGED <<server, lastSeq, wire, cursor>>
  <2>1. RunOK' /\ Typed' /\ ServerKnows' /\ Followed' /\ FramesTell' /\ PageKnows'
    BY <1>1, <1>2, <1>6 DEF RunOK, Typed, TypeOK, ServerKnows, Followed, FramesTell, PageKnows
  <2>2. ExactReplay' /\ EndHasTheAnswer' /\ LeavesOnlyOver'
    BY <1>1, <1>2, <1>6 DEF ExactReplay, EndHasTheAnswer, LeavesOnlyOver, Applied, PageKnows
  <2> QED
    BY <2>1, <2>2 DEF StreamInvariant
<1>7. CASE /\ page' = "open" /\ server' = "row" /\ lastSeq' = cursor' /\ wire' = <<>>
           /\ UNCHANGED how
           /\ cursor' = cursor \/ (cursor' = 0 /\ page = "resume")
  <2>1. /\ wire' \in Seq(Frames) /\ Len(wire') = 0 /\ cursor' \in 0 .. Len(events)
        /\ how = "none"
    BY <1>1, <1>2, <1>4, <1>7, EmptySeq DEF PageKnows
  <2>2. RunOK' /\ ServerKnows'
    BY <1>1, <1>2, <1>7 DEF RunOK, ServerKnows
  <2>3. Typed'
    BY <1>1, <1>2, <1>7, <2>1 DEF Typed, TypeOK
  <2>4. FramesTell'
    BY <2>1 DEF FramesTell
  <2>5. PageKnows'
    BY <1>1, <1>2, <1>5, <1>7, <2>1, EmptySeq DEF PageKnows
  <2>6. ExactReplay'
    <3>1. \A i, j \in 1 .. Len(applied) : i < j => applied[i] < applied[j]
      BY <1>1 DEF ExactReplay
    <3>2. \A i \in base + 1 .. cursor' : Kept(i) => i \in Applied
      BY <1>1, <1>4, <1>7, <2>1 DEF ExactReplay, Kept
    <3> QED
      BY <1>2, <3>1, <3>2 DEF ExactReplay, Kept, Applied
  <2>7. EndHasTheAnswer' /\ LeavesOnlyOver'
    BY <1>7, <2>1 DEF EndHasTheAnswer, LeavesOnlyOver
  <2>8. Followed'
    <3>1. WireInOrder'
      BY <2>1 DEF WireInOrder
    <3>2. WireIsComplete'
      BY <1>2, <1>7, <2>1, <2>6 DEF WireIsComplete, ExactReplay, Kept, Applied
    <3> QED
      BY <1>4, <1>7, <2>1, <3>1, <3>2 DEF Followed
  <2> QED
    BY <2>2, <2>3, <2>4, <2>5, <2>6, <2>7, <2>8 DEF StreamInvariant
<1> QED
  BY <1>3, <1>6, <1>7

(* The page reads a frame: one of an entry is always news to it, and the    *)
(* next of those it has not had; a last word says that nothing is missing. *)
LEMMA PageReadsKeeps ==
    ASSUME StreamInvariant, PageReads
    PROVE  StreamInvariant'
<1> DEFINE f == Head(wire)
<1>1. /\ page = "open" /\ wire # <<>> /\ wire' = Tail(wire)
      /\ UNCHANGED <<status, events, base, server, rowSeen, lastSeq, budget>>
  BY DEF PageReads, runVars, serverVars
<1>2. /\ RunOK /\ Typed /\ ServerKnows /\ Followed /\ FramesTell /\ PageKnows
      /\ ExactReplay /\ EndHasTheAnswer /\ LeavesOnlyOver
  BY DEF StreamInvariant
<1>3. /\ Len(events) \in Nat /\ Len(wire) \in Nat /\ Len(applied) \in Nat
      /\ base \in 0 .. Len(events) /\ lastSeq \in 0 .. Len(events)
      /\ cursor \in 0 .. Len(events)
      /\ \A k \in 1 .. Len(wire) : wire[k].seq \in 0 .. Len(events)
  BY <1>2, Numbers
<1>4. /\ f = wire[1] /\ 1 \in 1 .. Len(wire)
      /\ wire' \in Seq(Frames) /\ Len(wire') = Len(wire) - 1
      /\ \A k \in 1 .. Len(wire') : k + 1 \in 1 .. Len(wire) /\ wire'[k] = wire[k + 1]
  <2>1. wire \in Seq(Frames)
    BY <1>2 DEF Typed
  <2>2. Len(wire) > 0
    BY <1>1, <1>3, <2>1, EmptySeq
  <2>3. /\ wire' \in Seq(Frames) /\ Len(wire') = Len(wire) - 1
        /\ \A k \in 1 .. Len(wire') : wire'[k] = wire[k + 1]
    BY <1>1, <2>1, HeadTailProperties
  <2>4. f = wire[1]
    BY <1>1, <2>1
  <2> QED
    BY <1>3, <2>2, <2>3, <2>4
<1> HIDE DEF f
<1>5. /\ WireInOrder /\ WireIsComplete /\ cursor <= lastSeq /\ server # "last" /\ how = "none"
  BY <1>1, <1>2 DEF Followed, PageKnows
<1>6. f.seq \in 0 .. Len(events)
  BY <1>3, <1>4
<1>7. \/ Stale(f) /\ UNCHANGED <<page, cursor, applied, how>>
      \/ /\ ~Stale(f)
         /\ cursor' = IF f.seq = 0 THEN cursor ELSE f.seq
         /\ applied' = IF f.seq = 0 THEN applied ELSE Append(applied, f.seq)
         /\ \/ f.type = "end" /\ page' = "done" /\ how' = "end"
            \/ f.type = "error" /\ page' = "done" /\ how' = "error"
            \/ f.type \notin {"end", "error"} /\ UNCHANGED <<page, how>>
  BY DEF PageReads, pageVars, Finish, f
<1>8. \A i \in 1 .. Len(applied) : applied[i] \in 1 .. cursor
  BY <1>2 DEF PageKnows
<1>9. /\ cursor' \in 0 .. Len(events) /\ cursor <= cursor' /\ f.seq <= cursor'
      /\ applied' \in Seq(Nat) /\ Applied \subseteq Applied'
      /\ Len(applied') \in Nat /\ \A i \in 1 .. Len(applied') : applied'[i] \in 1 .. cursor'
      /\ \A i, j \in 1 .. Len(applied') : i < j => applied'[i] < applied'[j]
      /\ f.seq = 0 \/ Stale(f) \/ f.seq \in Applied'
      /\ \A i \in Applied' : i \in Applied \/ i = f.seq
  <2>1. applied \in Seq(Nat) /\ \A i, j \in 1 .. Len(applied) : i < j => applied[i] < applied[j]
    BY <1>2 DEF Typed, ExactReplay
  <2>2. CASE UNCHANGED <<cursor, applied>> /\ (f.seq = 0 \/ Stale(f))
    <3>1. f.seq <= cursor
      BY <1>3, <2>2 DEF Stale
    <3> QED
      BY <1>3, <1>8, <2>1, <2>2, <3>1 DEF Applied
  <2>3. CASE ~Stale(f) /\ f.seq # 0 /\ cursor' = f.seq /\ applied' = Append(applied, f.seq)
    <3>1. f.seq \in Nat /\ cursor < f.seq
      BY <1>3, <1>6, <2>3 DEF Stale
    <3>2. /\ applied' \in Seq(Nat) /\ Len(applied') = Len(applied) + 1
          /\ \A i \in 1 .. Len(applied) : applied'[i] = applied[i]
          /\ applied'[Len(applied) + 1] = f.seq
      BY <2>1, <2>3, <3>1, AppendProperties
    <3>3. \A i \in 1 .. Len(applied') : i \in 1 .. Len(applied) \/ i = Len(applied) + 1
      BY <1>3, <3>2
    <3>4. \A i \in 1 .. Len(applied') : applied'[i] \in 1 .. cursor'
      BY <1>3, <1>8, <2>3, <3>1, <3>2, <3>3
    <3>5. \A i, j \in 1 .. Len(applied') : i < j => applied'[i] < applied'[j]
      <4> SUFFICES ASSUME NEW i \in 1 .. Len(applied'), NEW j \in 1 .. Len(applied'), i < j
                   PROVE  applied'[i] < applied'[j]
        OBVIOUS
      <4>1. i \in 1 .. Len(applied) /\ applied'[i] = applied[i] /\ applied[i] \in 1 .. cursor
        BY <1>3, <1>8, <3>2
      <4>2. CASE j \in 1 .. Len(applied)
        BY <2>1, <3>2, <4>1, <4>2
      <4>3. CASE j = Len(applied) + 1
        BY <1>3, <3>1, <3>2, <4>1, <4>3
      <4> QED
        BY <3>3, <4>2, <4>3
    <3>6. /\ Applied \subseteq Applied' /\ f.seq \in Applied'
          /\ \A i \in Applied' : i \in Applied \/ i = f.seq
      <4>1. /\ Applied = {applied[i] : i \in 1 .. Len(applied)}
            /\ Applied' = {applied'[i] : i \in 1 .. Len(applied')}
        BY DEF Applied
      <4>2. \A i \in 1 .. Len(applied) : i \in 1 .. Len(applied')
        BY <1>3, <3>2
      <4>3. Len(applied) + 1 \in 1 .. Len(applied')
        BY <1>3, <3>2
      <4>4. Applied \subseteq Applied'
        BY <3>2, <4>1, <4>2
      <4>5. f.seq \in Applied'
        BY <3>2, <4>1, <4>3
      <4>6. \A i \in Applied' : i \in Applied \/ i = f.seq
        BY <3>2, <3>3, <4>1
      <4> QED
        BY <4>4, <4>5, <4>6
    <3> QED
      BY <1>3, <1>6, <2>3, <3>1, <3>2, <3>4, <3>5, <3>6
  <2> QED
    BY <1>7, <2>2, <2>3
<1>10. Proper(f) \/ (Len(wire) = 1 /\ server = "closed" /\ LastWord(f))
  BY <1>4, <1>5 DEF WireInOrder, IsLastWord
<1>11. \A i \in base + 1 .. lastSeq :
          Kept(i) => \/ i \in Applied \/ i = f.seq
                     \/ \E k \in 1 .. Len(wire') : wire'[k].seq = i
  <2> SUFFICES ASSUME NEW i \in base + 1 .. lastSeq, Kept(i), i \notin Applied, i # f.seq
               PROVE  \E k \in 1 .. Len(wire') : wire'[k].seq = i
    OBVIOUS
  <2>1. PICK k \in 1 .. Len(wire) : wire[k].seq = i
    BY <1>5 DEF WireIsComplete
  <2>2. k # 1
    BY <1>4, <2>1
  <2>3. k - 1 \in 1 .. Len(wire') /\ wire'[k - 1] = wire[(k - 1) + 1] /\ (k - 1) + 1 = k
    BY <1>3, <1>4, <2>2
  <2> QED
    BY <2>1, <2>3
<1>12. ASSUME Proper(f), NEW i \in base + 1 .. f.seq, Kept(i), i # f.seq
       PROVE  i \in Applied
  <2>1. f.seq \in cursor + 1 .. lastSeq
    BY <1>12 DEF Proper
  <2>2. i \in base + 1 .. lastSeq /\ i < f.seq
    BY <1>3, <1>12, <2>1
  <2>3. ASSUME NEW k \in 1 .. Len(wire'), wire'[k].seq = i PROVE FALSE
    <3>1. k + 1 \in 1 .. Len(wire) /\ wire[k + 1].seq = i /\ 1 < k + 1
      <4>1. k + 1 \in 1 .. Len(wire) /\ wire'[k] = wire[k + 1]
        BY <1>4
      <4>2. 1 < k + 1
        OBVIOUS
      <4> QED
        BY <2>3, <4>1, <4>2
    <3>2. ~(wire[1].seq < wire[k + 1].seq)
      BY <1>3, <1>4, <1>6, <2>2, <3>1
    <3>3. LastWord(wire[k + 1])
      BY <1>4, <1>5, <3>1, <3>2 DEF WireInOrder, IsLastWord
    <3> QED
      BY <1>3, <2>1, <2>2, <3>1, <3>3 DEF LastWord
  <2> QED
    BY <1>11, <1>12, <2>2, <2>3
<1>13. RunOK' /\ ServerKnows'
  BY <1>1, <1>2 DEF RunOK, ServerKnows
<1>14. Typed'
  <2>1. \A k \in 1 .. Len(wire') : wire'[k].seq \in 0 .. Len(events)
    BY <1>3, <1>4
  <2>2. /\ page' \in {"new", "open", "check", "wait", "resume", "done"}
        /\ how' \in {"none", "end", "error", "status"}
    BY <1>1, <1>5, <1>7
  <2> QED
    BY <1>1, <1>2, <1>4, <1>9, <2>1, <2>2 DEF Typed, TypeOK
<1>15. FramesTell'
  BY <1>1, <1>2, <1>4 DEF FramesTell
<1>16. PageKnows'
  BY <1>1, <1>5, <1>7, <1>9 DEF PageKnows
<1>17. ASSUME how' # "end", NEW i \in base + 1 .. cursor', Kept(i) PROVE i \in Applied'
  <2>1. \A j \in base + 1 .. cursor : Kept(j) => j \in Applied
    BY <1>2, <1>5 DEF ExactReplay, Kept
  <2>2. CASE i <= cursor
    <3>1. i \in base + 1 .. cursor
      BY <1>3, <2>2
    <3> QED
      BY <1>9, <1>17, <2>1, <3>1
  <2>3. CASE ~(i <= cursor)
    <3>1. cursor' = f.seq /\ f.seq # 0 /\ ~Stale(f)
      BY <1>3, <1>7, <2>3
    <3>2. Proper(f)
      <4>1. f.type = "end" => how' = "end"
        BY <1>7, <3>1
      <4> QED
        BY <1>10, <1>17, <3>1, <4>1 DEF LastWord
    <3> QED
      BY <1>9, <1>12, <1>17, <3>1, <3>2
  <2> QED
    BY <2>2, <2>3
<1>18. ExactReplay'
  BY <1>1, <1>9, <1>17 DEF ExactReplay, Kept
<1>19. EndHasTheAnswer'
  <2> SUFFICES ASSUME how' = "end", NEW i \in base + 1 .. Len(events), Run!IsToken(events[i])
               PROVE  i \in Applied'
    BY <1>1 DEF EndHasTheAnswer, Run!IsToken
  <2>1. f.type = "end" /\ ~Stale(f) /\ Kept(i)
    BY <1>5, <1>7 DEF Run!IsToken, Kept
  <2>2. CASE Proper(f)
    <3>1. f.seq \in 1 .. Len(events) /\ Run!IsEnd(events[f.seq])
      BY <1>3, <2>1, <2>2 DEF Proper, Run!IsEnd
    <3>2. \A j \in f.seq .. Len(events) : ~Run!IsToken(events[j])
      BY <1>2, <3>1 DEF RunOK
    <3>3. i \in base + 1 .. f.seq /\ i # f.seq
      BY <1>3, <3>1, <3>2
    <3> QED
      BY <1>9, <1>12, <2>1, <2>2, <3>3
  <2>3. CASE Len(wire) = 1 /\ LastWord(f)
    <3>1. i \in base + 1 .. lastSeq
      BY <1>3, <2>1, <2>3 DEF LastWord, NoMoreTokens
    <3>2. i \in Applied \/ i = f.seq
      BY <1>4, <1>11, <2>1, <2>3, <3>1
    <3> QED
      BY <1>3, <1>9, <2>1, <3>1, <3>2
  <2> QED
    BY <1>10, <2>2, <2>3
<1>20. LeavesOnlyOver'
  <2> SUFFICES ASSUME page' = "done"
               PROVE  \/ status \in Terminal
                      \/ /\ how' = "error"
                         /\ \/ budget["errors"] > 0
                            \/ \E i \in Applied' : events[i].type = "error"
    BY <1>1 DEF LeavesOnlyOver, Terminal
  <2>1. ~Stale(f) /\ (f.type = "end" \/ (f.type = "error" /\ how' = "error"))
    BY <1>1, <1>7
  <2>2. CASE f.type = "end"
    BY <1>2, <1>4, <2>2 DEF FramesTell, Terminal
  <2>3. CASE f.type = "error" /\ how' = "error"
    <3>1. f.seq = 0 => budget["errors"] > 0
      BY <1>2, <1>4, <2>3 DEF FramesTell
    <3>2. f.seq # 0 => events[f.seq].type = "error"
      BY <1>10, <2>3 DEF LastWord, Proper
    <3> QED
      BY <1>9, <2>1, <2>3, <3>1, <3>2
  <2> QED
    BY <2>1, <2>2, <2>3
<1>21. ASSUME page' = "open" PROVE Followed'
  <2>1. \A k \in 1 .. Len(wire') : IsLastWord(k + 1) => IsLastWord(k)'
    <3> SUFFICES ASSUME NEW k \in 1 .. Len(wire'), IsLastWord(k + 1) PROVE IsLastWord(k)'
      OBVIOUS
    <3>1. k = Len(wire') /\ server' = "closed" /\ LastWord(wire[k + 1]) /\ wire'[k] = wire[k + 1]
      BY <1>1, <1>3, <1>4 DEF IsLastWord
    <3>2. NoMoreTokens => NoMoreTokens'
      BY <1>1 DEF NoMoreTokens
    <3> QED
      BY <1>1, <3>1, <3>2 DEF IsLastWord, LastWord
  <2>2. CASE Proper(f)
    <3>1. f.seq \in cursor + 1 .. lastSeq
      BY <2>2 DEF Proper
    <3>2. cursor' = f.seq
      BY <1>3, <1>7, <3>1 DEF Stale
    <3>3. \A k \in 1 .. Len(wire') : Proper(wire[k])' \/ IsLastWord(k)'
      <4> SUFFICES ASSUME NEW k \in 1 .. Len(wire'), ~IsLastWord(k + 1)
                   PROVE  Proper(wire[k])'
        BY <2>1
      <4>1. k + 1 \in 1 .. Len(wire) /\ 1 < k + 1
        BY <1>3, <1>4
      <4>2. Proper(wire[k + 1]) /\ wire[1].seq < wire[k + 1].seq
        BY <1>4, <1>5, <4>1 DEF WireInOrder
      <4>3. wire'[k].seq \in f.seq + 1 .. lastSeq
        <5>1. wire[k + 1].seq \in cursor + 1 .. lastSeq /\ f.seq < wire[k + 1].seq
          BY <1>4, <4>2 DEF Proper
        <5>2. wire[k + 1].seq \in f.seq + 1 .. lastSeq
          BY <1>3, <1>6, <5>1
        <5> QED
          BY <1>4, <5>2
      <4> QED
        BY <1>1, <1>4, <3>2, <4>2, <4>3 DEF Proper
    <3>4. \A k, l \in 1 .. Len(wire') : k < l => wire'[k].seq < wire'[l].seq \/ IsLastWord(l)'
      <4> SUFFICES ASSUME NEW k \in 1 .. Len(wire'), NEW l \in 1 .. Len(wire'), k < l,
                          ~IsLastWord(l + 1)
                   PROVE  wire'[k].seq < wire'[l].seq
        BY <2>1
      <4>1. k + 1 \in 1 .. Len(wire) /\ l + 1 \in 1 .. Len(wire) /\ k + 1 < l + 1
        BY <1>3, <1>4
      <4>2. wire[k + 1].seq < wire[l + 1].seq
        BY <1>5, <4>1 DEF WireInOrder
      <4> QED
        BY <1>4, <4>2
    <3>5. WireInOrder'
      BY <3>3, <3>4 DEF WireInOrder
    <3>6. WireIsComplete'
      <4>1. f.seq \in Applied'
        BY <1>3, <1>9, <3>1 DEF Stale
      <4> QED
        BY <1>1, <1>9, <1>11, <4>1 DEF WireIsComplete, Kept
    <3> QED
      BY <1>1, <1>3, <1>5, <3>1, <3>2, <3>5, <3>6 DEF Followed
  <2>3. CASE ~Proper(f) /\ Len(wire) = 1 /\ server = "closed" /\ LastWord(f)
    <3>1. Len(wire') = 0
      BY <1>4, <2>3
    <3>2. Stale(f) /\ UNCHANGED <<cursor, applied, how>>
      BY <1>7, <1>21, <2>3 DEF LastWord
    <3>3. WireInOrder'
      BY <3>1 DEF WireInOrder
    <3>4. f.seq # 0 /\ f.seq = lastSeq /\ f.seq = cursor
      BY <1>3, <1>5, <1>6, <2>3, <3>2 DEF Stale, LastWord
    <3>5. WireIsComplete'
      BY <1>1, <1>5, <1>9, <1>18, <3>2, <3>4 DEF WireIsComplete, ExactReplay, Kept
    <3> QED
      BY <1>1, <1>5, <2>3, <3>2, <3>3, <3>5 DEF Followed
  <2> QED
    BY <1>10, <2>2, <2>3
<1> QED
  BY <1>13, <1>14, <1>15, <1>16, <1>18, <1>19, <1>20, <1>21 DEF StreamInvariant, Followed

-----------------------------------------------------------------------------
(* The theorems.                                                           *)

(* Nothing is sent yet. *)
LEMMA StreamInitially == Init => StreamInvariant
<1> SUFFICES ASSUME Init PROVE StreamInvariant
  OBVIOUS
<1>1. /\ status = "absent" /\ events = <<>> /\ base = 0
      /\ server = "closed" /\ rowSeen = "absent" /\ lastSeq = 0 /\ wire = <<>>
      /\ page = "new" /\ cursor = 0 /\ applied = <<>> /\ how = "none"
      /\ budget = [b \in Bounds |-> 0]
  BY DEF Init, Run!Init
<1>2. /\ events \in Seq(Entries) /\ wire \in Seq(Frames) /\ applied \in Seq(Nat)
      /\ Len(events) = 0 /\ Len(wire) = 0 /\ Len(applied) = 0
  BY <1>1, EmptySeq
<1>3. RunOK
  BY <1>1, <1>2 DEF RunOK
<1>4. Typed
  <2>1. \A b \in Bounds : Limit[b] \in Nat
    BY BoundsAssumption DEF Bounds, Limit
  <2> QED
    BY <1>1, <1>2, <2>1 DEF Typed, TypeOK
<1>5. ServerKnows /\ Followed /\ FramesTell /\ PageKnows
  BY <1>1, <1>2 DEF ServerKnows, Followed, FramesTell, PageKnows, Terminal, Run!Terminal
<1>6. ExactReplay /\ EndHasTheAnswer /\ LeavesOnlyOver
  BY <1>1, <1>2 DEF ExactReplay, EndHasTheAnswer, LeavesOnlyOver
<1> QED
  BY <1>3, <1>4, <1>5, <1>6 DEF StreamInvariant

(* Every step of the run, the generator, the connection and the page. *)
LEMMA StreamStep == StreamInvariant /\ [Next]_vars => StreamInvariant'
<1> SUFFICES ASSUME StreamInvariant, [Next]_vars PROVE StreamInvariant'
  OBVIOUS
<1>1. CASE RunSteps
  BY <1>1, RunStepsKeep
<1>2. CASE ServerSteps
  BY <1>2, ServerReadsRowKeeps, ServerReadsStreamKeeps, ServerReadsLastKeeps DEF ServerSteps
<1>3. CASE PageSteps
  BY <1>3, PageOpensKeeps, PageReadsKeeps, PageAwayKeeps DEF PageSteps
<1>4. CASE Failures
  BY <1>4, StreamExpiresKeeps, ServerErrsKeeps, PageAwayKeeps DEF Failures
<1>5. CASE UNCHANGED vars
  BY <1>5 DEF StreamInvariant, vars, runVars, serverVars, pageVars, RunOK, Typed, TypeOK,
     ServerKnows, Followed, WireInOrder, WireIsComplete, Proper, IsLastWord, LastWord,
     NoMoreTokens, Kept, FramesTell, PageKnows, ExactReplay, EndHasTheAnswer, LeavesOnlyOver,
     Applied
<1> QED
  BY <1>1, <1>2, <1>3, <1>4, <1>5 DEF Next

(* What the server has sent and the page not yet applied is always on its  *)
(* way, in order, whatever connections are lost between them.              *)
THEOREM StreamInvariantHolds == Spec => []StreamInvariant
<1>1. Init => StreamInvariant
  BY StreamInitially
<1>2. StreamInvariant /\ [Next]_vars => StreamInvariant'
  BY StreamStep
<1> QED
  BY <1>1, <1>2, PTL DEF Spec

(* Type correctness of the server, the connection and the page, for any     *)
(* outputs of the run.                                                     *)
THEOREM StreamTypeOK == Spec => []TypeOK
<1>1. StreamInvariant => TypeOK
  BY DEF StreamInvariant, Typed
<1> QED
  BY <1>1, StreamInvariantHolds, PTL

(* However often connections are lost, the generator times out or the page  *)
(* is reloaded: each event is applied once, in order, none is skipped.     *)
THEOREM ExactReplayHolds == Spec => []ExactReplay
<1>1. StreamInvariant => ExactReplay
  BY DEF StreamInvariant
<1> QED
  BY <1>1, StreamInvariantHolds, PTL

(* A page that stops for an end frame has every token that had not expired, *)
(* also when the server made the frame up: it had read the row first.      *)
THEOREM EndHasTheAnswerHolds == Spec => []EndHasTheAnswer
<1>1. StreamInvariant => EndHasTheAnswer
  BY DEF StreamInvariant
<1> QED
  BY <1>1, StreamInvariantHolds, PTL

(* A page leaves a run that is over, or after an error.                    *)
THEOREM LeavesOnlyOverHolds == Spec => []LeavesOnlyOver
<1>1. StreamInvariant => LeavesOnlyOver
  BY DEF StreamInvariant
<1> QED
  BY <1>1, StreamInvariantHolds, PTL
=============================================================================
