--------------------------- MODULE Generate_proofs ---------------------------
(***************************************************************************)
(* Proofs about Generate, for every vocabulary, prompt, budget, depth,     *)
(* context and target model: the request loop makes only calls the session *)
(* takes, keeps what it promises, and answers with the serial continuation *)
(* of the prompt.                                                          *)
(***************************************************************************)
EXTENDS Generate, SequenceTheorems, WellFoundedInduction, TLAPS

prompt == request.prompt
budget == request.maximum_tokens

(* What the session has answered, consumed or not.                         *)
Answer == emitted \o pending

LoopType ==
  /\ pc \in {"open", "check", "prefill", "consume", "decode", "finish",
             "usage", "done", "error", "closed"}
  /\ request \in Requests /\ draft_count \in Drafts
  /\ fed \in Seq(Token) /\ Len(fed) <= maximum_context
  /\ predicted \in Seq(Token) /\ drafted \in Nat
  /\ synced \in Token \cup {NoToken} /\ next \in Token \cup {NoToken}
  /\ pending \in Seq(Token) /\ emitted \in Seq(Token)
  /\ stopped \in BOOLEAN /\ client_connected \in BOOLEAN

(* Before the first answer nothing has been consumed, and the session has  *)
(* been fed a part of the prompt, followed by the draft cache.             *)
Prefilling ==
  /\ pc \in {"open", "check"} => fed = <<>> /\ drafted = 0 /\ synced = NoToken
  /\ pc \in {"open", "check", "prefill"} =>
       /\ emitted = <<>> /\ pending = <<>>
       /\ ~stopped /\ client_connected
  /\ pc = "prefill" =>
       /\ Fits
       /\ Len(fed) < Len(prompt)
       /\ \A i \in 1..Len(fed) : fed[i] = prompt[i]
       /\ draft_count = 0 => drafted = 0 /\ synced = NoToken
       /\ draft_count # 0 =>
            \/ fed = <<>> /\ drafted = 0 /\ synced = NoToken
            \/ fed # <<>> /\ synced = NoToken /\ Aligned
            \/ fed # <<>> /\ synced = PromptToken /\ drafted = Len(fed)

(* While tokens are consumed the session is one token behind its answer.   *)
Decoding ==
  pc \in {"consume", "decode"} =>
    /\ Fits
    /\ Answer # <<>>
    /\ fed = prompt \o SubSeq(Answer, 1, Len(Answer) - 1)
    /\ ~stopped /\ client_connected
    /\ draft_count = 0 => drafted = 0
    /\ draft_count # 0 => Aligned \/ Len(Answer) = budget
    /\ pc = "consume" => pending # <<>>
    /\ pc = "decode" => /\ pending = <<>>
                        /\ Len(emitted) < budget
                        /\ next = emitted[Len(emitted)]

(* The answer is serial, and the loop ends where it should.                *)
Serially ==
  /\ Len(Answer) <= budget
  /\ \A i \in 1..Len(Answer) :
       Answer[i] = Target(prompt \o SubSeq(Answer, 1, i - 1))
  /\ \A i \in 1..Len(emitted) :
       i < Len(emitted) \/ ~stopped => emitted[i] \notin Terminal
  /\ pc \in {"finish", "usage"} /\ client_connected =>
       \/ Len(emitted) = budget
       \/ emitted # <<>> /\ emitted[Len(emitted)] \in Terminal

LoopInv == LoopType /\ Prefilling /\ Decoding /\ Serially /\ NoCallRefused

------------------------------------------------------------------------------
(* Sequences *)

LEMMA ConstantFacts ==
  /\ maximum_context \in Nat /\ MaximumBlock \in Nat
  /\ \A h \in Seq(Token) : Len(h) <= maximum_context => Target(h) \in Token
  /\ \A r \in Requests : r.prompt \in Seq(Token) /\ r.maximum_tokens \in Nat \ {0}
  /\ \A d \in Drafts : d \in Nat /\ d <= MaximumBlock - 1
<1>1. maximum_context \in Nat /\ MaximumBlock \in Nat
  BY SessionAssumption
<1>2. ASSUME NEW h \in Seq(Token), Len(h) <= maximum_context
      PROVE  Target(h) \in Token
  <2>1. Len(h) \in 0..maximum_context /\ h \in [1..Len(h) -> Token]
    BY <1>1, <1>2, LenProperties
  <2> QED
    BY <2>1, SessionAssumption
<1>3. \A r \in Requests : r.prompt \in Seq(Token) /\ r.maximum_tokens \in Nat \ {0}
  BY RequestAssumption
<1>4. \A d \in Drafts : d \in Nat /\ d <= MaximumBlock - 1
  BY <1>1, OptionsAssumption
<1> QED
  BY <1>1, <1>2, <1>3, <1>4

LEMMA FrontType ==
  ASSUME NEW s \in Seq(Token), NEW n \in 0..Len(s)
  PROVE  /\ SubSeq(s, 1, n) \in Seq(Token) /\ Len(SubSeq(s, 1, n)) = n
         /\ \A i \in 1..n : SubSeq(s, 1, n)[i] = s[i]
<1>1. \A i \in 1..n : s[i] \in Token
  BY ElementOfSeq, LenProperties
<1>2. n \in Int /\ 1 \in Int /\ n \in Nat
  BY LenProperties
<1> QED
  BY <1>1, <1>2, SubSeqProperties

(* A common front of two sequences.                                        *)
LEMMA SameFront ==
  ASSUME NEW s \in Seq(Token), NEW t \in Seq(Token), NEW n \in 0..Len(s), n <= Len(t),
         \A i \in 1..n : s[i] = t[i]
  PROVE  SubSeq(s, 1, n) = SubSeq(t, 1, n)
<1>1. n \in 0..Len(t)
  BY LenProperties
<1>2. /\ SubSeq(s, 1, n) \in Seq(Token) /\ Len(SubSeq(s, 1, n)) = n
      /\ \A i \in 1..n : SubSeq(s, 1, n)[i] = s[i]
  BY FrontType
<1>3. /\ SubSeq(t, 1, n) \in Seq(Token) /\ Len(SubSeq(t, 1, n)) = n
      /\ \A i \in 1..n : SubSeq(t, 1, n)[i] = t[i]
  BY <1>1, FrontType
<1>4. \A i \in 1..n : SubSeq(s, 1, n)[i] = SubSeq(t, 1, n)[i]
  BY <1>2, <1>3
<1> QED
  BY <1>2, <1>3, <1>4, SeqEqual

(* Consuming a token moves it from pending to emitted.                     *)
LEMMA Consumed ==
  ASSUME NEW s \in Seq(Token), NEW t \in Seq(Token), t # <<>>
  PROVE  /\ Append(s, Head(t)) \o Tail(t) = s \o t
         /\ Append(s, Head(t)) \in Seq(Token) /\ Tail(t) \in Seq(Token)
         /\ Head(t) \in Token
<1>1. /\ Head(t) \in Token /\ Tail(t) \in Seq(Token) /\ Len(Tail(t)) = Len(t) - 1
      /\ \A i \in 1..Len(Tail(t)) : Tail(t)[i] = t[i + 1]
  BY HeadTailProperties
<1>2. Len(s) \in Nat /\ Len(t) \in Nat \ {0} /\ Head(t) = t[1]
  BY LenProperties, EmptySeq
<1>3. /\ Append(s, Head(t)) \in Seq(Token) /\ Len(Append(s, Head(t))) = Len(s) + 1
      /\ \A i \in 1..Len(s) : Append(s, Head(t))[i] = s[i]
      /\ Append(s, Head(t))[Len(s) + 1] = Head(t)
  BY <1>1, AppendProperties
<1> DEFINE u == Append(s, Head(t))
           v == Tail(t)
<1>4. /\ s \o t \in Seq(Token) /\ Len(s \o t) = Len(s) + Len(t)
      /\ \A i \in 1..Len(s) + Len(t) :
           (s \o t)[i] = IF i <= Len(s) THEN s[i] ELSE t[i - Len(s)]
  BY ConcatProperties
<1>5. /\ u \o v \in Seq(Token) /\ Len(u \o v) = Len(u) + Len(v)
      /\ \A i \in 1..Len(u) + Len(v) :
           (u \o v)[i] = IF i <= Len(u) THEN u[i] ELSE v[i - Len(u)]
  BY <1>1, <1>3, ConcatProperties
<1> HIDE DEF u, v
<1>6. Len(u \o v) = Len(s \o t)
  BY <1>1, <1>2, <1>3, <1>4, <1>5 DEF u, v
<1>7. ASSUME NEW i \in 1..Len(u \o v)
      PROVE  (u \o v)[i] = (s \o t)[i]
  <2>1. Len(u) = Len(s) + 1 /\ Len(v) = Len(t) - 1
    BY <1>1, <1>3 DEF u, v
  <2>2. CASE i <= Len(s)
    BY <1>2, <1>3, <1>4, <1>5, <1>6, <2>1, <2>2 DEF u
  <2>3. CASE i = Len(s) + 1
    BY <1>2, <1>3, <1>4, <1>5, <1>6, <2>1, <2>3 DEF u
  <2>4. CASE i > Len(s) + 1
    <3>1. i - Len(u) \in 1..Len(v) /\ (u \o v)[i] = v[i - Len(u)]
      BY <1>2, <1>5, <1>6, <2>1, <2>4
    <3>2. v[i - Len(u)] = t[i - Len(u) + 1]
      BY <1>1, <3>1 DEF v
    <3>3. (s \o t)[i] = t[i - Len(s)]
      BY <1>2, <1>4, <1>6, <2>1, <2>4
    <3> QED
      BY <1>2, <2>1, <3>1, <3>2, <3>3
  <2> QED
    BY <1>2, <2>1, <2>2, <2>3, <2>4, <1>4, <1>6
<1>8. u \o v = s \o t
  BY <1>4, <1>5, <1>6, <1>7, SeqEqual
<1> QED
  BY <1>1, <1>3, <1>8 DEF u, v
LEMMA TokenConcat ==
  \A s, t \in Seq(Token) :
    /\ s \o t \in Seq(Token) /\ Len(s \o t) = Len(s) + Len(t)
    /\ \A i \in 1..Len(s) + Len(t) :
         (s \o t)[i] = IF i <= Len(s) THEN s[i] ELSE t[i - Len(s)]
    /\ \A r \in Seq(Token) : r \o (s \o t) = (r \o s) \o t
BY SMTT(30), ConcatProperties, ConcatAssociative

LEMMA TokenEmpty ==
  /\ <<>> \in Seq(Token) /\ Len(<<>>) = 0
  /\ \A s \in Seq(Token) : /\ s \o <<>> = s /\ <<>> \o s = s
                           /\ s # <<>> <=> Len(s) > 0
<1>1. <<>> \in Seq(Token) /\ Len(<<>>) = 0
  BY EmptySeq
<1>2. ASSUME NEW s \in Seq(Token)
      PROVE  s \o <<>> = s /\ <<>> \o s = s
  BY ConcatEmptySeq
<1>3. ASSUME NEW s \in Seq(Token)
      PROVE  s # <<>> <=> Len(s) > 0
  BY <1>1, EmptySeq
<1> QED
  BY <1>1, <1>2, <1>3

(* A batch begins with the last token answered and goes on with its own    *)
(* answers.                                                                *)
Chained(a, ts, out) ==
  /\ a \in Seq(Token) /\ ts \in Seq(Token) /\ out \in Seq(Token)
  /\ a # <<>> /\ ts # <<>> /\ Len(out) = Len(ts)
  /\ ts[1] = a[Len(a)] /\ \A i \in 1..Len(ts) - 1 : ts[i + 1] = out[i]

(* The history a row of such a batch is answered for is the prompt r with  *)
(* the answer up to that row.                                              *)
FollowsAnswer(r, a, ts, out) ==
  \A j \in 0..Len(ts) :
    r \o SubSeq(a \o out, 1, Len(a) + j - 1)
      = (r \o SubSeq(a, 1, Len(a) - 1)) \o SubSeq(ts, 1, j)

LEMMA Histories ==
  ASSUME NEW r \in Seq(Token), NEW a, NEW ts, NEW out, Chained(a, ts, out)
  PROVE  FollowsAnswer(r, a, ts, out)
<1> SUFFICES ASSUME NEW j \in 0..Len(ts)
             PROVE  r \o SubSeq(a \o out, 1, Len(a) + j - 1)
                      = (r \o SubSeq(a, 1, Len(a) - 1)) \o SubSeq(ts, 1, j)
  BY Zenon DEF FollowsAnswer
<1>0. /\ a \in Seq(Token) /\ ts \in Seq(Token) /\ out \in Seq(Token)
      /\ a # <<>> /\ ts # <<>> /\ Len(out) = Len(ts)
      /\ ts[1] = a[Len(a)] /\ \A i \in 1..Len(ts) - 1 : ts[i + 1] = out[i]
  BY DEF Chained
<1> USE <1>0
<1> DEFINE k == Len(a)
           b == a \o out
           front == SubSeq(b, 1, k + j - 1)
           old == SubSeq(a, 1, k - 1)
           new == SubSeq(ts, 1, j)
<1>1. /\ k \in Nat \ {0} /\ Len(r) \in Nat /\ Len(ts) \in Nat \ {0} /\ j \in Nat
      /\ j <= Len(ts)
  BY LenProperties, EmptySeq
<1>2. /\ b \in Seq(Token) /\ Len(b) = k + Len(ts)
      /\ \A i \in 1..k + Len(ts) : b[i] = IF i <= k THEN a[i] ELSE out[i - k]
  <2>1. /\ a \o out \in Seq(Token) /\ Len(a \o out) = Len(a) + Len(out)
        /\ \A i \in 1..Len(a) + Len(out) :
             (a \o out)[i] = IF i <= Len(a) THEN a[i] ELSE out[i - Len(a)]
    BY TokenConcat
  <2>2. Len(out) = Len(ts)
    OBVIOUS
  <2> QED
    BY <2>1, <2>2
<1>3. k + j - 1 \in 0..Len(b) /\ k - 1 \in 0..Len(a)
  BY <1>1, <1>2
<1>4. /\ front \in Seq(Token) /\ Len(front) = k + j - 1
      /\ \A i \in 1..k + j - 1 : front[i] = b[i]
  BY <1>2, <1>3, FrontType
<1>5. /\ old \in Seq(Token) /\ Len(old) = k - 1 /\ \A i \in 1..k - 1 : old[i] = a[i]
  BY <1>3, FrontType
<1>6. /\ new \in Seq(Token) /\ Len(new) = j /\ \A i \in 1..j : new[i] = ts[i]
  BY FrontType
<1>7. /\ old \o new \in Seq(Token) /\ Len(old \o new) = k - 1 + j
      /\ \A i \in 1..k - 1 + j :
           (old \o new)[i] = IF i <= k - 1 THEN old[i] ELSE new[i - (k - 1)]
  <2> HIDE DEF b, front, old, new, k
  <2>1. /\ old \o new \in Seq(Token) /\ Len(old \o new) = Len(old) + Len(new)
        /\ \A i \in 1..Len(old) + Len(new) :
             (old \o new)[i] = IF i <= Len(old) THEN old[i] ELSE new[i - Len(old)]
    BY <1>5, <1>6, TokenConcat
  <2>2. Len(old) = k - 1 /\ Len(new) = j
    BY <1>5, <1>6
  <2> QED
    BY <2>1, <2>2
<1> HIDE DEF b, front, old, new, k
<1>8. ASSUME NEW i \in 1..k + j - 1
      PROVE  front[i] = (old \o new)[i]
  <2>1. front[i] = b[i] /\ i \in 1..k + Len(ts)
    BY <1>1, <1>4
  <2>0. i \in Nat /\ k \in Nat /\ i >= 1
    BY <1>1
  <2>2. CASE i <= k - 1
    <3>0. i \in 1..k - 1 /\ i \in 1..k - 1 + j /\ i <= k
      BY <1>1, <2>0, <2>2
    <3>1. b[i] = a[i] /\ (old \o new)[i] = old[i] /\ old[i] = a[i]
      BY <1>2, <1>5, <1>7, <2>1, <3>0
    <3> QED
      BY <2>1, <3>1
  <2>3. CASE i = k
    <3>1. b[i] = a[k] /\ (old \o new)[i] = new[1] /\ new[1] = ts[1]
      BY <1>1, <1>2, <1>6, <1>7, <2>1, <2>3
    <3>2. ts[1] = a[k]
      BY DEF k
    <3> QED
      BY <2>1, <3>1, <3>2
  <2>4. CASE i > k
    <3>1. b[i] = out[i - k] /\ (old \o new)[i] = new[i - (k - 1)]
      BY <1>1, <1>2, <1>7, <2>1, <2>4
    <3>2. i - (k - 1) \in 1..j /\ i - k \in 1..Len(ts) - 1 /\ i - (k - 1) = (i - k) + 1
      BY <1>1, <2>4
    <3>3. new[i - (k - 1)] = ts[i - (k - 1)] /\ ts[(i - k) + 1] = out[i - k]
      BY <1>6, <3>2
    <3> QED
      BY <2>1, <3>1, <3>2, <3>3
  <2>5. i <= k - 1 \/ i = k \/ i > k
    BY <2>0
  <2> QED
    BY <2>2, <2>3, <2>4, <2>5
<1>9. front = old \o new
  <2>1. Len(front) = k + j - 1 /\ Len(old \o new) = k + j - 1
    BY <1>1, <1>4, <1>7
  <2> QED
    BY <1>4, <1>7, <1>8, <2>1, SeqEqual
<1>10. r \o (old \o new) = (r \o old) \o new
  BY SMTT(30), <1>5, <1>6, TokenConcat
<1> QED
  BY <1>9, <1>10 DEF b, front, old, new, k

------------------------------------------------------------------------------
(* Calls of the session *)

LEMMA FeedAnswers ==
  ASSUME LoopType, NEW ts \in Seq(Token), Feed(ts)
  PROVE  /\ fed' = fed \o ts /\ fed' \in Seq(Token)
         /\ Len(fed') = Len(fed) + Len(ts) /\ Len(fed') <= maximum_context
         /\ predicted' \in Seq(Token) /\ Len(predicted') = Len(ts)
         /\ \A i \in 1..Len(ts) : predicted'[i] = Target(fed \o SubSeq(ts, 1, i))
         /\ reply' = "ok"
<1>1. fed \in Seq(Token) /\ Len(fed) \in Nat /\ Len(ts) \in Nat
  BY LenProperties DEF LoopType
<1>2. fed' = fed \o ts /\ fed' \in Seq(Token) /\ Len(fed') = Len(fed) + Len(ts)
  BY <1>1, ConcatProperties DEF Feed
<1>3. Len(fed) + Len(ts) <= maximum_context
  BY <1>1, ConstantFacts DEF Feed, Room
<1>4. ASSUME NEW i \in 1..Len(ts)
      PROVE  Target(fed \o SubSeq(ts, 1, i)) \in Token
  <2>1. i \in 0..Len(ts) /\ i <= Len(ts)
    BY <1>1
  <2>2. SubSeq(ts, 1, i) \in Seq(Token) /\ Len(SubSeq(ts, 1, i)) = i
    BY <2>1, FrontType
  <2>3. fed \o SubSeq(ts, 1, i) \in Seq(Token) /\ Len(fed \o SubSeq(ts, 1, i)) = Len(fed) + i
    BY <1>1, <2>2, ConcatProperties
  <2>4. Len(fed) + i <= maximum_context
    BY <1>1, <1>3, <2>1, ConstantFacts
  <2> QED
    BY <2>3, <2>4, ConstantFacts
<1>5. predicted' = [i \in 1..Len(ts) |-> Target(fed \o SubSeq(ts, 1, i))]
  BY DEF Feed
<1>6. predicted' \in [1..Len(ts) -> Token]
  BY <1>4, <1>5
<1>7. predicted' \in Seq(Token)
  BY <1>1, <1>6, SeqDef
<1>8. Len(predicted') = Len(ts)
  BY <1>1, <1>6, <1>7, LenProperties
<1> QED
  BY <1>2, <1>3, <1>5, <1>7, <1>8 DEF Feed

(* One token fed.                                                          *)
LEMMA BlockAnswers ==
  ASSUME LoopType, NEW t \in Token, Block(<<t>>)
  PROVE  /\ fed' = Append(fed, t) /\ fed' \in Seq(Token)
         /\ Len(fed') = Len(fed) + 1 /\ Len(fed') <= maximum_context
         /\ \A i \in 1..Len(fed) : fed'[i] = fed[i]
         /\ fed'[Len(fed) + 1] = t
         /\ predicted' \in Seq(Token) /\ Len(predicted') = 1
         /\ predicted'[1] = Target(fed')
         /\ drafted' = drafted /\ reply' = "ok"
<1>1. <<t>> \in Seq(Token) /\ Len(<<t>>) = 1 /\ <<t>>[1] = t
  OBVIOUS
<1>2. /\ fed' = fed \o <<t>> /\ fed' \in Seq(Token)
      /\ Len(fed') = Len(fed) + 1 /\ Len(fed') <= maximum_context
      /\ predicted' \in Seq(Token) /\ Len(predicted') = 1
      /\ predicted'[1] = Target(fed \o SubSeq(<<t>>, 1, 1)) /\ reply' = "ok"
  <2>1. Feed(<<t>>) /\ 1 \in 1..Len(<<t>>)
    BY <1>1 DEF Block
  <2> QED
    BY <1>1, <2>1, FeedAnswers
<1>3. SubSeq(<<t>>, 1, 1) = <<t>>
  BY <1>1, SubSeqFull
<1>4. Append(fed, t) = fed \o <<t>>
  BY AppendIsConcat DEF LoopType
<1>5. /\ \A i \in 1..Len(fed) : Append(fed, t)[i] = fed[i]
      /\ Append(fed, t)[Len(fed) + 1] = t
  BY AppendProperties DEF LoopType
<1> QED
  BY <1>2, <1>3, <1>4, <1>5 DEF Block

------------------------------------------------------------------------------
(* Opening and prefill *)

LEMMA InitLoop == Init => LoopInv
<1> SUFFICES ASSUME Init PROVE LoopInv
  OBVIOUS
<1>1. /\ <<>> \in Seq(Token) /\ Len(<<>>) = 0 /\ emitted = <<>> /\ pending = <<>>
      /\ Answer = <<>>
  BY EmptySeq, ConcatEmptySeq DEF Init, Answer
<1>2. LoopType
  <2>1. 0 <= maximum_context
    BY ConstantFacts
  <2> QED
    BY <1>1, <2>1 DEF Init, CallsInit, LoopType
<1>3. Prefilling /\ Decoding /\ NoCallRefused
  BY <1>1 DEF Init, CallsInit, Prefilling, Decoding, NoCallRefused
<1>4. budget \in Nat
  BY ConstantFacts DEF Init, budget
<1>5. Serially
  BY <1>1, <1>4 DEF Init, Serially
<1> QED
  BY <1>2, <1>3, <1>5 DEF LoopInv

(* Steps that neither call the session nor consume a token.                *)
LEMMA OpenInv ==
  ASSUME LoopInv, Open \/ CreateSession
  PROVE  LoopInv'
<1>1. /\ pc \in {"open", "check"} /\ pc' \in {"check", "closed", "prefill", "error"}
      /\ pc = "open" => pc' # "prefill"
      /\ pc' = "prefill" => Fits
      /\ UNCHANGED <<sessionVars, request, draft_count, loopVars>>
  BY DEF Open, CreateSession
<1>2. LoopType'
  BY <1>1 DEF LoopInv, LoopType, sessionVars, loopVars
<1>3. Len(<<>>) = 0 /\ prompt \in Seq(Token) /\ Len(prompt) \in Nat
      /\ (prompt # <<>> => Len(prompt) > 0)
  BY ConstantFacts, EmptySeq, LenProperties DEF LoopInv, LoopType, prompt
<1>4. Prefilling'
  BY <1>1, <1>3 DEF LoopInv, Prefilling, sessionVars, loopVars, Fits, prompt, Aligned
<1>5. Decoding' /\ NoCallRefused'
  BY <1>1 DEF LoopInv, Decoding, NoCallRefused, sessionVars
<1>6. Serially'
  BY <1>1 DEF LoopInv, Serially, Answer, prompt, budget, loopVars
<1> QED
  BY <1>2, <1>4, <1>5, <1>6 DEF LoopInv

LEMMA PromptTokenType ==
  ASSUME LoopInv, pc = "prefill"
  PROVE  /\ PromptToken \in Token /\ PromptToken # NoToken
         /\ prompt \in Seq(Token) /\ Len(prompt) \in Nat /\ Len(fed) \in Nat
         /\ Len(fed) < Len(prompt)
<1>1. /\ prompt \in Seq(Token) /\ Len(prompt) \in Nat /\ Len(fed) \in Nat
      /\ Len(fed) < Len(prompt)
  BY ConstantFacts, LenProperties DEF LoopInv, LoopType, Prefilling, prompt
<1>2. Len(fed) + 1 \in 1..Len(prompt)
  BY <1>1
<1> QED
  BY <1>1, <1>2, ElementOfSeq, SessionAssumption DEF PromptToken, prompt

LEMMA SyncInv ==
  ASSUME LoopInv, Sync
  PROVE  LoopInv'
<1>1. /\ pc = "prefill" /\ pc' = "prefill" /\ draft_count # 0 /\ fed # <<>>
      /\ Aligned /\ drafted' = drafted + 1 /\ reply' = "ok" /\ synced' = PromptToken
      /\ UNCHANGED <<fed, predicted, request, draft_count, next, pending, emitted,
                     stopped, client_connected>>
  BY DEF Sync, NeedsSync, DraftCall
<1>2. PromptToken \in Token /\ Len(fed) \in Nat
  BY <1>1, PromptTokenType
<1>3. LoopType'
  BY <1>1, <1>2 DEF LoopInv, LoopType
<1>4. drafted' = Len(fed')
  BY <1>1, <1>2 DEF Aligned, LoopInv, LoopType
<1>5. Prefilling'
  BY <1>1, <1>4 DEF LoopInv, Prefilling, Fits, prompt, PromptToken
<1>6. Decoding' /\ NoCallRefused'
  BY <1>1 DEF Decoding, NoCallRefused
<1>7. Serially'
  BY <1>1 DEF LoopInv, Serially, Answer, prompt, budget
<1> QED
  BY <1>3, <1>5, <1>6, <1>7 DEF LoopInv

LEMMA PrefillInv ==
  ASSUME LoopInv, Prefill
  PROVE  LoopInv'
<1>1. /\ pc = "prefill" /\ ~NeedsSync /\ Block(<<PromptToken>>) /\ synced' = NoToken
      /\ next' = predicted'[1]
      /\ UNCHANGED <<request, draft_count, emitted, stopped, client_connected>>
  BY DEF Prefill
<1>2. /\ PromptToken \in Token /\ prompt \in Seq(Token)
      /\ Len(prompt) \in Nat /\ Len(fed) \in Nat /\ Len(fed) < Len(prompt)
  BY <1>1, PromptTokenType
<1>3. /\ fed' \in Seq(Token) /\ Len(fed') = Len(fed) + 1 /\ Len(fed') <= maximum_context
      /\ \A i \in 1..Len(fed) : fed'[i] = fed[i]
      /\ fed'[Len(fed) + 1] = PromptToken
      /\ predicted' \in Seq(Token) /\ Len(predicted') = 1
      /\ predicted'[1] = Target(fed')
      /\ drafted' = drafted /\ reply' = "ok"
  BY <1>1, <1>2, BlockAnswers DEF LoopInv
<1>4. predicted'[1] \in Token
  BY <1>3, ConstantFacts
<1>5. \A i \in 1..Len(fed') : fed'[i] = prompt[i]
  <2>1. \A i \in 1..Len(fed) : fed[i] = prompt[i]
    BY <1>1 DEF LoopInv, Prefilling
  <2>2. PromptToken = prompt[Len(fed) + 1]
    BY DEF PromptToken, prompt
  <2> QED
    BY <1>2, <1>3, <2>1, <2>2
<1>6. /\ emitted = <<>> /\ pending = <<>> /\ ~stopped /\ client_connected /\ Fits
      /\ draft_count \in Nat
  BY <1>1, ConstantFacts DEF LoopInv, LoopType, Prefilling
<1>7. /\ draft_count = 0 => drafted' = 0
      /\ draft_count # 0 => Aligned'
  <2>1. draft_count = 0 => drafted = 0
    BY <1>1 DEF LoopInv, Prefilling
  <2>2. draft_count # 0 => drafted = Len(fed)
    BY <1>1, EmptySeq DEF LoopInv, Prefilling, NeedsSync
  <2> QED
    BY <1>2, <1>3, <2>1, <2>2 DEF Aligned
<1>8. fed' # <<>>
  BY <1>2, <1>3, EmptySeq
<1>9. CASE Len(fed') # Len(prompt)
  <2>1. pc' = "prefill" /\ pending' = pending
    BY <1>9 DEF Prefill, prompt
  <2>2. LoopType'
    BY <1>1, <1>3, <1>4, <2>1, <1>6 DEF LoopInv, LoopType
  <2>3. Len(fed') < Len(prompt)
    BY <1>2, <1>3, <1>9
  <2>4. prompt' = prompt /\ Fits'
    BY <1>1, <1>6 DEF prompt, Fits
  <2>5. Prefilling'
    BY <1>1, <1>5, <1>6, <1>7, <1>8, <2>1, <2>3, <2>4 DEF Prefilling
  <2>6. Decoding' /\ NoCallRefused'
    BY <1>3, <2>1 DEF Decoding, NoCallRefused
  <2>7. Serially'
    BY <1>1, <2>1 DEF LoopInv, Serially, Answer, prompt, budget
  <2> QED
    BY <2>2, <2>5, <2>6, <2>7 DEF LoopInv
<1>10. CASE Len(fed') = Len(prompt)
  <2>1. pc' = "consume" /\ pending' = predicted' /\ prompt' = prompt /\ budget' = budget
    BY <1>1, <1>10 DEF Prefill, prompt, budget
  <2>2. LoopType'
    BY <1>1, <1>3, <1>4, <2>1 DEF LoopInv, LoopType
  <2>3. fed' = prompt
    BY <1>2, <1>3, <1>5, <1>10, SeqEqual
  <2>4. Answer' = predicted' /\ Len(Answer') = 1 /\ Answer' # <<>>
    <3>1. Answer' = <<>> \o predicted'
      BY <1>1, <1>6, <2>1 DEF Answer
    <3>2. <<>> \o predicted' = predicted'
      BY <1>3, TokenEmpty
    <3>3. predicted' # <<>>
      <4>1. Len(predicted') # Len(<<>>)
        BY <1>3, TokenEmpty
      <4> QED
        BY <4>1
    <3> QED
      BY <1>3, <3>1, <3>2, <3>3
  <2>5. /\ SubSeq(Answer', 1, 0) = <<>> /\ prompt \o <<>> = prompt
    BY <1>2, <2>4, SubSeqEmpty, TokenEmpty
  <2>6. Prefilling' /\ NoCallRefused'
    BY <1>3, <2>1 DEF Prefilling, NoCallRefused
  <2>7. Decoding'
    <3>1. fed' = prompt \o SubSeq(Answer', 1, Len(Answer') - 1)
      <4>1. Len(Answer') - 1 = 0
        BY <2>4
      <4> QED
        BY <2>3, <2>5, <4>1
    <3>2. Fits' /\ pending' # <<>>
      BY <1>1, <1>6, <2>1, <2>4 DEF Fits
    <3> QED
      BY <1>1, <1>6, <1>7, <2>1, <2>4, <3>1, <3>2 DEF Decoding
  <2>8. Serially'
    <3>1. Answer'[1] = Target(prompt \o SubSeq(Answer', 1, 0))
      BY <1>3, <2>3, <2>4, <2>5
    <3>2. budget \in Nat \ {0}
      BY ConstantFacts DEF LoopInv, LoopType, budget
    <3>3. emitted' = <<>> /\ Len(<<>>) = 0
      BY <1>1, <1>6
    <3> QED
      BY <2>1, <2>4, <3>1, <3>2, <3>3 DEF Serially
  <2> QED
    BY <2>2, <2>6, <2>7, <2>8 DEF LoopInv
<1> QED
  BY <1>9, <1>10

------------------------------------------------------------------------------
(* Decoding *)

(* A call that consumes the last token of the answer and, perhaps, some of *)
(* the tokens that follow it, and answers each.                            *)
LEMMA AnswerGrows ==
  ASSUME LoopInv, pc = "decode", NEW ts \in Seq(Token), ts # <<>>, Feed(ts),
         ts[1] = next, \A i \in 1..Len(ts) - 1 : ts[i + 1] = predicted'[i],
         Len(ts) <= budget - Len(emitted),
         drafted' \in Nat,
         draft_count = 0 => drafted' = 0,
         draft_count # 0 => Aligned' \/ Len(ts) = budget - Len(emitted),
         pc' = "consume", pending' = predicted',
         UNCHANGED <<request, draft_count, synced, next, emitted, stopped,
                     client_connected>>
  PROVE  LoopInv'
<1> DEFINE a == Answer
           b == Answer'
<1>1. /\ Fits /\ ~stopped /\ client_connected /\ pending = <<>>
      /\ next = emitted[Len(emitted)] /\ Answer # <<>>
      /\ fed = prompt \o SubSeq(Answer, 1, Len(Answer) - 1)
  BY DEF LoopInv, Decoding
<1>2. /\ emitted \in Seq(Token) /\ Answer = emitted /\ Len(emitted) \in Nat \ {0}
  <2>1. emitted \in Seq(Token) /\ Answer = emitted \o <<>>
    BY <1>1 DEF LoopInv, LoopType, Answer
  <2>2. emitted \o <<>> = emitted
    BY <2>1, TokenEmpty
  <2>3. emitted # <<>>
    BY <1>1, <2>1, <2>2
  <2> QED
    BY <2>1, <2>2, <2>3, EmptySeq
<1>3. /\ fed' = fed \o ts /\ fed' \in Seq(Token) /\ Len(fed') <= maximum_context
      /\ predicted' \in Seq(Token) /\ Len(predicted') = Len(ts)
      /\ \A i \in 1..Len(ts) : predicted'[i] = Target(fed \o SubSeq(ts, 1, i))
      /\ reply' = "ok"
  BY FeedAnswers DEF LoopInv
<1>4. /\ Len(ts) \in Nat \ {0} /\ budget \in Nat /\ prompt \in Seq(Token)
      /\ prompt' = prompt /\ budget' = budget
  BY ConstantFacts, EmptySeq DEF LoopInv, LoopType, prompt, budget
<1>5. b = a \o predicted'
  BY <1>2 DEF Answer
<1>6. /\ b \in Seq(Token) /\ Len(b) = Len(a) + Len(ts)
      /\ \A i \in 1..Len(a) + Len(ts) : b[i] = IF i <= Len(a) THEN a[i] ELSE predicted'[i - Len(a)]
  <2>1. /\ a \o predicted' \in Seq(Token)
        /\ Len(a \o predicted') = Len(a) + Len(predicted')
        /\ \A i \in 1..Len(a) + Len(predicted') :
             (a \o predicted')[i] = IF i <= Len(a) THEN a[i] ELSE predicted'[i - Len(a)]
    BY <1>2, <1>3, TokenConcat
  <2> QED
    BY <1>3, <1>5, <2>1
<1>7. /\ a \in Seq(Token) /\ Len(a) \in Nat \ {0} /\ Len(a) = Len(emitted) /\ a # <<>>
      /\ ts[1] = a[Len(a)]
  BY <1>1, <1>2
<1>8. \A j \in 0..Len(ts) :
        prompt \o SubSeq(b, 1, Len(a) + j - 1) = fed \o SubSeq(ts, 1, j)
  <2> DEFINE out == predicted'
  <2>1. prompt \in Seq(Token) /\ Chained(a, ts, out)
    BY <1>3, <1>4, <1>7 DEF Chained
  <2>2. b = a \o out /\ fed = prompt \o SubSeq(a, 1, Len(a) - 1)
    BY <1>1, <1>5
  <2> HIDE DEF a, b, out
  <2>3. FollowsAnswer(prompt, a, ts, out)
    BY <2>1, Histories
  <2> QED
    BY <2>2, <2>3, Zenon DEF FollowsAnswer
<1> HIDE DEF a, b
<1>9. LoopType'
  BY <1>3 DEF LoopInv, LoopType
<1>10. Prefilling' /\ NoCallRefused'
  BY <1>3 DEF Prefilling, NoCallRefused
<1>11. Decoding'
  <2>1. fed' = prompt \o SubSeq(b, 1, Len(b) - 1)
    <3>1. SubSeq(ts, 1, Len(ts)) = ts
      BY SubSeqFull
    <3>2. Len(a) + Len(ts) - 1 = Len(b) - 1 /\ Len(ts) \in 0..Len(ts)
      BY <1>4, <1>6, <1>7
    <3> QED
      BY <1>3, <1>8, <3>1, <3>2
  <2>2. b # <<>> /\ pending' # <<>>
    BY <1>3, <1>4, <1>6, <1>7, TokenEmpty
  <2>3. draft_count # 0 => Aligned' \/ Len(b) = budget
    BY <1>4, <1>6, <1>7
  <2>4. Fits'
    BY <1>1 DEF Fits
  <2> QED
    BY <1>1, <1>4, <2>1, <2>2, <2>3, <2>4 DEF Decoding, b
<1>12. Serially'
  <2>1. Len(b) <= budget
    BY <1>4, <1>6, <1>7
  <2>2. ASSUME NEW i \in 1..Len(b)
        PROVE  b[i] = Target(prompt \o SubSeq(b, 1, i - 1))
    <3>1. CASE i <= Len(a)
      <4>1. i \in 1..Len(a) /\ b[i] = a[i]
        BY <1>4, <1>6, <1>7, <3>1
      <4>2. a[i] = Target(prompt \o SubSeq(a, 1, i - 1))
        BY <4>1 DEF LoopInv, Serially, a
      <4>3. SubSeq(a, 1, i - 1) = SubSeq(b, 1, i - 1)
        <5>1. i - 1 \in 0..Len(a) /\ i - 1 <= Len(b) /\ \A x \in 1..i - 1 : a[x] = b[x]
          BY <1>4, <1>6, <1>7, <4>1
        <5> QED
          BY <1>6, <1>7, <5>1, SameFront
      <4> QED
        BY <4>1, <4>2, <4>3
    <3>2. CASE i > Len(a)
      <4> DEFINE j == i - Len(a)
      <4>1. j \in 1..Len(ts) /\ j \in 0..Len(ts) /\ Len(a) + j - 1 = i - 1 /\ b[i] = predicted'[j]
        BY SMTT(30), <1>4, <1>6, <1>7, <3>2
      <4>2. predicted'[j] = Target(fed \o SubSeq(ts, 1, j))
        BY <1>3, <4>1
      <4>3. prompt \o SubSeq(b, 1, Len(a) + j - 1) = fed \o SubSeq(ts, 1, j)
        BY <1>8, <4>1
      <4> QED
        BY <4>1, <4>2, <4>3
    <3> QED
      BY <1>6, <1>7, <3>1, <3>2
  <2>3. \A i \in 1..Len(emitted) : i < Len(emitted) \/ ~stopped => emitted[i] \notin Terminal
    BY DEF LoopInv, Serially
  <2> QED
    BY <1>4, <2>1, <2>2, <2>3 DEF Serially, b
<1> QED
  BY <1>9, <1>10, <1>11, <1>12 DEF LoopInv

(* Where the loop calls the session, and how much room there is.           *)
LEMMA RoomLeft ==
  ASSUME LoopInv, pc = "decode"
  PROVE  /\ emitted \in Seq(Token) /\ Len(emitted) \in Nat \ {0}
         /\ Answer = emitted /\ next \in Token
         /\ budget \in Nat /\ Len(emitted) < budget
         /\ Room \in Nat /\ Room > budget - Len(emitted)
         /\ draft_count \in Nat /\ draft_count <= MaximumBlock - 1
         /\ draft_count # 0 => Aligned
<1>1. /\ Fits /\ pending = <<>> /\ next = emitted[Len(emitted)] /\ Answer # <<>>
      /\ fed = prompt \o SubSeq(Answer, 1, Len(Answer) - 1)
      /\ Len(emitted) < budget
      /\ draft_count # 0 => Aligned \/ Len(Answer) = budget
  BY DEF LoopInv, Decoding
<1>2. emitted \in Seq(Token) /\ Answer = emitted
  <2>1. emitted \in Seq(Token) /\ Answer = emitted \o <<>>
    BY <1>1 DEF LoopInv, LoopType, Answer
  <2> QED
    BY <2>1, TokenEmpty
<1>3. Len(emitted) \in Nat \ {0} /\ next \in Token
  <2>1. Len(emitted) \in Nat \ {0}
    BY <1>1, <1>2, EmptySeq
  <2>2. Len(emitted) \in 1..Len(emitted)
    BY <2>1
  <2> QED
    BY <1>1, <1>2, <2>1, <2>2, ElementOfSeq
<1>4. /\ prompt \in Seq(Token) /\ budget \in Nat /\ Len(prompt) \in Nat
      /\ maximum_context \in Nat /\ MaximumBlock \in Nat
      /\ draft_count \in Nat /\ draft_count <= MaximumBlock - 1
  BY ConstantFacts, LenProperties DEF LoopInv, LoopType, prompt, budget
<1>5. Len(fed) = Len(prompt) + Len(emitted) - 1
  <2>1. Len(emitted) - 1 \in 0..Len(emitted)
    BY <1>3
  <2>2. /\ SubSeq(emitted, 1, Len(emitted) - 1) \in Seq(Token)
        /\ Len(SubSeq(emitted, 1, Len(emitted) - 1)) = Len(emitted) - 1
    BY <1>2, <2>1, FrontType
  <2>3. Len(fed) = Len(prompt) + (Len(emitted) - 1)
    BY <1>1, <1>2, <1>4, <2>2, TokenConcat
  <2> QED
    BY <1>3, <1>4, <2>3
<1>6. Len(prompt) + budget <= maximum_context
  BY <1>1 DEF Fits, prompt, budget
<1>7. Room \in Nat /\ Room > budget - Len(emitted)
  BY <1>1, <1>3, <1>4, <1>5, <1>6 DEF Room
<1>8. draft_count # 0 => Aligned
  BY <1>1, <1>2, <1>3, <1>4
<1> QED
  BY <1>1, <1>2, <1>3, <1>4, <1>7, <1>8

LEMMA DecodeOneInv ==
  ASSUME LoopInv, DecodeOne
  PROVE  LoopInv'
<1>1. /\ pc = "decode" /\ OneAtATime /\ Feed(<<next>>) /\ drafted' = drafted
      /\ pc' = "consume" /\ pending' = predicted'
      /\ UNCHANGED <<request, draft_count, synced, next, emitted, stopped,
                     client_connected>>
  BY DEF DecodeOne, Block
<1>2. /\ next \in Token /\ budget \in Nat /\ Len(emitted) \in Nat
      /\ Len(emitted) < budget
  BY <1>1, RoomLeft
<1>3. <<next>> \in Seq(Token) /\ Len(<<next>>) = 1 /\ <<next>>[1] = next /\ <<next>> # <<>>
  BY <1>2
<1>4. draft_count # 0 => Len(<<next>>) = budget - Len(emitted)
  BY <1>1, <1>3 DEF OneAtATime, remaining, budget
<1>5. drafted' \in Nat /\ (draft_count = 0 => drafted' = 0)
  BY <1>1 DEF LoopInv, LoopType, Decoding
<1>6. Len(<<next>>) <= budget - Len(emitted)
      /\ \A i \in 1..Len(<<next>>) - 1 : <<next>>[i + 1] = predicted'[i]
  BY <1>2, <1>3
<1> QED
  BY <1>1, <1>3, <1>4, <1>5, <1>6, AnswerGrows

LEMMA DepthFacts ==
  ASSUME LoopInv, pc = "decode", ~OneAtATime
  PROVE  /\ round_depth \in 1..MaximumBlock - 1 /\ round_depth \in Nat
         /\ round_depth + 1 <= budget - Len(emitted)
         /\ draft_count # 0
         /\ SpeculationAccepted(round_depth)
<1>1. /\ Len(emitted) \in Nat /\ budget \in Nat /\ Len(emitted) < budget
      /\ Room \in Nat /\ Room > budget - Len(emitted)
      /\ draft_count \in Nat /\ draft_count <= MaximumBlock - 1
      /\ draft_count # 0 => Aligned
      /\ MaximumBlock \in Nat
  BY RoomLeft, ConstantFacts
<1>2. draft_count # 0 /\ remaining # 1 /\ remaining = budget - Len(emitted)
  BY DEF OneAtATime, remaining, budget
<1>3. round_depth \in Nat /\ round_depth >= 1 /\ round_depth <= draft_count
      /\ round_depth + 1 <= budget - Len(emitted)
  BY <1>1, <1>2 DEF round_depth, Least
<1> QED
  BY <1>1, <1>2, <1>3 DEF SpeculationAccepted

LEMMA DecodeRoundInv ==
  ASSUME LoopInv, DecodeRound
  PROVE  LoopInv'
<1>1. /\ pc = "decode" /\ ~OneAtATime /\ Speculate(next, round_depth)
      /\ pc' = "consume" /\ pending' = predicted'
      /\ UNCHANGED <<request, draft_count, synced, next, emitted, stopped,
                     client_connected>>
  BY DEF DecodeRound
<1>2. /\ round_depth \in Nat /\ round_depth + 1 <= budget - Len(emitted)
      /\ draft_count # 0 /\ Aligned
  BY <1>1, DepthFacts DEF SpeculationAccepted
<1>3. PICK accepted \in 0..round_depth : \E ts \in [1..accepted + 1 -> Token] :
        /\ ts[1] = next
        /\ Feed(ts)
        /\ \A i \in 1..accepted : ts[i + 1] = predicted'[i]
        /\ drafted' = drafted + accepted + 1
  BY <1>1 DEF Speculate
<1>4. PICK ts \in [1..accepted + 1 -> Token] :
        /\ ts[1] = next
        /\ Feed(ts)
        /\ \A i \in 1..accepted : ts[i + 1] = predicted'[i]
        /\ drafted' = drafted + accepted + 1
  BY <1>3
<1>5. accepted \in Nat /\ accepted <= round_depth
  BY <1>2
<1>6. ts \in Seq(Token)
  <2>1. accepted + 1 \in Nat
    BY <1>5
  <2> QED
    BY <2>1, SeqDef
<1>7. Len(ts) = accepted + 1 /\ ts # <<>>
  <2>1. Len(ts) = accepted + 1
    BY <1>5, <1>6, LenProperties
  <2> QED
    BY <1>5, <1>6, <2>1, TokenEmpty
<1>8. drafted \in Nat /\ Len(fed) \in Nat /\ budget \in Nat /\ Len(emitted) \in Nat
  BY <1>1, RoomLeft, LenProperties DEF LoopInv, LoopType
<1>9. Len(fed') = Len(fed) + Len(ts)
  BY <1>4, <1>6, FeedAnswers DEF LoopInv
<1>10. Aligned' /\ drafted' \in Nat
  BY <1>2, <1>4, <1>5, <1>7, <1>8, <1>9 DEF Aligned
<1>11. Len(ts) <= budget - Len(emitted)
       /\ \A i \in 1..Len(ts) - 1 : ts[i + 1] = predicted'[i]
  BY <1>2, <1>4, <1>5, <1>7, <1>8
<1> QED
  BY <1>1, <1>2, <1>4, <1>6, <1>7, <1>10, <1>11, AnswerGrows

(* Where the loop calls the session, the session takes the call.           *)
LEMMA NotRejected ==
  ASSUME LoopInv, pc \in {"prefill", "decode"}
  PROVE  ~Rejected
<1>1. CASE pc = "prefill"
  <2>1. /\ prompt \in Seq(Token) /\ Len(prompt) \in Nat /\ Len(fed) \in Nat
        /\ Len(fed) < Len(prompt) /\ PromptToken # NoToken
    BY <1>1, PromptTokenType
  <2>2. budget \in Nat \ {0} /\ maximum_context \in Nat /\ draft_count \in Nat
    BY ConstantFacts DEF LoopInv, LoopType, budget
  <2>3. Len(prompt) + budget <= maximum_context
    BY <1>1 DEF LoopInv, Prefilling, Fits, prompt, budget
  <2>4. Room # 0
    BY <2>1, <2>2, <2>3 DEF Room
  <2>5. NeedsSync => Aligned
    BY <1>1, <2>1 DEF LoopInv, Prefilling, NeedsSync
  <2> QED
    BY <1>1, <2>4, <2>5 DEF Rejected
<1>2. CASE pc = "decode"
  <2>1. Room # 0
    BY <1>2, RoomLeft
  <2>2. ~OneAtATime => SpeculationAccepted(round_depth)
    BY <1>2, DepthFacts
  <2> QED
    BY <1>2, <2>1, <2>2 DEF Rejected
<1> QED
  BY <1>1, <1>2

LEMMA CallFailsInv ==
  ASSUME LoopInv, CallFails
  PROVE  LoopInv'
<1>1. /\ pc' = "error" /\ reply' = "failed"
      /\ UNCHANGED <<fed, predicted, drafted, request, draft_count, loopVars>>
  BY NotRejected DEF CallFails, Failed
<1>2. LoopType' /\ Prefilling' /\ Decoding' /\ NoCallRefused'
  BY <1>1 DEF LoopInv, LoopType, Prefilling, Decoding, NoCallRefused, loopVars
<1>3. Serially'
  BY <1>1 DEF LoopInv, Serially, Answer, prompt, budget, loopVars
<1> QED
  BY <1>2, <1>3 DEF LoopInv

------------------------------------------------------------------------------
(* Consuming *)

LEMMA TakeFacts ==
  ASSUME LoopInv, Take
  PROVE  /\ Answer' = Answer /\ Answer \in Seq(Token)
         /\ emitted' \in Seq(Token) /\ pending' \in Seq(Token) /\ next' \in Token
         /\ emitted' = Append(emitted, next')
         /\ Len(emitted) \in Nat /\ Len(emitted') = Len(emitted) + 1
         /\ \A i \in 1..Len(emitted) : emitted'[i] = emitted[i] /\ emitted[i] \notin Terminal
         /\ emitted'[Len(emitted')] = next'
         /\ Len(emitted') + Len(pending') = Len(Answer)
         /\ Len(emitted') <= budget /\ budget \in Nat
         /\ ~stopped /\ client_connected
<1>1. /\ pc = "consume" /\ next' = Head(pending) /\ pending' = Tail(pending)
      /\ emitted' = Append(emitted, Head(pending))
  BY DEF Take
<1>2. /\ emitted \in Seq(Token) /\ pending \in Seq(Token) /\ pending # <<>>
      /\ ~stopped /\ client_connected
  BY <1>1 DEF LoopInv, LoopType, Decoding
<1>3. /\ Append(emitted, Head(pending)) \o Tail(pending) = emitted \o pending
      /\ Append(emitted, Head(pending)) \in Seq(Token) /\ Tail(pending) \in Seq(Token)
      /\ Head(pending) \in Token
  BY <1>2, Consumed
<1>4. Answer' = Answer
  BY <1>1, <1>3 DEF Answer
<1>5. /\ Len(emitted') = Len(emitted) + 1
      /\ \A i \in 1..Len(emitted) : emitted'[i] = emitted[i]
      /\ emitted'[Len(emitted) + 1] = Head(pending) /\ Len(emitted) \in Nat
  BY <1>1, <1>2, <1>3, AppendProperties, LenProperties
<1>6. Answer' \in Seq(Token) /\ Len(Answer') = Len(emitted') + Len(pending')
  BY <1>1, <1>3, TokenConcat DEF Answer
<1>7. Len(Answer) <= budget /\ budget \in Nat
  BY ConstantFacts DEF LoopInv, LoopType, Serially, budget
<1>8. Len(emitted') <= budget
  <2>1. Len(pending') \in Nat /\ Len(emitted') \in Nat
    BY <1>1, <1>3, LenProperties
  <2> QED
    BY <1>4, <1>6, <1>7, <2>1
<1>9. \A i \in 1..Len(emitted) : emitted[i] \notin Terminal
  BY <1>2 DEF LoopInv, Serially
<1> QED
  BY <1>1, <1>2, <1>3, <1>4, <1>5, <1>6, <1>7, <1>8, <1>9

(* The token taken is the next of the answer, and the loop goes on only as *)
(* long as the answer may.                                                 *)
LEMMA ConsumeInv ==
  ASSUME LoopInv, Take, Continue,
         stopped' \in BOOLEAN, stopped' <=> next' \in Terminal,
         client_connected' \in BOOLEAN
  PROVE  LoopInv'
<1>1. /\ Answer' = Answer /\ Answer \in Seq(Token)
      /\ emitted' \in Seq(Token) /\ pending' \in Seq(Token) /\ next' \in Token
      /\ emitted' = Append(emitted, next')
      /\ Len(emitted) \in Nat /\ Len(emitted') = Len(emitted) + 1
      /\ \A i \in 1..Len(emitted) : emitted'[i] = emitted[i] /\ emitted[i] \notin Terminal
      /\ emitted'[Len(emitted')] = next'
      /\ Len(emitted') + Len(pending') = Len(Answer)
      /\ Len(emitted') <= budget /\ budget \in Nat
  BY TakeFacts
<1>2. /\ pc = "consume"
      /\ UNCHANGED <<fed, predicted, drafted, reply, request, draft_count, synced>>
      /\ prompt' = prompt /\ budget' = budget
  BY DEF Take, sessionVars, prompt, budget
<1>3. /\ pc' \in {"finish", "decode", "consume"}
      /\ pc' = "finish" => ~client_connected' \/ stopped' \/ Len(emitted') = budget
      /\ pc' # "finish" => client_connected' /\ ~stopped' /\ Len(emitted') # budget
      /\ pc' = "decode" => pending' = <<>>
      /\ pc' = "consume" => pending' # <<>>
  BY DEF Continue, budget
<1>4. LoopType'
  BY <1>1, <1>2, <1>3 DEF LoopInv, LoopType
<1>5. Prefilling' /\ NoCallRefused'
  BY <1>2, <1>3 DEF LoopInv, Prefilling, NoCallRefused
<1>6. Decoding'
  <2>1. /\ Fits /\ Answer # <<>> /\ fed = prompt \o SubSeq(Answer, 1, Len(Answer) - 1)
        /\ draft_count = 0 => drafted = 0
        /\ draft_count # 0 => Aligned \/ Len(Answer) = budget
    BY <1>2 DEF LoopInv, Decoding
  <2>2. Fits' /\ (Aligned' <=> Aligned)
    BY <1>2, <2>1 DEF Fits, Aligned
  <2>3. fed' = prompt' \o SubSeq(Answer', 1, Len(Answer') - 1)
    BY <1>1, <1>2, <2>1
  <2>4. pc' = "decode" => Len(emitted') < budget
    BY <1>1, <1>3
  <2>5. draft_count' # 0 => Aligned' \/ Len(Answer') = budget'
    BY <1>1, <1>2, <2>1, <2>2
  <2> QED
    BY <1>1, <1>2, <1>3, <2>1, <2>2, <2>3, <2>4, <2>5 DEF Decoding
<1>7. Serially'
  <2>1. Len(Answer') <= budget'
    BY <1>1, <1>2 DEF LoopInv, Serially
  <2>2. \A i \in 1..Len(Answer') :
          Answer'[i] = Target(prompt' \o SubSeq(Answer', 1, i - 1))
    BY <1>1, <1>2 DEF LoopInv, Serially
  <2>3. \A i \in 1..Len(emitted') :
          i < Len(emitted') \/ ~stopped' => emitted'[i] \notin Terminal
    <3> SUFFICES ASSUME NEW i \in 1..Len(emitted'), i < Len(emitted') \/ ~stopped'
                 PROVE  emitted'[i] \notin Terminal
      OBVIOUS
    <3>1. CASE i = Len(emitted')
      BY <1>1, <3>1
    <3>2. CASE i # Len(emitted')
      BY <1>1, <3>2
    <3> QED
      BY <3>1, <3>2
  <2>4. pc' \in {"finish", "usage"} /\ client_connected' =>
          \/ Len(emitted') = budget'
          \/ emitted' # <<>> /\ emitted'[Len(emitted')] \in Terminal
    <3>1. emitted' # <<>>
      <4>1. Len(emitted') # Len(<<>>)
        BY <1>1, TokenEmpty
      <4> QED
        BY <4>1
    <3> QED
      BY <1>1, <1>2, <1>3, <3>1
  <2> QED
    BY <2>1, <2>2, <2>3, <2>4 DEF Serially
<1> QED
  BY <1>4, <1>5, <1>6, <1>7 DEF LoopInv

LEMMA ConsumeTerminalInv ==
  ASSUME LoopInv, ConsumeTerminal
  PROVE  LoopInv'
<1>1. /\ Take /\ Continue /\ next' \in Terminal /\ stopped' = TRUE
      /\ client_connected' = client_connected
  BY DEF ConsumeTerminal
<1>2. client_connected' \in BOOLEAN
  BY <1>1 DEF LoopInv, LoopType
<1> QED
  BY <1>1, <1>2, ConsumeInv

LEMMA ConsumeContentInv ==
  ASSUME LoopInv, ConsumeContent
  PROVE  LoopInv'
<1>1. Take /\ Continue /\ next' \notin Terminal /\ stopped' = stopped /\ Emit
  BY DEF ConsumeContent
<1>2. ~stopped /\ client_connected
  BY <1>1, TakeFacts
<1>3. client_connected' = client_connected \/ client_connected' = FALSE
  BY <1>1 DEF Emit
<1>4. stopped \in BOOLEAN /\ client_connected \in BOOLEAN
  BY DEF LoopInv, LoopType
<1> QED
  BY <1>1, <1>2, <1>3, <1>4, ConsumeInv

LEMMA DecodeTextFailsInv ==
  ASSUME LoopInv, DecodeTextFails
  PROVE  LoopInv'
<1>1. /\ Take /\ next' \notin Terminal /\ pc' = "error"
      /\ UNCHANGED <<stopped, client_connected>>
  BY DEF DecodeTextFails
<1>2. /\ Answer' = Answer
      /\ emitted' \in Seq(Token) /\ pending' \in Seq(Token) /\ next' \in Token
      /\ Len(emitted) \in Nat /\ Len(emitted') = Len(emitted) + 1
      /\ \A i \in 1..Len(emitted) : emitted'[i] = emitted[i] /\ emitted[i] \notin Terminal
      /\ emitted'[Len(emitted')] = next'
  BY <1>1, TakeFacts
<1>3. /\ UNCHANGED <<fed, predicted, drafted, reply, request, draft_count, synced>>
      /\ prompt' = prompt /\ budget' = budget
  BY <1>1 DEF Take, sessionVars, prompt, budget
<1>4. LoopType' /\ Prefilling' /\ Decoding' /\ NoCallRefused'
  BY <1>1, <1>2, <1>3 DEF LoopInv, LoopType, Prefilling, Decoding, NoCallRefused
<1>5. Serially'
  <2>1. \A i \in 1..Len(emitted') : emitted'[i] \notin Terminal
    <3> SUFFICES ASSUME NEW i \in 1..Len(emitted') PROVE emitted'[i] \notin Terminal
      OBVIOUS
    <3>1. CASE i = Len(emitted')
      BY <1>1, <1>2, <3>1
    <3>2. CASE i # Len(emitted')
      BY <1>2, <3>2
    <3> QED
      BY <3>1, <3>2
  <2> QED
    BY <1>1, <1>2, <1>3, <2>1 DEF LoopInv, Serially
<1> QED
  BY <1>4, <1>5 DEF LoopInv

------------------------------------------------------------------------------
(* Closing the reply only moves pc.                                        *)

LEMMA CloseInv ==
  ASSUME LoopInv, Finish \/ SendUsage \/ ReportError \/ SendDone \/ UNCHANGED vars
  PROVE  LoopInv'
<1>1. UNCHANGED <<sessionVars, request, draft_count, loopVars>>
  BY DEF Finish, SendUsage, ReportError, SendDone, vars
<1>2. \/ pc' = pc
      \/ pc = "finish" /\ pc' \in {"usage", "done", "closed"}
      \/ pc = "usage" /\ pc' \in {"done", "closed"}
      \/ pc' \in {"done", "closed"}
  BY DEF Finish, SendUsage, ReportError, SendDone, SendOr, vars
<1>3. LoopType' /\ NoCallRefused'
  BY <1>1, <1>2 DEF LoopInv, LoopType, NoCallRefused, sessionVars, loopVars
<1>4. Prefilling'
  BY <1>1, <1>2 DEF LoopInv, Prefilling, prompt, PromptToken, Fits, Aligned, sessionVars,
                    loopVars
<1>5. Decoding'
  BY <1>1, <1>2 DEF LoopInv, Decoding, Answer, prompt, budget, Fits, Aligned, sessionVars,
                    loopVars
<1>6. Serially'
  BY <1>1, <1>2 DEF LoopInv, Serially, Answer, prompt, budget, loopVars
<1> QED
  BY <1>3, <1>4, <1>5, <1>6 DEF LoopInv

(* The loop invariant: prefill feeds the prompt's own tokens in order with *)
(* the draft cache in step; from then on the session has been fed all of   *)
(* its answer but the last token, and the answer is serial.                *)
THEOREM LoopInvariance == Spec => []LoopInv
<1>1. LoopInv /\ [Next]_vars => LoopInv'
  <2> SUFFICES ASSUME LoopInv, [Next]_vars PROVE LoopInv'
    OBVIOUS
  <2>1. CASE Open \/ CreateSession
    BY <2>1, OpenInv
  <2>2. CASE Sync
    BY <2>2, SyncInv
  <2>3. CASE Prefill
    BY <2>3, PrefillInv
  <2>4. CASE DecodeOne
    BY <2>4, DecodeOneInv
  <2>5. CASE DecodeRound
    BY <2>5, DecodeRoundInv
  <2>6. CASE CallFails
    BY <2>6, CallFailsInv
  <2>7. CASE ConsumeTerminal
    BY <2>7, ConsumeTerminalInv
  <2>8. CASE ConsumeContent
    BY <2>8, ConsumeContentInv
  <2>9. CASE DecodeTextFails
    BY <2>9, DecodeTextFailsInv
  <2>10. CASE Finish \/ SendUsage \/ ReportError \/ SendDone \/ UNCHANGED vars
    BY <2>10, CloseInv
  <2> QED
    BY <2>1, <2>2, <2>3, <2>4, <2>5, <2>6, <2>7, <2>8, <2>9, <2>10
       DEF Next, Handle, Closed
<1> QED
  BY InitLoop, <1>1, PTL DEF Spec

(* The loop never makes a call that the session's guards reject.           *)
THEOREM NoCallIsRefused == Spec => []NoCallRefused
<1>1. LoopInv => NoCallRefused
  BY DEF LoopInv
<1> QED
  BY LoopInvariance, <1>1, PTL

(* The token given to mtp_draft is the next one the target is fed.         *)
THEOREM CallerPromiseKept == Spec => []CallerKeepsPromise
<1>1. LoopInv => CallerKeepsPromise
  <2> SUFFICES ASSUME LoopInv, pc \in {"prefill", "decode"}, fed # <<>>, drafted = Len(fed)
               PROVE  pc = "prefill" /\ synced = PromptToken
    BY DEF CallerKeepsPromise
  <2>1. Len(fed) \in Nat \ {0} /\ drafted \in Nat
    BY EmptySeq, LenProperties DEF LoopInv, LoopType
  <2>2. draft_count # 0 /\ ~Aligned
    <3>1. draft_count = 0 => drafted = 0
      BY DEF LoopInv, Prefilling, Decoding
    <3> QED
      BY <2>1, <3>1 DEF Aligned
  <2>3. pc # "decode"
    BY <2>2, RoomLeft
  <2> QED
    BY <2>2, <2>3 DEF LoopInv, Prefilling
<1> QED
  BY LoopInvariance, <1>1, PTL

(* The client is answered with the serial greedy continuation of its       *)
(* prompt, up to the first terminal token or the budget.                   *)
THEOREM AnswersAreSerial == Spec => []AnswerIsSerial
<1>1. LoopInv => AnswerIsSerial
  <2> SUFFICES ASSUME LoopInv PROVE AnswerIsSerial
    OBVIOUS
  <2>1. /\ emitted \in Seq(Token) /\ pending \in Seq(Token) /\ stopped \in BOOLEAN
        /\ Len(emitted) \in Nat /\ Len(pending) \in Nat /\ budget \in Nat
    BY ConstantFacts, LenProperties DEF LoopInv, LoopType, budget
  <2>2. /\ Answer \in Seq(Token) /\ Len(Answer) = Len(emitted) + Len(pending)
        /\ \A i \in 1..Len(emitted) : Answer[i] = emitted[i]
    <3>1. /\ emitted \o pending \in Seq(Token)
          /\ Len(emitted \o pending) = Len(emitted) + Len(pending)
          /\ \A i \in 1..Len(emitted) + Len(pending) :
               (emitted \o pending)[i]
                 = IF i <= Len(emitted) THEN emitted[i] ELSE pending[i - Len(emitted)]
      BY <2>1, TokenConcat
    <3>2. \A i \in 1..Len(emitted) : i \in 1..Len(emitted) + Len(pending) /\ i <= Len(emitted)
      BY <2>1
    <3>3. \A i \in 1..Len(emitted) : (emitted \o pending)[i] = emitted[i]
      BY <3>1, <3>2
    <3> QED
      BY <3>1, <3>3 DEF Answer
  <2>3. Len(emitted) <= budget
    BY <2>1, <2>2 DEF LoopInv, Serially
  <2>4. ASSUME NEW i \in 1..Len(emitted)
        PROVE  /\ emitted[i] = Target(prompt \o SubSeq(emitted, 1, i - 1))
               /\ i < Len(emitted) => emitted[i] \notin Terminal
    <3>1. i \in 1..Len(Answer) /\ Answer[i] = emitted[i]
      BY <2>1, <2>2
    <3>2. emitted[i] = Target(prompt \o SubSeq(Answer, 1, i - 1))
      BY <3>1 DEF LoopInv, Serially
    <3>3. SubSeq(emitted, 1, i - 1) = SubSeq(Answer, 1, i - 1)
      <4>1. /\ i - 1 \in 0..Len(emitted) /\ i - 1 <= Len(Answer)
            /\ \A x \in 1..i - 1 : emitted[x] = Answer[x]
        BY <2>1, <2>2
      <4> QED
        BY <2>1, <2>2, <4>1, SameFront
    <3>4. i < Len(emitted) => emitted[i] \notin Terminal
      BY DEF LoopInv, Serially
    <3> QED
      BY <3>2, <3>3, <3>4
  <2>5. pc \in {"finish", "usage"} /\ client_connected =>
          \/ Len(emitted) = budget
          \/ emitted # <<>> /\ emitted[Len(emitted)] \in Terminal
    BY DEF LoopInv, Serially
  <2> QED
    BY <2>3, <2>4, <2>5 DEF AnswerIsSerial, prompt, budget
<1> QED
  BY LoopInvariance, <1>1, PTL

------------------------------------------------------------------------------
(* The reply.  What is on the connection bounds what may still be put      *)
(* there, and an end is reported only for an answer that is over.          *)

Early == {"headers", "role", "delta"}
KindsIn(K) == \A i \in 1..Len(reply_events) : reply_events[i].kind \in K

Ordered ==
  \A i, j \in 1..Len(reply_events) : i < j =>
    \/ Stage(Kinds[i]) < Stage(Kinds[j])
    \/ Kinds[i] = Kinds[j] /\ Kinds[i] \in {"delta", "cut"}

AnswerOver == Len(emitted) = budget \/ stopped
UsageAsAsked == Sent("finish") => (Sent("usage") <=> request.usage)

Protocol ==
  /\ \E S : reply_events \in Seq(S)
  /\ Ordered
  /\ pc = "open" => reply_events = <<>>
  /\ pc \in {"check", "prefill", "consume", "decode", "error"} =>
       client_connected /\ KindsIn(Early)
  /\ pc = "finish" /\ client_connected => KindsIn(Early)
  /\ pc = "usage" => client_connected /\ request.usage /\ KindsIn(Early \cup {"finish"})
  /\ pc = "done" =>
       client_connected /\ KindsIn(Early \cup {"finish", "usage", "error", "cut"})
  /\ ~client_connected => pc \in {"finish", "closed"} /\ KindsIn(Early \cup {"cut"})
  /\ Sent("finish") \/ Sent("completion") => AnswerOver
  /\ pc = "done" \/ Sent("done") => UsageAsAsked

LEMMA StageValues ==
  /\ Stage("headers") = 1 /\ Stage("role") = 2 /\ Stage("delta") = 3
  /\ Stage("finish") = 4 /\ Stage("error") = 4 /\ Stage("completion") = 4
  /\ Stage("usage") = 5 /\ Stage("cut") = 6 /\ Stage("done") = 7
BY DEF Stage

LEMMA Appended ==
  ASSUME NEW S, NEW s \in Seq(S), NEW e
  PROVE  /\ Append(s, e) \in Seq(S \cup {e}) /\ Len(Append(s, e)) = Len(s) + 1
         /\ Len(s) \in Nat
         /\ \A i \in 1..Len(s) : Append(s, e)[i] = s[i]
         /\ Append(s, e)[Len(s) + 1] = e
<1>1. Len(s) \in Nat /\ s \in [1..Len(s) -> S \cup {e}]
  BY LenProperties
<1>2. s \in Seq(S \cup {e})
  BY <1>1, SeqDef
<1> QED
  BY <1>1, <1>2, AppendProperties

(* An event that may follow all events before it.                          *)
MayFollow(kind) ==
  \A i \in 1..Len(reply_events) :
    \/ Stage(reply_events[i].kind) < Stage(kind)
    \/ reply_events[i].kind = kind /\ kind \in {"delta", "cut"}

LEMMA EventAppended ==
  ASSUME \E S : reply_events \in Seq(S), Ordered, NEW kind, NEW bytes, MayFollow(kind),
         reply_events' = Append(reply_events, Event(kind, bytes))
  PROVE  /\ \E S : reply_events' \in Seq(S)
         /\ Ordered'
         /\ \A K : KindsIn(K) /\ kind \in K => KindsIn(K)'
         /\ \A k : Sent(k)' <=> Sent(k) \/ k = kind
<1> DEFINE e == Event(kind, bytes)
           n == Len(reply_events)
<1>1. PICK S : reply_events \in Seq(S)
  OBVIOUS
<1>2. /\ reply_events' \in Seq(S \cup {e}) /\ Len(reply_events') = n + 1 /\ n \in Nat
      /\ \A i \in 1..n : reply_events'[i] = reply_events[i]
      /\ reply_events'[n + 1] = e
  BY <1>1, Appended
<1>3. e.kind = kind
  BY DEF Event
<1> HIDE DEF e
<1>4. \A i \in 1..n + 1 :
        reply_events'[i].kind = IF i = n + 1 THEN kind ELSE reply_events[i].kind
  BY <1>2, <1>3
<1>5. Ordered'
  <2> SUFFICES ASSUME NEW i \in 1..Len(reply_events'), NEW j \in 1..Len(reply_events'),
                      i < j
               PROVE  \/ Stage(Kinds'[i]) < Stage(Kinds'[j])
                      \/ Kinds'[i] = Kinds'[j] /\ Kinds'[i] \in {"delta", "cut"}
    BY DEF Ordered
  <2>1. i \in 1..n + 1 /\ j \in 1..n + 1
    BY <1>2
  <2>2. Kinds'[i] = reply_events'[i].kind /\ Kinds'[j] = reply_events'[j].kind
    BY DEF Kinds
  <2>3. i \in 1..n /\ reply_events'[i].kind = reply_events[i].kind
    BY <1>2, <1>4, <2>1
  <2>4. CASE j = n + 1
    BY <1>2, <1>4, <2>1, <2>2, <2>3, <2>4 DEF MayFollow
  <2>5. CASE j # n + 1
    BY <1>2, <1>4, <2>1, <2>2, <2>3, <2>5 DEF Ordered, Kinds
  <2> QED
    BY <2>4, <2>5
<1>6. ASSUME NEW K, KindsIn(K), kind \in K
      PROVE  KindsIn(K)'
  BY <1>2, <1>4, <1>6 DEF KindsIn
<1>7. ASSUME NEW k
      PROVE  Sent(k)' <=> Sent(k) \/ k = kind
  BY <1>2, <1>4 DEF Sent
<1> QED
  BY <1>2, <1>5, <1>6, <1>7

LEMMA NotSent ==
  ASSUME NEW K, KindsIn(K), NEW kind, kind \notin K
  PROVE  ~Sent(kind)
BY DEF KindsIn, Sent

(* What is sent next fits behind kinds of lower stages.                    *)
Behind(K, kind) ==
  \A k \in K : Stage(k) < Stage(kind) \/ (k = kind /\ kind \in {"delta", "cut"})

(* The parts of Protocol that speak of the connection alone.               *)
Connection == (\E S : reply_events \in Seq(S)) /\ Ordered

LEMMA Sending ==
  ASSUME Connection, NEW K, KindsIn(K), NEW kind, Behind(K, kind), NEW bytes,
         Delivered(kind, bytes)
  PROVE  /\ Connection' /\ KindsIn(K \cup {kind})'
         /\ \A k : Sent(k)' <=> Sent(k) \/ k = kind
<1>1. MayFollow(kind)
  BY DEF MayFollow, Behind, KindsIn
<1>2. KindsIn(K \cup {kind})
  BY DEF KindsIn
<1>3. kind \in K \cup {kind}
  OBVIOUS
<1>4. reply_events' = Append(reply_events, Event(kind, bytes))
  BY DEF Delivered
<1> QED
  BY <1>1, <1>2, <1>3, <1>4, EventAppended DEF Connection

LEMMA Silent ==
  ASSUME Connection, UNCHANGED reply_events
  PROVE  /\ Connection' /\ \A K : KindsIn(K) => KindsIn(K)'
         /\ \A k : Sent(k)' <=> Sent(k)
BY DEF Connection, Ordered, Kinds, KindsIn, Sent

LEMMA Losing ==
  ASSUME Connection, NEW K, KindsIn(K), Behind(K, "cut"), Lost
  PROVE  /\ Connection' /\ KindsIn(K \cup {"cut"})'
         /\ \A k : k # "cut" => (Sent(k)' <=> Sent(k))
<1>1. CASE UNCHANGED reply_events
  <2>1. KindsIn(K \cup {"cut"})
    BY DEF KindsIn
  <2> QED
    BY <1>1, <2>1, Silent
<1>2. CASE reply_events' = Append(reply_events, Event("cut", <<>>))
  <2>1. Delivered("cut", <<>>)
    BY <1>2 DEF Delivered
  <2> QED
    BY <2>1, Sending
<1> QED
  BY <1>1, <1>2 DEF Lost

(* The answer is over when the loop ends with the client there.            *)
LEMMA FinishedAnswer ==
  ASSUME LoopInv, pc = "finish", client_connected
  PROVE  AnswerOver
<1>1. CASE emitted # <<>> /\ emitted[Len(emitted)] \in Terminal /\ ~stopped
  <2>1. Len(emitted) \in 1..Len(emitted)
    BY <1>1, TokenEmpty, LenProperties DEF LoopInv, LoopType
  <2> QED
    BY <1>1, <2>1 DEF LoopInv, Serially
<1> QED
  BY <1>1 DEF LoopInv, Serially, AnswerOver

LEMMA OpenProtocol ==
  ASSUME LoopInv, Protocol, Open
  PROVE  Protocol'
<1> DEFINE h == Event("headers", <<>>)
           r == Event("role", <<>>)
<1>1. /\ pc = "open" /\ reply_events = <<>> /\ client_connected
      /\ UNCHANGED <<request, emitted, stopped, client_connected>>
      /\ pc' \in {"check", "closed"}
      /\ reply_events' \in {<<>>, <<h>>, <<h, r>>}
  BY DEF Open, Protocol, LoopInv, Prefilling, loopVars
<1>2. h.kind = "headers" /\ r.kind = "role"
  BY DEF Event
<1> HIDE DEF h, r
<1>3. KindsIn(Early)'
  BY <1>1, <1>2 DEF KindsIn, Early
<1>4. reply_events' \in Seq({h, r})
  <2>1. \A T : \A a, b \in T : <<>> \in Seq(T) /\ <<a>> \in Seq(T) /\ <<a, b>> \in Seq(T)
    OBVIOUS
  <2> QED
    BY <1>1, <2>1
<1>5. Ordered'
  BY <1>1, <1>2, StageValues DEF Ordered, Kinds
<1>6. ~Sent("finish")' /\ ~Sent("completion")' /\ ~Sent("done")'
  BY <1>3 DEF KindsIn, Sent, Early
<1> QED
  BY <1>1, <1>3, <1>4, <1>5, <1>6 DEF Protocol

(* Calls of the session, and tokens that are not sent.                     *)
LEMMA QuietProtocol ==
  ASSUME Protocol, UNCHANGED <<reply_events, client_connected>>,
         pc \in {"check", "prefill", "consume", "decode"},
         pc' \in {"prefill", "consume", "decode", "error", "finish"}
  PROVE  Protocol'
<1>1. Connection /\ client_connected /\ KindsIn(Early)
  BY DEF Protocol, Connection
<1>2. Connection' /\ KindsIn(Early)'
  BY <1>1, Silent
<1>3. ~Sent("finish")' /\ ~Sent("completion")' /\ ~Sent("done")'
  BY <1>2 DEF KindsIn, Sent, Early
<1> QED
  BY <1>1, <1>2, <1>3 DEF Protocol, Connection

LEMMA ContentProtocol ==
  ASSUME Protocol, ConsumeContent
  PROVE  Protocol'
<1>1. /\ pc = "consume" /\ Emit /\ Continue
      /\ Connection /\ client_connected /\ KindsIn(Early)
  BY DEF ConsumeContent, Take, Protocol, Connection
<1>2. /\ pc' \in {"finish", "decode", "consume"}
      /\ ~client_connected' => pc' = "finish"
  BY <1>1 DEF Continue
<1>3. CASE UNCHANGED <<reply_events, client_connected>>
  BY <1>1, <1>2, <1>3, QuietProtocol
<1>4. CASE /\ \E bytes : Delivered("delta", bytes)
           /\ UNCHANGED client_connected
  <2>1. Behind(Early, "delta")
    BY StageValues DEF Behind, Early
  <2>2. Connection' /\ KindsIn(Early \cup {"delta"})'
    BY <1>1, <1>4, <2>1, Sending
  <2>3. KindsIn(Early)'
    BY <2>2 DEF KindsIn, Early
  <2>4. ~Sent("finish")' /\ ~Sent("completion")' /\ ~Sent("done")'
    BY <2>3 DEF KindsIn, Sent, Early
  <2> QED
    BY <1>1, <1>2, <1>4, <2>2, <2>3, <2>4 DEF Protocol, Connection
<1>5. CASE Lost /\ client_connected' = FALSE
  <2>1. Behind(Early, "cut")
    BY StageValues DEF Behind, Early
  <2>2. Connection' /\ KindsIn(Early \cup {"cut"})'
    BY <1>1, <1>5, <2>1, Losing
  <2>3. ~Sent("finish")' /\ ~Sent("completion")' /\ ~Sent("done")'
    BY <2>2 DEF KindsIn, Sent, Early
  <2> QED
    BY <1>1, <1>2, <1>5, <2>2, <2>3 DEF Protocol, Connection
<1> QED
  BY <1>1, <1>3, <1>4, <1>5, Zenon DEF Emit

LEMMA FinishProtocol ==
  ASSUME LoopInv, Protocol, Finish
  PROVE  Protocol'
<1>1. /\ pc = "finish" /\ Connection
      /\ UNCHANGED <<request, emitted, stopped, client_connected>>
      /\ AnswerOver' <=> AnswerOver
  BY DEF Finish, Protocol, Connection, loopVars, AnswerOver, budget
<1>2. CASE ~client_connected
  <2>1. pc' = "closed" /\ UNCHANGED reply_events /\ KindsIn(Early \cup {"cut"})
    BY <1>1, <1>2 DEF Finish, Protocol
  <2>2. Connection' /\ KindsIn(Early \cup {"cut"})'
    BY <1>1, <2>1, Silent
  <2>3. ~Sent("finish")' /\ ~Sent("completion")' /\ ~Sent("done")'
    BY <2>2 DEF KindsIn, Sent, Early
  <2> QED
    BY <1>1, <1>2, <2>1, <2>2, <2>3 DEF Protocol, Connection
<1>3. CASE client_connected
  <2>1. KindsIn(Early) /\ AnswerOver'
    BY <1>1, <1>3, FinishedAnswer DEF Protocol
  <2>2. CASE /\ \E kind \in {"completion", "finish"} : \E bytes : Delivered(kind, bytes)
             /\ pc' \in {"usage", "done", "closed"}
             /\ pc' = "usage" => request.usage
             /\ pc' = "done" => ~request.usage
             /\ pc' # "closed" => Delivered("finish", <<>>)
    <3>0. PICK kind \in {"completion", "finish"} : \E bytes : Delivered(kind, bytes)
      BY <2>2
    <3>1. PICK bytes : Delivered(kind, bytes)
      BY <3>0
    <3>2. Behind(Early, kind)
      BY StageValues DEF Behind, Early
    <3>3. Connection' /\ KindsIn(Early \cup {kind})'
      BY <1>1, <2>1, <3>1, <3>2, Sending
    <3>4. ~Sent("usage")' /\ ~Sent("done")'
      BY <3>3 DEF KindsIn, Sent, Early
    <3>5. pc' # "closed" => KindsIn(Early \cup {"finish"})'
      <4>1. Behind(Early, "finish")
        BY StageValues DEF Behind, Early
      <4> QED
        BY <1>1, <2>1, <2>2, <4>1, Sending
    <3>6. KindsIn(Early \cup {"finish"})' =>
            KindsIn(Early \cup {"finish", "usage", "error", "cut"})'
      BY DEF KindsIn
    <3> QED
      BY <1>1, <1>3, <2>1, <2>2, <3>3, <3>4, <3>5, <3>6
         DEF Protocol, Connection, UsageAsAsked
  <2>3. CASE Lost /\ pc' = "closed"
    <3>1. Behind(Early, "cut")
      BY StageValues DEF Behind, Early
    <3>2. Connection' /\ KindsIn(Early \cup {"cut"})'
      BY <1>1, <2>1, <2>3, <3>1, Losing
    <3>3. ~Sent("done")'
      BY <3>2 DEF KindsIn, Sent, Early
    <3> QED
      BY <1>1, <1>3, <2>1, <2>3, <3>2, <3>3 DEF Protocol, Connection
  <2> QED
    BY <1>1, <1>3, <2>2, <2>3 DEF Finish, SendOr
<1> QED
  BY <1>2, <1>3

LEMMA UsageProtocol ==
  ASSUME Protocol, SendUsage
  PROVE  Protocol'
<1>1. /\ pc = "usage" /\ Connection /\ client_connected /\ request.usage
      /\ KindsIn(Early \cup {"finish"})
      /\ UNCHANGED <<request, emitted, stopped, client_connected>>
      /\ AnswerOver' <=> AnswerOver
      /\ Sent("finish") \/ Sent("completion") => AnswerOver
  BY DEF SendUsage, Protocol, Connection, loopVars, AnswerOver, budget
<1>2. CASE Delivered("usage", <<>>) /\ pc' = "done"
  <2>1. Behind(Early \cup {"finish"}, "usage")
    BY StageValues DEF Behind, Early
  <2>2. /\ Connection' /\ KindsIn((Early \cup {"finish"}) \cup {"usage"})'
        /\ \A k : Sent(k)' <=> Sent(k) \/ k = "usage"
    BY <1>1, <1>2, <2>1, Sending
  <2>3. /\ KindsIn(Early \cup {"finish", "usage", "error", "cut"})'
        /\ Sent("usage")'
        /\ Sent("finish")' \/ Sent("completion")' => Sent("finish") \/ Sent("completion")
    BY <2>2 DEF KindsIn
  <2> QED
    BY <1>1, <1>2, <2>2, <2>3 DEF Protocol, Connection, UsageAsAsked
<1>3. CASE Lost /\ pc' = "closed"
  <2>1. Behind(Early \cup {"finish"}, "cut")
    BY StageValues DEF Behind, Early
  <2>2. /\ Connection' /\ KindsIn((Early \cup {"finish"}) \cup {"cut"})'
        /\ \A k : k # "cut" => (Sent(k)' <=> Sent(k))
    BY <1>1, <1>3, <2>1, Losing
  <2>3. /\ ~Sent("done")'
        /\ Sent("finish")' \/ Sent("completion")' => Sent("finish") \/ Sent("completion")
    BY <2>2 DEF KindsIn, Sent, Early
  <2> QED
    BY <1>1, <1>3, <2>2, <2>3 DEF Protocol, Connection
<1> QED
  BY <1>2, <1>3 DEF SendUsage, SendOr

LEMMA ErrorProtocol ==
  ASSUME Protocol, ReportError
  PROVE  Protocol'
<1>1. /\ pc = "error" /\ Connection /\ client_connected /\ KindsIn(Early)
      /\ pc' \in {"done", "closed"}
      /\ UNCHANGED <<request, emitted, stopped, client_connected>>
  BY DEF ReportError, Protocol, Connection, loopVars
<1>2. Connection' /\ KindsIn(Early \cup {"error", "cut"})'
  <2>1. CASE Delivered("error", <<>>)
    <3>1. Behind(Early, "error")
      BY StageValues DEF Behind, Early
    <3>2. Connection' /\ KindsIn(Early \cup {"error"})'
      BY <1>1, <2>1, <3>1, Sending
    <3> QED
      BY <3>2 DEF KindsIn
  <2>2. CASE Lost
    <3>1. Behind(Early, "cut")
      BY StageValues DEF Behind, Early
    <3>2. Connection' /\ KindsIn(Early \cup {"cut"})'
      BY <1>1, <2>2, <3>1, Losing
    <3> QED
      BY <3>2 DEF KindsIn
  <2> QED
    BY <2>1, <2>2 DEF ReportError
<1>3. /\ KindsIn(Early \cup {"finish", "usage", "error", "cut"})'
      /\ ~Sent("finish")' /\ ~Sent("completion")' /\ ~Sent("done")'
  BY <1>2 DEF KindsIn, Sent, Early
<1> QED
  BY <1>1, <1>2, <1>3 DEF Protocol, Connection, UsageAsAsked

LEMMA DoneProtocol ==
  ASSUME Protocol, SendDone
  PROVE  Protocol'
<1> DEFINE K == Early \cup {"finish", "usage", "error", "cut"}
<1>1. /\ pc = "done" /\ Connection /\ client_connected /\ KindsIn(K) /\ pc' = "closed"
      /\ UNCHANGED <<request, emitted, stopped, client_connected>>
      /\ AnswerOver' <=> AnswerOver
      /\ Sent("finish") \/ Sent("completion") => AnswerOver
      /\ UsageAsAsked
  BY DEF SendDone, Protocol, Connection, loopVars, AnswerOver, budget
<1>2. /\ Connection'
      /\ \A k \in {"finish", "completion", "usage"} : Sent(k)' <=> Sent(k)
  <2>1. CASE Delivered("done", <<>>)
    <3>1. Behind(K, "done")
      BY StageValues DEF Behind, Early
    <3> QED
      BY <1>1, <2>1, <3>1, Sending
  <2>2. CASE Lost
    <3>1. Behind(K, "cut")
      BY StageValues DEF Behind, Early
    <3> QED
      BY <1>1, <2>2, <3>1, Losing
  <2> QED
    BY <2>1, <2>2 DEF SendDone
<1>3. UsageAsAsked'
  BY <1>1, <1>2 DEF UsageAsAsked
<1> QED
  BY <1>1, <1>2, <1>3 DEF Protocol, Connection

LEMMA ProtocolStep ==
  ASSUME LoopInv, Protocol, [Next]_vars
  PROVE  Protocol'
<1>1. CASE Open
  BY <1>1, OpenProtocol
<1>2. CASE CreateSession \/ Sync \/ Prefill \/ DecodeOne \/ DecodeRound \/ CallFails
  <2>1. /\ UNCHANGED <<reply_events, client_connected>>
        /\ pc \in {"check", "prefill", "decode"}
        /\ pc' \in {"prefill", "consume", "decode", "error"}
    BY <1>2 DEF CreateSession, Sync, Prefill, DecodeOne, DecodeRound, CallFails, loopVars
  <2> QED
    BY <2>1, QuietProtocol
<1>3. CASE ConsumeTerminal \/ DecodeTextFails
  <2>1. /\ UNCHANGED <<reply_events, client_connected>> /\ pc = "consume"
        /\ pc' \in {"finish", "decode", "consume", "error"}
    BY <1>3 DEF ConsumeTerminal, DecodeTextFails, Take, Continue
  <2> QED
    BY <2>1, QuietProtocol
<1>4. CASE ConsumeContent
  BY <1>4, ContentProtocol
<1>5. CASE Finish
  BY <1>5, FinishProtocol
<1>6. CASE SendUsage
  BY <1>6, UsageProtocol
<1>7. CASE ReportError
  BY <1>7, ErrorProtocol
<1>8. CASE SendDone
  BY <1>8, DoneProtocol
<1>9. CASE UNCHANGED vars
  BY <1>9 DEF vars, loopVars, Protocol, Ordered, Kinds, KindsIn, Sent, AnswerOver, budget,
              UsageAsAsked
<1> QED
  BY <1>1, <1>2, <1>3, <1>4, <1>5, <1>6, <1>7, <1>8, <1>9 DEF Next, Handle, Closed

(* A reply keeps the order of its protocol, whichever sends and calls fail *)
(* in it: only deltas repeat, a finish is reported only for an answer that *)
(* is over and to a client that is there, and usage comes where it was     *)
(* asked for.                                                              *)
THEOREM RepliesAreWellFormed == Spec => []ReplyWellFormed
<1>1. Init => Protocol
  <2> SUFFICES ASSUME Init PROVE Protocol
    OBVIOUS
  <2>1. pc = "open" /\ reply_events = <<>> /\ client_connected
    BY DEF Init
  <2>2. \E S : reply_events \in Seq(S)
    <3>1. reply_events \in Seq({})
      BY <2>1
    <3> QED
      BY <3>1
  <2> QED
    BY <2>1, <2>2 DEF Protocol, Ordered, Sent
<1>2. LoopInv /\ Protocol /\ [Next]_vars => Protocol'
  BY ProtocolStep
<1>3. Protocol => ReplyWellFormed
  <2> SUFFICES ASSUME Protocol PROVE ReplyWellFormed
    OBVIOUS
  <2>1. ~client_connected => ~Sent("finish") /\ ~Sent("error") /\ ~Sent("done")
    BY DEF Protocol, KindsIn, Sent, Early
  <2> QED
    BY <2>1 DEF Protocol, Ordered, AnswerOver, UsageAsAsked, ReplyWellFormed, budget
<1> QED
  BY <1>1, <1>2, <1>3, LoopInvariance, PTL DEF Spec

------------------------------------------------------------------------------
(* Recursive functions.  They are reasoned about with the least number for *)
(* which a fact fails.                                                     *)

LEMMA LeastOf ==
  ASSUME NEW T, T \subseteq Nat, T # {}
  PROVE  \E x \in T : \A y \in T : x <= y
<1>1. PICK x \in T : \A y \in T : <<y, x>> \notin OpToRel(<, Nat)
  BY NatLessThanWellFounded, WFMin
<1>2. \A y \in T : ~(y < x)
  BY <1>1 DEF OpToRel
<1> QED
  BY <1>2

LEMMA Upwards ==
  ASSUME NEW m \in Nat, NEW G, 1 \in G, \A n \in G : n < m => n + 1 \in G
  PROVE  1..m \subseteq G
<1> SUFFICES ASSUME (1..m) \ G # {} PROVE FALSE
  OBVIOUS
<1>1. PICK n \in (1..m) \ G : \A x \in (1..m) \ G : n <= x
  <2>1. (1..m) \ G \subseteq Nat
    OBVIOUS
  <2> QED
    BY <2>1, LeastOf, Zenon
<1>2. n - 1 \in 1..m /\ n - 1 < m
  BY <1>1
<1>3. n - 1 \in G
  BY <1>1, <1>2
<1> QED
  BY <1>1, <1>2, <1>3

LEMMA Downwards ==
  ASSUME NEW m \in Nat, NEW G,
         \A n \in 0..m : (\A x \in n + 1..m : x \in G) => n \in G
  PROVE  0..m \subseteq G
<1> SUFFICES ASSUME (0..m) \ G # {} PROVE FALSE
  OBVIOUS
<1> DEFINE T == {m - n : n \in (0..m) \ G}
<1>1. T \subseteq Nat /\ T # {}
  OBVIOUS
<1>2. PICK k \in T : \A x \in T : k <= x
  BY <1>1, LeastOf, Zenon
<1>3. PICK n \in (0..m) \ G : k = m - n
  OBVIOUS
<1>4. ASSUME NEW x \in n + 1..m, x \notin G
      PROVE  FALSE
  <2>1. m - x \in T /\ x \in Int /\ n \in Int /\ x >= n + 1
    BY <1>3, <1>4
  <2>2. k <= m - x
    BY <1>2, <2>1
  <2> HIDE DEF T
  <2> QED
    BY <1>3, <2>1, <2>2
<1> QED
  BY <1>3, <1>4

------------------------------------------------------------------------------
(* Joining sequences *)

Joins(ss, f) == f = [i \in 1..Len(ss) |-> IF i = 1 THEN ss[i] ELSE f[i - 1] \o ss[i]]

LEMMA JoinExists ==
  ASSUME NEW S, NEW ss \in Seq(Seq(S)), ss # <<>>
  PROVE  \E f : Joins(ss, f)
<1> DEFINE m == Len(ss)
           Step(i, g) == IF i = 1 THEN ss[i] ELSE g[i - 1] \o ss[i]
           G == {n \in 1..m : \E f \in [1..n -> Seq(S)] : \A i \in 1..n : f[i] = Step(i, f)}
<1>1. m \in Nat \ {0} /\ \A i \in 1..m : ss[i] \in Seq(S)
  BY EmptySeq, LenProperties, ElementOfSeq
<1>2. 1 \in G
  <2> DEFINE h == [i \in 1..1 |-> ss[1]]
  <2>1. h \in [1..1 -> Seq(S)] /\ 1 \in 1..m
    BY <1>1
  <2>2. \A i \in 1..1 : h[i] = Step(i, h)
    OBVIOUS
  <2> HIDE DEF h
  <2> QED
    BY <2>1, <2>2
<1>3. ASSUME NEW n \in G, n < m
      PROVE  n + 1 \in G
  <2>1. PICK f \in [1..n -> Seq(S)] : \A i \in 1..n : f[i] = Step(i, f)
    OBVIOUS
  <2> DEFINE h == [i \in 1..n + 1 |-> IF i = n + 1 THEN f[n] \o ss[n + 1] ELSE f[i]]
  <2>2. n \in 1..m /\ n + 1 \in 1..m /\ n \in 1..n
    BY <1>1, <1>3
  <2>3. f[n] \o ss[n + 1] \in Seq(S)
    BY <1>1, <2>2, ConcatProperties
  <2>4. h \in [1..n + 1 -> Seq(S)]
    BY <2>2, <2>3
  <2>5. ASSUME NEW i \in 1..n + 1
        PROVE  h[i] = Step(i, h)
    <3>1. CASE i = n + 1
      <4>1. h[i] = f[n] \o ss[n + 1] /\ h[n] = f[n] /\ i # 1 /\ i - 1 = n
        BY SMTT(30), <2>2, <3>1
      <4> QED
        BY <3>1, <4>1
    <3>2. CASE i # n + 1
      <4>1. i \in 1..n /\ h[i] = f[i] /\ (i # 1 => h[i - 1] = f[i - 1])
        BY <2>2, <3>2
      <4> QED
        BY <2>1, <4>1
    <3> QED
      BY <3>1, <3>2
  <2> HIDE DEF h
  <2> QED
    BY <2>2, <2>4, <2>5
<1>4. m \in G
  <2> HIDE DEF G
  <2> QED
    BY <1>1, <1>2, <1>3, Upwards
<1>5. PICK f \in [1..m -> Seq(S)] : \A i \in 1..m : f[i] = Step(i, f)
  BY <1>4
<1>6. f = [i \in 1..m |-> Step(i, f)]
  BY <1>5
<1> QED
  BY <1>6 DEF Joins

(* The function that FlattenSeq chooses, for a sequence that is not empty. *)
Join(ss) == CHOOSE f : Joins(ss, f)

LEMMA JoinSteps ==
  ASSUME NEW S, NEW ss \in Seq(Seq(S)), ss # <<>>
  PROVE  /\ \A i \in 1..Len(ss) :
              /\ Join(ss)[i] \in Seq(S)
              /\ Join(ss)[i] = IF i = 1 THEN ss[i] ELSE Join(ss)[i - 1] \o ss[i]
         /\ FlattenSeq(ss) = Join(ss)[Len(ss)]
         /\ Len(ss) \in Nat \ {0} /\ \A i \in 1..Len(ss) : ss[i] \in Seq(S)
<1> DEFINE f == Join(ss)
           m == Len(ss)
           G == {n \in 1..m : f[n] \in Seq(S)}
<1>1. m \in Nat \ {0} /\ \A i \in 1..m : ss[i] \in Seq(S)
  BY EmptySeq, LenProperties, ElementOfSeq
<1>2. Joins(ss, f)
  BY JoinExists DEF Join
<1>3. \A i \in 1..m : f[i] = IF i = 1 THEN ss[i] ELSE f[i - 1] \o ss[i]
  <2> HIDE DEF f
  <2> QED
    BY <1>2 DEF Joins
<1>4. FlattenSeq(ss) = f[m]
  BY <1>1 DEF FlattenSeq, Join, Joins
<1> HIDE DEF f
<1>5. 1 \in G
  BY <1>1, <1>3
<1>6. ASSUME NEW n \in G, n < m
      PROVE  n + 1 \in G
  <2>1. n \in 1..m /\ n + 1 \in 1..m /\ n + 1 # 1 /\ (n + 1) - 1 = n
    BY <1>1, <1>6
  <2>2. f[n + 1] = f[n] \o ss[n + 1] /\ f[n] \in Seq(S) /\ ss[n + 1] \in Seq(S)
    BY <1>1, <1>3, <2>1
  <2>3. f[n + 1] \in Seq(S)
    BY <2>2, ConcatProperties
  <2> QED
    BY <2>1, <2>3
<1>7. 1..m \subseteq G
  <2> HIDE DEF G
  <2> QED
    BY <1>1, <1>5, <1>6, Upwards
<1> QED
  BY <1>1, <1>3, <1>4, <1>7 DEF f

LEMMA JoinType ==
  ASSUME NEW S, NEW ss \in Seq(Seq(S))
  PROVE  FlattenSeq(ss) \in Seq(S)
<1>1. CASE ss = <<>>
  BY <1>1, EmptySeq DEF FlattenSeq
<1>2. CASE ss # <<>>
  BY SMTT(30), <1>2, JoinSteps
<1> QED
  BY <1>1, <1>2

LEMMA JoinAppend ==
  ASSUME NEW S, NEW ss \in Seq(Seq(S)), NEW x \in Seq(S)
  PROVE  FlattenSeq(Append(ss, x)) = FlattenSeq(ss) \o x
<1> DEFINE m == Len(ss)
           tt == Append(ss, x)
<1>1. /\ tt \in Seq(Seq(S)) /\ Len(tt) = m + 1 /\ m \in Nat /\ tt # <<>>
      /\ \A i \in 1..m : tt[i] = ss[i]
      /\ tt[m + 1] = x
  BY AppendProperties, LenProperties, EmptySeq
<1> HIDE DEF tt
<1>2. CASE ss = <<>>
  <2>1. m = 0 /\ FlattenSeq(ss) = <<>>
    BY <1>2, EmptySeq DEF FlattenSeq
  <2>2. FlattenSeq(tt) = tt[1] /\ tt[1] = x
    BY <1>1, <2>1, JoinSteps
  <2>3. <<>> \o x = x
    OBVIOUS
  <2> QED
    BY <2>1, <2>2, <2>3 DEF tt
<1>3. CASE ss # <<>>
  <2> DEFINE f == Join(ss)
             g == Join(tt)
             G == {n \in 1..m : g[n] = f[n]}
  <2>1. /\ \A i \in 1..m : f[i] = IF i = 1 THEN ss[i] ELSE f[i - 1] \o ss[i]
        /\ FlattenSeq(ss) = f[m] /\ m \in Nat \ {0}
    BY <1>3, JoinSteps
  <2>2. /\ \A i \in 1..m + 1 : g[i] = IF i = 1 THEN tt[i] ELSE g[i - 1] \o tt[i]
        /\ FlattenSeq(tt) = g[m + 1]
    BY <1>1, JoinSteps
  <2> HIDE DEF f, g
  <2>3. 1 \in G
    BY <1>1, <2>1, <2>2
  <2>4. ASSUME NEW n \in G, n < m
        PROVE  n + 1 \in G
    BY <1>1, <2>1, <2>2, <2>4
  <2>5. 1..m \subseteq G
    <3> HIDE DEF G
    <3> QED
      BY <2>1, <2>3, <2>4, Upwards
  <2>6. g[m] = f[m]
    BY <2>1, <2>5
  <2>7. g[m + 1] = g[m] \o x
    <3>1. m + 1 \in 1..m + 1 /\ m + 1 # 1 /\ (m + 1) - 1 = m
      BY <2>1
    <3> QED
      BY <1>1, <2>2, <3>1
  <2> QED
    BY <2>1, <2>2, <2>6, <2>7 DEF tt
<1> QED
  BY <1>2, <1>3

------------------------------------------------------------------------------
(* Whole characters *)

(* Where the scan of valid_utf8_prefix stops, and where it goes on.        *)
Stops(text, n) == n = Len(text) \/ ~CharacterAt(text, n)
After(text, n) == n + CharacterLength(text[n + 1])
Scans(text, f) == f = [n \in 0..Len(text) |-> IF Stops(text, n) THEN n ELSE f[After(text, n)]]
Scan(text) == CHOOSE f : Scans(text, f)

LEMMA LengthValues ==
  /\ \A byte : CharacterLength(byte) \in 0..4
  /\ CharacterLength("continuation") = 0
BY DEF CharacterLength

LEMMA AfterType ==
  ASSUME NEW text \in Seq(Byte), NEW n \in 0..Len(text), ~Stops(text, n)
  PROVE  After(text, n) \in n + 1..Len(text) /\ n < Len(text) /\ Len(text) \in Nat
<1>1. Len(text) \in Nat
  BY LenProperties
<1> QED
  BY <1>1, LengthValues DEF Stops, After, CharacterAt

LEMMA ScanExists ==
  ASSUME NEW text \in Seq(Byte)
  PROVE  \E f : Scans(text, f)
<1> DEFINE m == Len(text)
           Step(n, g) == IF Stops(text, n) THEN n ELSE g[After(text, n)]
           G == {n \in 0..m : \E f \in [n..m -> 0..m] : \A i \in n..m : f[i] = Step(i, f)}
<1>1. m \in Nat
  BY LenProperties
<1>2. ASSUME NEW n \in 0..m, \A x \in n + 1..m : x \in G
      PROVE  n \in G
  <2>1. CASE n = m
    <3> DEFINE h == [i \in n..m |-> m]
    <3>1. h \in [n..m -> 0..m]
      BY <1>1
    <3>2. \A i \in n..m : h[i] = Step(i, h)
      BY <1>1, <2>1 DEF Stops
    <3> HIDE DEF h
    <3> QED
      BY <3>1, <3>2
  <2>2. CASE n # m
    <3>1. n + 1 \in n + 1..m
      BY <1>1, <2>2
    <3>2. PICK f \in [n + 1..m -> 0..m] : \A i \in n + 1..m : f[i] = Step(i, f)
      BY <1>2, <3>1
    <3> DEFINE h == [i \in n..m |-> IF i = n THEN Step(n, f) ELSE f[i]]
    <3>3. Step(n, f) \in 0..m
      <4>1. ~Stops(text, n) => After(text, n) \in n + 1..m
        BY AfterType
      <4> QED
        BY <4>1
    <3>4. h \in [n..m -> 0..m]
      <4> HIDE DEF Step
      <4> QED
        BY <1>1, <3>3
    <3>5. ASSUME NEW i \in n..m
          PROVE  h[i] = Step(i, h)
      <4>1. i \in 0..m /\ (i = n \/ i \in n + 1..m)
        BY <1>1
      <4>2. ~Stops(text, i) => After(text, i) \in n + 1..m /\ After(text, i) \in n..m
                               /\ After(text, i) # n
        BY <1>1, <4>1, AfterType
      <4>3. CASE Stops(text, i)
        BY <3>2, <4>1, <4>3
      <4>4. CASE ~Stops(text, i)
        <5>1. h[After(text, i)] = f[After(text, i)]
          BY <4>2, <4>4
        <5>2. h[i] = f[After(text, i)]
          BY <3>2, <4>1, <4>4
        <5> QED
          BY <4>4, <5>1, <5>2
      <4> QED
        BY <4>3, <4>4
    <3> HIDE DEF h
    <3> QED
      BY <3>4, <3>5
  <2> QED
    BY <2>1, <2>2
<1>3. 0 \in G
  <2> HIDE DEF G
  <2>1. 0 \in 0..m
    BY <1>1
  <2> QED
    BY <1>1, <1>2, <2>1, Downwards
<1>4. PICK f \in [0..m -> 0..m] : \A i \in 0..m : f[i] = Step(i, f)
  BY <1>3
<1>5. f = [i \in 0..m |-> Step(i, f)]
  BY <1>4
<1> QED
  BY <1>5 DEF Scans

LEMMA ScanSteps ==
  ASSUME NEW text \in Seq(Byte)
  PROVE  /\ valid_utf8_prefix(text) = Scan(text)[0] /\ Len(text) \in Nat
         /\ \A n \in 0..Len(text) :
              /\ Scan(text)[n] \in n..Len(text)
              /\ Stops(text, n) => Scan(text)[n] = n
              /\ ~Stops(text, n) => Scan(text)[n] = Scan(text)[After(text, n)]
<1> DEFINE m == Len(text)
           f == Scan(text)
           G == {n \in 0..m : f[n] \in n..m}
<1>1. m \in Nat
  BY LenProperties
<1>2. valid_utf8_prefix(text) = f[0]
  BY DEF valid_utf8_prefix, Scan, Scans, Stops, After
<1>3. Scans(text, f)
  BY ScanExists DEF Scan
<1> HIDE DEF f
<1>4. \A n \in 0..m : /\ Stops(text, n) => f[n] = n
                      /\ ~Stops(text, n) => f[n] = f[After(text, n)]
  BY <1>3 DEF Scans
<1>5. ASSUME NEW n \in 0..m, \A x \in n + 1..m : x \in G
      PROVE  n \in G
  <2>1. CASE Stops(text, n)
    BY <1>1, <1>4, <2>1
  <2>2. CASE ~Stops(text, n)
    <3>1. After(text, n) \in n + 1..m
      BY <2>2, AfterType
    <3>2. f[After(text, n)] \in After(text, n)..m
      BY <1>5, <3>1
    <3> QED
      BY <1>1, <1>4, <2>2, <3>1, <3>2
  <2> QED
    BY <2>1, <2>2
<1>6. 0..m \subseteq G
  <2> HIDE DEF G
  <2> QED
    BY <1>1, <1>5, Downwards
<1> QED
  BY <1>1, <1>2, <1>4, <1>6 DEF f

(* A part of a text, and the characters that lie in it.                    *)
Part(text, a, b) == SubSeq(text, a + 1, b)

LEMMA PartType ==
  ASSUME NEW text \in Seq(Byte), NEW b \in 0..Len(text), NEW a \in 0..b
  PROVE  /\ Part(text, a, b) \in Seq(Byte) /\ Len(Part(text, a, b)) = b - a
         /\ \A i \in 1..b - a : Part(text, a, b)[i] = text[a + i]
         /\ Len(text) \in Nat
<1>1. Len(text) \in Nat
  BY LenProperties
<1>2. \A i \in a + 1..b : text[i] \in Byte
  BY <1>1, ElementOfSeq
<1>3. a + 1 \in Int /\ b \in Int
  BY <1>1
<1>4. /\ Part(text, a, b) \in Seq(Byte)
      /\ Len(Part(text, a, b)) = IF a + 1 <= b THEN b - (a + 1) + 1 ELSE 0
      /\ \A i \in 1..b - (a + 1) + 1 : Part(text, a, b)[i] = text[a + 1 + i - 1]
  BY <1>2, <1>3, SubSeqProperties DEF Part
<1>5. Len(Part(text, a, b)) = b - a
  BY <1>1, <1>4
<1>6. ASSUME NEW i \in 1..b - a
      PROVE  Part(text, a, b)[i] = text[a + i]
  <2>1. i \in 1..b - (a + 1) + 1 /\ a + 1 + i - 1 = a + i
    BY <1>1
  <2> QED
    BY <1>4, <2>1
<1> QED
  BY <1>1, <1>4, <1>5, <1>6

LEMMA PartCharacters ==
  ASSUME NEW text \in Seq(Byte), NEW b \in 0..Len(text), NEW a \in 0..b, NEW n \in a..b - 1
  PROVE  /\ After(Part(text, a, b), n - a) = After(text, n) - a
         /\ ~Stops(Part(text, a, b), n - a) <=> ~Stops(text, n) /\ After(text, n) <= b
         /\ After(text, n) \in Int
<1> DEFINE u == Part(text, a, b)
           length == CharacterLength(text[n + 1])
<1>1. /\ u \in Seq(Byte) /\ Len(u) = b - a /\ Len(text) \in Nat
      /\ \A i \in 1..b - a : u[i] = text[a + i]
  BY PartType
<1> HIDE DEF u
<1>2. length \in 0..4
  BY LengthValues
<1>3. /\ n \in Int /\ a \in Int /\ b \in Int /\ (n - a) + 1 \in 1..b - a
      /\ a + ((n - a) + 1) = n + 1 /\ n # Len(text) /\ n - a # b - a
  BY <1>1
<1>4. u[(n - a) + 1] = text[n + 1]
  BY <1>1, <1>3
<1>5. CharacterAt(u, n - a) <=> /\ length > 0 /\ (n - a) + length <= b - a
                                /\ \A i \in 2..length : u[(n - a) + i] = "continuation"
  BY <1>1, <1>4 DEF CharacterAt
<1>6. CharacterAt(text, n) <=> /\ length > 0 /\ n + length <= Len(text)
                               /\ \A i \in 2..length : text[n + i] = "continuation"
  BY DEF CharacterAt
<1> HIDE DEF length
<1>7. ASSUME n + length <= b
      PROVE  \A i \in 2..length : u[(n - a) + i] = text[n + i]
  <2> SUFFICES ASSUME NEW i \in 2..length PROVE u[(n - a) + i] = text[n + i]
    OBVIOUS
  <2>1. (n - a) + i \in 1..b - a /\ a + ((n - a) + i) = n + i
    BY <1>2, <1>3, <1>7
  <2> QED
    BY <1>1, <2>1
<1>8. (n - a) + length <= b - a <=> n + length <= b
  BY <1>2, <1>3
<1>9. CharacterAt(u, n - a) <=> CharacterAt(text, n) /\ n + length <= b
  <2>1. CASE n + length <= b
    <3>1. n + length <= Len(text)
      BY <1>1, <1>2, <1>3, <2>1
    <3> QED
      BY <1>5, <1>6, <1>7, <1>8, <2>1, <3>1
  <2>2. CASE ~(n + length <= b)
    BY <1>5, <1>8, <2>2
  <2> QED
    BY <2>1, <2>2
<1> QED
  BY <1>1, <1>2, <1>3, <1>4, <1>9 DEF Stops, After, length, u

(* A scan that ends at b scans the characters of the part up to b alone.   *)
LEMMA ScanOfPart ==
  ASSUME NEW text \in Seq(Byte), NEW b \in 0..Len(text), NEW a \in 0..b,
         Scan(text)[a] = b
  PROVE  valid_utf8_prefix(Part(text, a, b)) = b - a
<1> DEFINE u == Part(text, a, b)
           G == {n \in 0..b : n >= a /\ Scan(text)[n] = b => Scan(u)[n - a] = b - a}
<1>1. u \in Seq(Byte) /\ Len(u) = b - a /\ Len(text) \in Nat /\ b \in Nat
  <2>1. Len(text) \in Nat /\ b \in Nat
    BY LenProperties
  <2>2. u \in Seq(Byte) /\ Len(u) = b - a
    BY PartType
  <2> QED
    BY <2>1, <2>2
<1>2. \A n \in 0..Len(text) : /\ Scan(text)[n] \in n..Len(text)
                              /\ Stops(text, n) => Scan(text)[n] = n
                              /\ ~Stops(text, n) => Scan(text)[n] = Scan(text)[After(text, n)]
  BY ScanSteps
<1>3. /\ \A n \in 0..b - a : /\ Stops(u, n) => Scan(u)[n] = n
                             /\ ~Stops(u, n) => Scan(u)[n] = Scan(u)[After(u, n)]
      /\ valid_utf8_prefix(u) = Scan(u)[0]
  BY <1>1, ScanSteps
<1>4. ASSUME NEW n \in 0..b, \A x \in n + 1..b : x \in G
      PROVE  n \in G
  <2> SUFFICES ASSUME n >= a, Scan(text)[n] = b PROVE Scan(u)[n - a] = b - a
    OBVIOUS
  <2>1. CASE n = b
    <3>1. b - a \in 0..b - a
      BY <1>1
    <3> QED
      BY <1>1, <1>3, <2>1, <3>1 DEF Stops
  <2>2. CASE n # b
    <3>1. n \in a..b - 1 /\ n \in 0..Len(text) /\ n - a \in 0..b - a
      BY <1>1, <2>2
    <3>2. ~Stops(text, n)
      BY <1>2, <2>2, <3>1
    <3>3. After(text, n) \in n + 1..Len(text)
      BY <3>1, <3>2, AfterType
    <3>4. Scan(text)[After(text, n)] = b /\ After(text, n) <= b
      <4>1. Scan(text)[After(text, n)] = b
        BY <1>2, <3>1, <3>2
      <4>2. Scan(text)[After(text, n)] \in After(text, n)..Len(text)
        BY <1>1, <1>2, <3>1, <3>3
      <4> QED
        BY <1>1, <3>3, <4>1, <4>2
    <3>5. ~Stops(u, n - a) /\ After(u, n - a) = After(text, n) - a
      BY <3>1, <3>2, <3>4, PartCharacters
    <3>6. After(text, n) \in G /\ After(text, n) >= a
      BY <1>1, <1>4, <3>1, <3>3, <3>4
    <3>7. Scan(u)[After(text, n) - a] = b - a
      BY <3>4, <3>6
    <3> QED
      BY <1>3, <3>1, <3>5, <3>7
  <2> QED
    BY <2>1, <2>2
<1>5. a \in G
  <2> HIDE DEF G
  <2> QED
    BY <1>1, <1>4, Downwards
<1>6. Scan(u)[a - a] = b - a /\ a - a = 0
  BY <1>1, <1>5
<1> QED
  BY <1>3, <1>6

(* The scan of a text passes the end of any whole characters it begins     *)
(* with.                                                                   *)
LEMMA ScanPasses ==
  ASSUME NEW text \in Seq(Byte), NEW b \in 0..Len(text),
         valid_utf8_prefix(Part(text, 0, b)) = b
  PROVE  Scan(text)[0] = Scan(text)[b]
<1> DEFINE u == Part(text, 0, b)
           G == {n \in 0..b : Scan(u)[n] = b => Scan(text)[n] = Scan(text)[b]}
<1>1. u \in Seq(Byte) /\ Len(u) = b /\ Len(text) \in Nat /\ b \in Nat /\ 0 \in 0..b
  <2>1. b \in Nat /\ 0 \in 0..b
    BY LenProperties
  <2>2. u \in Seq(Byte) /\ Len(u) = b - 0 /\ Len(text) \in Nat
    BY <2>1, PartType
  <2> QED
    BY <2>1, <2>2
<1>2. \A n \in 0..Len(text) :
        ~Stops(text, n) => Scan(text)[n] = Scan(text)[After(text, n)]
  BY ScanSteps
<1>3. /\ \A n \in 0..b : /\ Stops(u, n) => Scan(u)[n] = n
                         /\ ~Stops(u, n) => Scan(u)[n] = Scan(u)[After(u, n)]
      /\ valid_utf8_prefix(u) = Scan(u)[0]
  BY <1>1, ScanSteps
<1>4. ASSUME NEW n \in 0..b, \A x \in n + 1..b : x \in G
      PROVE  n \in G
  <2> SUFFICES ASSUME Scan(u)[n] = b, n # b PROVE Scan(text)[n] = Scan(text)[b]
    OBVIOUS
  <2>1. ~Stops(u, n)
    BY <1>3
  <2>2. After(u, n) \in n + 1..b
    BY <1>1, <2>1, AfterType
  <2>3. n \in 0..b - 1 /\ n - 0 = n /\ n \in 0..Len(text)
    BY <1>1
  <2>4. ~Stops(text, n) /\ After(u, n) = After(text, n)
    <3>1. /\ After(u, n - 0) = After(text, n) - 0
          /\ ~Stops(u, n - 0) <=> ~Stops(text, n) /\ After(text, n) <= b
          /\ After(text, n) \in Int
      BY <1>1, <2>3, PartCharacters
    <3> QED
      BY <2>1, <2>3, <3>1
  <2>5. Scan(u)[After(text, n)] = b /\ After(text, n) \in G
    BY <1>3, <1>4, <2>1, <2>2, <2>4
  <2> QED
    BY <1>2, <2>3, <2>4, <2>5
<1>5. 0 \in G
  <2> HIDE DEF G
  <2> QED
    BY <1>1, <1>4, Downwards
<1> QED
  BY <1>3, <1>5

(* A text that grows keeps its parts, and parts join.                      *)
LEMMA PartOfLonger ==
  ASSUME NEW text \in Seq(Byte), NEW more \in Seq(Byte), NEW b \in 0..Len(text)
  PROVE  /\ Part(text \o more, 0, b) = Part(text, 0, b)
         /\ text \o more \in Seq(Byte) /\ b \in 0..Len(text \o more)
         /\ Len(text \o more) = Len(text) + Len(more) /\ Len(more) \in Nat
<1>1. /\ Len(text) \in Nat /\ Len(more) \in Nat /\ b \in Nat /\ 0 \in 0..b
      /\ text \o more \in Seq(Byte) /\ Len(text \o more) = Len(text) + Len(more)
      /\ \A i \in 1..Len(text) + Len(more) :
           (text \o more)[i] = IF i <= Len(text) THEN text[i] ELSE more[i - Len(text)]
  BY ConcatProperties, LenProperties
<1> DEFINE all == text \o more
<1> HIDE DEF all
<1>2. b \in 0..Len(all) /\ all \in Seq(Byte)
  BY <1>1 DEF all
<1>3. /\ Part(text, 0, b) \in Seq(Byte) /\ Len(Part(text, 0, b)) = b - 0
      /\ \A i \in 1..b - 0 : Part(text, 0, b)[i] = text[0 + i]
  BY <1>1, PartType
<1>4. /\ Part(all, 0, b) \in Seq(Byte) /\ Len(Part(all, 0, b)) = b - 0
      /\ \A i \in 1..b - 0 : Part(all, 0, b)[i] = all[0 + i]
  BY <1>1, <1>2, PartType
<1>5. \A i \in 1..b : Part(all, 0, b)[i] = Part(text, 0, b)[i]
  <2> SUFFICES ASSUME NEW i \in 1..b PROVE Part(all, 0, b)[i] = Part(text, 0, b)[i]
    OBVIOUS
  <2>1. i \in 1..b - 0 /\ 0 + i = i /\ i \in 1..Len(text) + Len(more) /\ i <= Len(text)
    BY <1>1
  <2>2. all[i] = text[i]
    BY <1>1, <2>1 DEF all
  <2> QED
    BY <1>3, <1>4, <2>1, <2>2
<1>6. Part(all, 0, b) = Part(text, 0, b)
  BY <1>1, <1>3, <1>4, <1>5, SeqEqual
<1> QED
  BY <1>1, <1>2, <1>6 DEF all

LEMMA PartsJoin ==
  ASSUME NEW text \in Seq(Byte), NEW b \in 0..Len(text), NEW a \in 0..b
  PROVE  Part(text, 0, a) \o Part(text, a, b) = Part(text, 0, b)
<1> DEFINE s == Part(text, 0, a)
           t == Part(text, a, b)
           u == Part(text, 0, b)
<1>1. /\ Len(text) \in Nat /\ a \in Nat /\ b \in Nat /\ a \in 0..Len(text)
      /\ 0 \in 0..a /\ 0 \in 0..b
  BY LenProperties
<1>2. s \in Seq(Byte) /\ Len(s) = a - 0 /\ \A i \in 1..a - 0 : s[i] = text[0 + i]
  BY <1>1, PartType
<1>3. t \in Seq(Byte) /\ Len(t) = b - a /\ \A i \in 1..b - a : t[i] = text[a + i]
  BY <1>1, PartType
<1>4. u \in Seq(Byte) /\ Len(u) = b - 0 /\ \A i \in 1..b - 0 : u[i] = text[0 + i]
  BY <1>1, PartType
<1> HIDE DEF s, t, u
<1>5. /\ s \o t \in Seq(Byte) /\ Len(s \o t) = Len(s) + Len(t)
      /\ \A i \in 1..Len(s) + Len(t) : (s \o t)[i] = IF i <= Len(s) THEN s[i] ELSE t[i - Len(s)]
  BY <1>2, <1>3, ConcatProperties
<1>6. Len(s) = a /\ Len(s) + Len(t) = b /\ Len(u) = b
  BY <1>1, <1>2, <1>3, <1>4
<1>7. ASSUME NEW i \in 1..b
      PROVE  (s \o t)[i] = u[i]
  <2>1. u[i] = text[i]
    BY <1>1, <1>4
  <2>2. CASE i <= a
    <3>1. i \in 1..a - 0 /\ 0 + i = i
      BY <1>1, <2>2
    <3> QED
      BY <1>2, <1>5, <1>6, <2>1, <2>2, <3>1
  <2>3. CASE ~(i <= a)
    <3>1. i - a \in 1..b - a /\ a + (i - a) = i
      BY <1>1, <2>3
    <3> QED
      BY <1>3, <1>5, <1>6, <2>1, <2>3, <3>1
  <2> QED
    BY <2>2, <2>3
<1>8. s \o t = u
  BY <1>4, <1>5, <1>6, <1>7, SeqEqual
<1> QED
  BY <1>8 DEF s, t, u

LEMMA WholeText ==
  ASSUME NEW text \in Seq(Byte)
  PROVE  /\ Part(text, 0, Len(text)) = text
         /\ text = <<>> => valid_utf8_prefix(text) = 0
         /\ valid_utf8_prefix(text) \in 0..Len(text) /\ Len(text) \in Nat
<1>1. Len(text) \in Nat
  BY LenProperties
<1>2. Len(text) \in 0..Len(text) /\ 0 \in 0..Len(text)
  BY <1>1
<1>3. /\ Part(text, 0, Len(text)) \in Seq(Byte) /\ Len(Part(text, 0, Len(text))) = Len(text) - 0
      /\ \A i \in 1..Len(text) - 0 : Part(text, 0, Len(text))[i] = text[0 + i]
  BY <1>2, PartType
<1>4. Len(text) - 0 = Len(text) /\ \A i \in 1..Len(text) : 0 + i = i
  BY <1>1
<1>5. Part(text, 0, Len(text)) = text
  BY <1>3, <1>4, SeqEqual
<1>6. valid_utf8_prefix(text) \in 0..Len(text)
  BY <1>2, ScanSteps
<1>7. text = <<>> => Len(text) = 0
  BY EmptySeq
<1> QED
  BY <1>1, <1>5, <1>6, <1>7

------------------------------------------------------------------------------
(* The text of an answer, and what is on the connection of it.             *)

LEMMA ShownType ==
  ASSUME NEW t \in Token
  PROVE  Shown(t) \in Seq(Byte)
BY PieceAssumption, EmptySeq DEF Shown

LEMMA DecodedType ==
  ASSUME NEW tokens \in Seq(Token)
  PROVE  /\ Decoded(tokens) \in Seq(Byte)
         /\ [i \in DOMAIN tokens |-> Shown(tokens[i])] \in Seq(Seq(Byte))
<1> DEFINE ss == [i \in DOMAIN tokens |-> Shown(tokens[i])]
<1>1. DOMAIN tokens = 1..Len(tokens) /\ Len(tokens) \in Nat
      /\ \A i \in 1..Len(tokens) : tokens[i] \in Token
  BY LenProperties, ElementOfSeq
<1>2. ss \in [1..Len(tokens) -> Seq(Byte)]
  BY <1>1, ShownType
<1>3. ss \in Seq(Seq(Byte))
  <2> HIDE DEF ss
  <2> QED
    BY <1>1, <1>2, SeqDef
<1> QED
  BY <1>3, JoinType DEF Decoded

LEMMA DecodedGrows ==
  ASSUME NEW tokens \in Seq(Token), NEW t \in Token
  PROVE  Decoded(Append(tokens, t)) = Decoded(tokens) \o Shown(t)
<1> DEFINE ss == [i \in DOMAIN tokens |-> Shown(tokens[i])]
           tt == [i \in DOMAIN Append(tokens, t) |-> Shown(Append(tokens, t)[i])]
           n == Len(tokens)
<1>1. /\ DOMAIN tokens = 1..n /\ n \in Nat
      /\ Append(tokens, t) \in Seq(Token) /\ Len(Append(tokens, t)) = n + 1
      /\ \A i \in 1..n : Append(tokens, t)[i] = tokens[i]
      /\ Append(tokens, t)[n + 1] = t
  BY LenProperties, AppendProperties
<1>2. DOMAIN Append(tokens, t) = 1..n + 1
  BY <1>1, LenProperties
<1>3. ss \in Seq(Seq(Byte)) /\ tt \in Seq(Seq(Byte)) /\ Shown(t) \in Seq(Byte)
  BY <1>1, DecodedType, ShownType
<1>4. Len(ss) = n /\ Len(tt) = n + 1
  <2>1. DOMAIN ss = 1..n /\ DOMAIN tt = 1..n + 1
    BY <1>1, <1>2
  <2> HIDE DEF ss, tt
  <2>2. DOMAIN ss = 1..Len(ss) /\ DOMAIN tt = 1..Len(tt) /\ Len(ss) \in Nat /\ Len(tt) \in Nat
    BY <1>3, LenProperties
  <2> QED
    BY <1>1, <2>1, <2>2
<1>5. \A i \in 1..n + 1 : tt[i] = IF i = n + 1 THEN Shown(t) ELSE ss[i]
  BY <1>1, <1>2
<1> HIDE DEF ss, tt
<1>6. /\ Append(ss, Shown(t)) \in Seq(Seq(Byte)) /\ Len(Append(ss, Shown(t))) = n + 1
      /\ \A i \in 1..n : Append(ss, Shown(t))[i] = ss[i]
      /\ Append(ss, Shown(t))[n + 1] = Shown(t)
  BY <1>3, <1>4, AppendProperties
<1>7. \A i \in 1..n + 1 : tt[i] = Append(ss, Shown(t))[i]
  BY <1>1, <1>5, <1>6
<1>8. tt = Append(ss, Shown(t))
  BY <1>3, <1>4, <1>6, <1>7, SeqEqual
<1>9. FlattenSeq(tt) = FlattenSeq(ss) \o Shown(t)
  BY <1>3, <1>8, JoinAppend
<1> QED
  BY <1>9 DEF Decoded, ss, tt

(* Deltas are bytes, and whole characters.                                 *)
IsDelta(e) == e.kind = "delta"
DeltaOK(e) ==
  /\ DeltaBytes(e) \in Seq(Byte)
  /\ IsDelta(e) => e.bytes # <<>> /\ valid_utf8_prefix(e.bytes) = Len(e.bytes)
DeltasIn(es) == (\E S : es \in Seq(S)) /\ \A i \in 1..Len(es) : DeltaOK(es[i])
DeltasOK == DeltasIn(reply_events)
TextOf(es) == FlattenSeq([i \in DOMAIN es |-> DeltaBytes(es[i])])

LEMMA StreamType ==
  ASSUME NEW es, DeltasIn(es)
  PROVE  /\ [i \in DOMAIN es |-> DeltaBytes(es[i])] \in Seq(Seq(Byte))
         /\ TextOf(es) \in Seq(Byte) /\ TextOf(es) \o <<>> = TextOf(es)
         /\ DOMAIN es = 1..Len(es) /\ Len(es) \in Nat
<1> DEFINE ss == [i \in DOMAIN es |-> DeltaBytes(es[i])]
<1>1. DOMAIN es = 1..Len(es) /\ Len(es) \in Nat
  BY LenProperties DEF DeltasIn
<1>2. ss \in [1..Len(es) -> Seq(Byte)]
  BY <1>1 DEF DeltasIn, DeltaOK
<1> HIDE DEF ss
<1>3. ss \in Seq(Seq(Byte))
  BY <1>1, <1>2, SeqDef
<1>4. TextOf(es) \in Seq(Byte)
  BY <1>3, JoinType DEF TextOf, ss
<1> QED
  BY <1>1, <1>3, <1>4, ConcatEmptySeq DEF ss

LEMMA StreamGrows ==
  ASSUME NEW es, DeltasIn(es), NEW e, DeltaOK(e)
  PROVE  /\ DeltasIn(Append(es, e))
         /\ TextOf(Append(es, e)) = TextOf(es) \o DeltaBytes(e)
<1> DEFINE n == Len(es)
           fs == Append(es, e)
           ss == [i \in DOMAIN es |-> DeltaBytes(es[i])]
           tt == [i \in DOMAIN fs |-> DeltaBytes(fs[i])]
<1>1. PICK S : es \in Seq(S)
  BY DEF DeltasIn
<1>2. /\ fs \in Seq(S \cup {e}) /\ Len(fs) = n + 1 /\ n \in Nat
      /\ \A i \in 1..n : fs[i] = es[i]
      /\ fs[n + 1] = e
  BY <1>1, Appended
<1> HIDE DEF fs
<1>3. DeltasIn(fs)
  <2>1. \E T : fs \in Seq(T)
    BY <1>2
  <2>2. \A i \in 1..n : DeltaOK(es[i])
    BY DEF DeltasIn
  <2>3. ASSUME NEW i \in 1..Len(fs)
        PROVE  DeltaOK(fs[i])
    <3>1. i \in 1..n + 1
      BY <1>2
    <3>2. CASE i = n + 1
      BY <1>2, <3>2
    <3>3. CASE i # n + 1
      BY <1>2, <2>2, <3>1, <3>3
    <3> QED
      BY <3>2, <3>3
  <2> QED
    BY <2>1, <2>3 DEF DeltasIn
<1>4. ss \in Seq(Seq(Byte)) /\ tt \in Seq(Seq(Byte)) /\ DOMAIN es = 1..n /\ DOMAIN fs = 1..n + 1
  BY <1>2, <1>3, StreamType
<1>5. DeltaBytes(e) \in Seq(Byte)
  BY DEF DeltaOK
<1>6. \A i \in 1..n + 1 : tt[i] = IF i = n + 1 THEN DeltaBytes(e) ELSE ss[i]
  BY <1>2, <1>4
<1>7. DOMAIN ss = 1..n /\ DOMAIN tt = 1..n + 1
  BY <1>4
<1> HIDE DEF ss, tt
<1>8. Len(ss) = n /\ Len(tt) = n + 1
  BY <1>2, <1>4, <1>7, LenProperties
<1>9. /\ Append(ss, DeltaBytes(e)) \in Seq(Seq(Byte)) /\ Len(Append(ss, DeltaBytes(e))) = n + 1
      /\ \A i \in 1..n : Append(ss, DeltaBytes(e))[i] = ss[i]
      /\ Append(ss, DeltaBytes(e))[n + 1] = DeltaBytes(e)
  BY <1>4, <1>5, <1>8, AppendProperties
<1>10. \A i \in 1..n + 1 : tt[i] = Append(ss, DeltaBytes(e))[i]
  BY <1>2, <1>6, <1>9
<1>11. tt = Append(ss, DeltaBytes(e))
  BY <1>4, <1>8, <1>9, <1>10, SeqEqual
<1>12. FlattenSeq(tt) = FlattenSeq(ss) \o DeltaBytes(e)
  BY <1>4, <1>5, <1>11, JoinAppend
<1> QED
  BY <1>3, <1>12 DEF TextOf, ss, tt, fs

(* What has been sent of the text: some of its whole characters, and all   *)
(* of them while the client is there and the loop has not failed.          *)
SentPart ==
  /\ sent_bytes \in 0..Len(Decoded(emitted))
  /\ TextOf(reply_events) = Part(Decoded(emitted), 0, sent_bytes)
  /\ valid_utf8_prefix(Part(Decoded(emitted), 0, sent_bytes)) = sent_bytes
AllSent == sent_bytes = valid_utf8_prefix(Decoded(emitted))
Going == {"open", "check", "prefill", "consume", "decode", "finish"}
UpToDate == request.stream /\ client_connected /\ pc \in Going => AllSent
FinishedWhole == Sent("finish") => pc \in {"usage", "done", "closed"} /\ AllSent

TextInv == DeltasOK /\ SentPart /\ UpToDate /\ FinishedWhole

(* What is put on the connection without being a delta says nothing.       *)
NotDelta(kind) == kind # "delta"

LEMMA PlainEvent ==
  ASSUME NEW es, DeltasIn(es), NEW kind, NotDelta(kind), NEW bytes
  PROVE  /\ DeltasIn(Append(es, Event(kind, bytes)))
         /\ TextOf(Append(es, Event(kind, bytes))) = TextOf(es)
<1>1. DeltaOK(Event(kind, bytes)) /\ DeltaBytes(Event(kind, bytes)) = <<>>
  BY EmptySeq DEF Event, DeltaOK, DeltaBytes, IsDelta, NotDelta
<1> QED
  BY <1>1, StreamGrows, StreamType

LEMMA LostEvent ==
  ASSUME DeltasOK, Lost
  PROVE  DeltasOK' /\ TextOf(reply_events)' = TextOf(reply_events)
<1>1. NotDelta("cut")
  BY DEF NotDelta
<1> QED
  BY <1>1, PlainEvent DEF Lost, DeltasOK

(* Steps that take no token and send no delta.                             *)
Plain == DeltasOK' /\ TextOf(reply_events)' = TextOf(reply_events)

LEMMA PlainText ==
  ASSUME TextInv, Plain, UNCHANGED <<emitted, sent_bytes>>
  PROVE  DeltasOK' /\ SentPart' /\ (AllSent' <=> AllSent)
<1>1. Decoded(emitted') = Decoded(emitted)
  OBVIOUS
<1>2. Part(Decoded(emitted'), 0, sent_bytes') = Part(Decoded(emitted), 0, sent_bytes)
  OBVIOUS
<1>3. SentPart'
  BY <1>1, <1>2 DEF TextInv, SentPart, Plain
<1>4. AllSent' <=> AllSent
  BY <1>1 DEF AllSent
<1> QED
  BY <1>3, <1>4 DEF Plain

LEMMA OpenText ==
  ASSUME LoopInv, Protocol, TextInv, Open
  PROVE  TextInv'
<1>1. /\ pc = "open" /\ reply_events = <<>>
      /\ UNCHANGED <<request, client_connected, emitted, sent_bytes>>
      /\ pc' \in {"check", "closed"}
      /\ reply_events' \in {<<>>, <<Event("headers", <<>>)>>,
                            <<Event("headers", <<>>), Event("role", <<>>)>>}
  BY DEF Open, Protocol, loopVars
<1>2. NotDelta("headers") /\ NotDelta("role")
  BY DEF NotDelta
<1>3. /\ <<Event("headers", <<>>)>> = Append(<<>>, Event("headers", <<>>))
      /\ <<Event("headers", <<>>), Event("role", <<>>)>>
           = Append(Append(<<>>, Event("headers", <<>>)), Event("role", <<>>))
  OBVIOUS
<1>4. DeltasIn(<<>>)
  BY <1>1 DEF TextInv, DeltasOK
<1>5. \A es : es \in {<<>>, <<Event("headers", <<>>)>>,
                      <<Event("headers", <<>>), Event("role", <<>>)>>} =>
                DeltasIn(es) /\ TextOf(es) = TextOf(<<>>)
  <2>1. /\ DeltasIn(Append(<<>>, Event("headers", <<>>)))
        /\ TextOf(Append(<<>>, Event("headers", <<>>))) = TextOf(<<>>)
    BY <1>2, <1>4, PlainEvent
  <2>2. /\ DeltasIn(Append(Append(<<>>, Event("headers", <<>>)), Event("role", <<>>)))
        /\ TextOf(Append(Append(<<>>, Event("headers", <<>>)), Event("role", <<>>)))
             = TextOf(Append(<<>>, Event("headers", <<>>)))
    BY <1>2, <2>1, PlainEvent
  <2> HIDE DEF TextOf, DeltasIn
  <2> QED
    BY <1>3, <1>4, <2>1, <2>2, Zenon
<1>6. Plain
  BY <1>1, <1>5 DEF Plain, DeltasOK
<1>7. ~Sent("finish")'
  <2>1. Protocol'
    BY OpenProtocol
  <2>2. CASE pc' = "check"
    BY <2>1, <2>2 DEF Protocol, KindsIn, Sent, Early
  <2>3. CASE pc' = "closed"
    <3>1. \A i \in 1..Len(reply_events') : reply_events'[i].kind \in {"headers", "role"}
      BY <1>1 DEF Event
    <3> QED
      BY <3>1 DEF Sent
  <2> QED
    BY <1>1, <2>2, <2>3
<1> QED
  BY <1>1, <1>6, <1>7, PlainText DEF TextInv, UpToDate, Going, FinishedWhole

(* What a longer text has to send behind what was sent of it.              *)
Sends(text, all, a, b) ==
  /\ all \in Seq(Byte) /\ a \in 0..b /\ b \in 0..Len(all)
  /\ Part(all, 0, a) = Part(text, 0, a) /\ a \in 0..Len(all)
  /\ Part(all, 0, a) \o Part(all, a, b) = Part(all, 0, b)
  /\ valid_utf8_prefix(Part(all, 0, b)) = b
  /\ valid_utf8_prefix(Part(all, a, b)) = b - a
  /\ Part(all, a, b) \in Seq(Byte) /\ Len(Part(all, a, b)) = b - a

LEMMA NextPart ==
  ASSUME NEW text \in Seq(Byte), NEW more \in Seq(Byte),
         NEW a \in 0..Len(text), valid_utf8_prefix(Part(text, 0, a)) = a
  PROVE  Sends(text, text \o more, a, valid_utf8_prefix(text \o more))
<1> DEFINE all == text \o more
           b == valid_utf8_prefix(all)
<1>1. /\ all \in Seq(Byte) /\ a \in 0..Len(all)
      /\ Part(all, 0, a) = Part(text, 0, a)
  BY PartOfLonger
<1>2. Scan(all)[0] = Scan(all)[a]
  BY <1>1, ScanPasses
<1>3. /\ b = Scan(all)[0] /\ Len(all) \in Nat
      /\ Scan(all)[a] \in a..Len(all)
  BY <1>1, ScanSteps
<1>4. b \in 0..Len(all) /\ a \in 0..b /\ 0 \in 0..b /\ b - 0 = b
  BY <1>1, <1>2, <1>3
<1>5. valid_utf8_prefix(Part(all, a, b)) = b - a
  BY ZenonT(30), <1>1, <1>2, <1>3, <1>4, ScanOfPart
<1>6. valid_utf8_prefix(Part(all, 0, b)) = b
  BY <1>1, <1>3, <1>4, ScanOfPart
<1>7. Part(all, 0, a) \o Part(all, a, b) = Part(all, 0, b)
  BY <1>1, <1>4, PartsJoin
<1>8. Part(all, a, b) \in Seq(Byte) /\ Len(Part(all, a, b)) = b - a
  BY <1>1, <1>4, PartType
<1> QED
  BY <1>1, <1>4, <1>5, <1>6, <1>7, <1>8 DEF Sends

(* Steps that take no token and send nothing.                              *)
LEMMA QuietText ==
  ASSUME TextInv, UNCHANGED <<request, reply_events, client_connected, emitted, sent_bytes>>,
         pc \in Going, ~Sent("finish"), pc' \in Going \cup {"error"}
  PROVE  TextInv'
<1>1. Plain
  BY DEF Plain, TextInv, DeltasOK
<1>2. DeltasOK' /\ SentPart' /\ (AllSent' <=> AllSent)
  BY <1>1, PlainText
<1>3. ~Sent("finish")'
  BY DEF Sent
<1>4. UpToDate'
  BY <1>2 DEF TextInv, UpToDate, Going
<1> QED
  BY <1>2, <1>3, <1>4 DEF TextInv, FinishedWhole

(* The text after a token was taken.                                       *)
LEMMA TakenText ==
  ASSUME LoopInv, Protocol, TextInv, Take
  PROVE  /\ Decoded(emitted) \in Seq(Byte) /\ Shown(next') \in Seq(Byte)
         /\ Decoded(emitted') = Decoded(emitted) \o Shown(next')
         /\ sent_bytes \in 0..Len(Decoded(emitted))
         /\ valid_utf8_prefix(Part(Decoded(emitted), 0, sent_bytes)) = sent_bytes
         /\ TextOf(reply_events) = Part(Decoded(emitted), 0, sent_bytes)
         /\ ~Sent("finish") /\ pc = "consume" /\ client_connected
         /\ UNCHANGED request /\ DeltasOK
<1>1. emitted \in Seq(Token) /\ next' \in Token /\ emitted' = Append(emitted, next')
  BY TakeFacts DEF LoopInv, LoopType
<1>2. /\ Decoded(emitted) \in Seq(Byte) /\ Shown(next') \in Seq(Byte)
      /\ Decoded(emitted') = Decoded(emitted) \o Shown(next')
  BY <1>1, DecodedType, DecodedGrows, ShownType
<1>3. pc = "consume" /\ UNCHANGED request
  BY DEF Take
<1>4. ~Sent("finish") /\ client_connected
  BY <1>3 DEF Protocol, KindsIn, Sent, Early
<1> QED
  BY <1>2, <1>3, <1>4 DEF TextInv, SentPart

(* A token was taken and nothing of it sent.                               *)
LEMMA UnsentText ==
  ASSUME LoopInv, Protocol, TextInv, Take, UNCHANGED sent_bytes,
         DeltasOK', TextOf(reply_events)' = TextOf(reply_events),
         ~Sent("finish")', UpToDate'
  PROVE  TextInv'
<1>1. /\ Decoded(emitted) \in Seq(Byte) /\ Shown(next') \in Seq(Byte)
      /\ Decoded(emitted') = Decoded(emitted) \o Shown(next')
      /\ sent_bytes \in 0..Len(Decoded(emitted))
      /\ valid_utf8_prefix(Part(Decoded(emitted), 0, sent_bytes)) = sent_bytes
      /\ TextOf(reply_events) = Part(Decoded(emitted), 0, sent_bytes)
  BY TakenText
<1>2. /\ Part(Decoded(emitted'), 0, sent_bytes) = Part(Decoded(emitted), 0, sent_bytes)
      /\ sent_bytes \in 0..Len(Decoded(emitted'))
  BY <1>1, PartOfLonger
<1>3. SentPart'
  BY <1>1, <1>2 DEF SentPart
<1> QED
  BY <1>3 DEF TextInv, FinishedWhole

LEMMA TerminalText ==
  ASSUME LoopInv, Protocol, TextInv, ConsumeTerminal
  PROVE  TextInv'
<1>1. /\ Take /\ next' \in Terminal /\ pc' \in {"finish", "decode", "consume"}
      /\ UNCHANGED <<sent_bytes, client_connected, reply_events>>
  BY DEF ConsumeTerminal, Continue
<1>2. /\ Decoded(emitted) \in Seq(Byte) /\ Decoded(emitted') = Decoded(emitted) \o Shown(next')
      /\ ~Sent("finish") /\ pc = "consume" /\ client_connected /\ UNCHANGED request /\ DeltasOK
  BY <1>1, TakenText
<1>3. Decoded(emitted') = Decoded(emitted)
  BY <1>1, <1>2, ConcatEmptySeq DEF Shown
<1>4. AllSent' <=> AllSent
  BY <1>1, <1>3 DEF AllSent
<1>5. UpToDate'
  BY <1>1, <1>2, <1>4 DEF TextInv, UpToDate, Going
<1>6. DeltasOK' /\ TextOf(reply_events)' = TextOf(reply_events) /\ ~Sent("finish")'
  BY <1>1, <1>2 DEF DeltasOK, Sent
<1> QED
  BY <1>1, <1>5, <1>6, UnsentText

LEMMA NoPieceText ==
  ASSUME LoopInv, Protocol, TextInv, DecodeTextFails
  PROVE  TextInv'
<1>1. /\ Take /\ pc' = "error"
      /\ UNCHANGED <<sent_bytes, client_connected, reply_events>>
  BY DEF DecodeTextFails
<1>2. ~Sent("finish") /\ DeltasOK
  BY <1>1, TakenText
<1>3. UpToDate'
  BY <1>1 DEF UpToDate, Going
<1>4. DeltasOK' /\ TextOf(reply_events)' = TextOf(reply_events) /\ ~Sent("finish")'
  BY <1>1, <1>2 DEF DeltasOK, Sent
<1> QED
  BY <1>1, <1>3, <1>4, UnsentText

LEMMA ContentText ==
  ASSUME LoopInv, Protocol, TextInv, ConsumeContent
  PROVE  TextInv'
<1> DEFINE text == Decoded(emitted)
           all == Decoded(emitted')
           a == sent_bytes
           b == valid_utf8_prefix(all)
<1>1. Take /\ Emit /\ pc' \in {"finish", "decode", "consume"}
  BY DEF ConsumeContent, Continue
<1>2. /\ text \in Seq(Byte) /\ Shown(next') \in Seq(Byte) /\ all = text \o Shown(next')
      /\ a \in 0..Len(text) /\ valid_utf8_prefix(Part(text, 0, a)) = a
      /\ TextOf(reply_events) = Part(text, 0, a)
      /\ ~Sent("finish") /\ pc = "consume" /\ client_connected
      /\ UNCHANGED request /\ DeltasOK
  BY <1>1, TakenText
<1>3. /\ all \in Seq(Byte) /\ a \in 0..b /\ b \in 0..Len(all)
      /\ Part(all, 0, a) = Part(text, 0, a) /\ a \in 0..Len(all)
      /\ Part(all, 0, a) \o Part(all, a, b) = Part(all, 0, b)
      /\ valid_utf8_prefix(Part(all, 0, b)) = b
      /\ valid_utf8_prefix(Part(all, a, b)) = b - a
      /\ Part(all, a, b) \in Seq(Byte) /\ Len(Part(all, a, b)) = b - a
  <2>1. Sends(text, text \o Shown(next'), a, valid_utf8_prefix(text \o Shown(next')))
    BY <1>2, NextPart
  <2>2. Sends(text, all, a, b)
    BY <1>2, <2>1
  <2> QED
    BY <2>2 DEF Sends
<1>4. CASE ~request.stream /\ UNCHANGED <<sent_bytes, client_connected, reply_events>>
  <2>1. UpToDate'
    BY <1>2, <1>4 DEF UpToDate
  <2>2. DeltasOK' /\ TextOf(reply_events)' = TextOf(reply_events) /\ ~Sent("finish")'
    BY <1>2, <1>4 DEF DeltasOK, Sent
  <2> QED
    BY <1>1, <1>4, <2>1, <2>2, UnsentText
<1>5. CASE b <= a /\ UNCHANGED <<sent_bytes, client_connected, reply_events>>
  <2>1. AllSent'
    BY <1>3, <1>5 DEF AllSent
  <2>2. UpToDate'
    BY <2>1 DEF UpToDate
  <2>3. DeltasOK' /\ TextOf(reply_events)' = TextOf(reply_events) /\ ~Sent("finish")'
    BY <1>2, <1>5 DEF DeltasOK, Sent
  <2> QED
    BY <1>1, <1>5, <2>2, <2>3, UnsentText
<1>6. CASE ~(b <= a) /\ Lost /\ client_connected' = FALSE /\ UNCHANGED sent_bytes
  <2>1. UpToDate'
    BY <1>6 DEF UpToDate
  <2>2. DeltasOK' /\ TextOf(reply_events)' = TextOf(reply_events)
    BY <1>2, <1>6, LostEvent
  <2>3. ~Sent("finish")'
    <3>1. Connection /\ KindsIn(Early) /\ Behind(Early, "cut")
      BY <1>2, StageValues DEF Protocol, Connection, Behind, Early
    <3> QED
      BY <1>2, <1>6, <3>1, Losing
  <2> QED
    BY <1>1, <1>6, <2>1, <2>2, <2>3, UnsentText
<1>7. CASE /\ ~(b <= a) /\ Delivered("delta", Part(all, a, b)) /\ sent_bytes' = b
           /\ UNCHANGED client_connected
  <2> DEFINE e == Event("delta", Part(all, a, b))
  <2>1. reply_events' = Append(reply_events, e)
    BY <1>7 DEF Delivered
  <2>2. Part(all, a, b) # <<>>
    <3>1. Len(Part(all, a, b)) # 0
      BY <1>3, <1>7
    <3> QED
      BY <3>1, EmptySeq
  <2>3. e.kind = "delta" /\ e.bytes = Part(all, a, b)
    BY DEF Event
  <2>4. DeltaOK(e) /\ DeltaBytes(e) = Part(all, a, b)
    BY <1>3, <2>2, <2>3 DEF DeltaOK, DeltaBytes, IsDelta
  <2> HIDE DEF e
  <2>5. /\ DeltasIn(reply_events')
        /\ TextOf(reply_events') = TextOf(reply_events) \o Part(all, a, b)
    BY <1>2, <2>1, <2>4, StreamGrows DEF DeltasOK
  <2>6. SentPart'
    BY <1>2, <1>3, <1>7, <2>5 DEF SentPart
  <2>7. AllSent'
    BY <1>7 DEF AllSent
  <2>8. ~Sent("finish")'
    <3>1. Connection /\ KindsIn(Early) /\ Behind(Early, "delta")
      BY <1>2, StageValues DEF Protocol, Connection, Behind, Early
    <3>2. \A k : Sent(k)' <=> Sent(k) \/ k = "delta"
      BY <1>7, <3>1, Sending
    <3> QED
      BY <1>2, <3>2
  <2> QED
    BY <2>5, <2>6, <2>7, <2>8 DEF TextInv, DeltasOK, UpToDate, FinishedWhole
<1> QED
  BY <1>1, <1>4, <1>5, <1>6, <1>7 DEF Emit, Part

(* What follows the loop puts no delta on the connection.                  *)
LEMMA ClosingText ==
  ASSUME LoopInv, Protocol, TextInv, Finish \/ SendUsage \/ ReportError \/ SendDone
  PROVE  TextInv'
<1>1. /\ UNCHANGED <<request, emitted, sent_bytes, client_connected>>
      /\ pc \in {"finish", "usage", "error", "done"}
      /\ pc' \in {"usage", "done", "closed"}
  BY DEF Finish, SendUsage, ReportError, SendDone, SendOr, loopVars
<1>2. PICK kind \in {"completion", "finish", "usage", "error", "done", "cut"} :
        /\ \/ UNCHANGED reply_events
           \/ \E bytes : Delivered(kind, bytes)
        /\ kind = "finish" => pc = "finish" /\ request.stream /\ client_connected
  <2>1. CASE Finish
    BY <2>1 DEF Finish, SendOr, Lost, Delivered
  <2>2. CASE SendUsage
    BY <2>2 DEF SendUsage, SendOr, Lost, Delivered
  <2>3. CASE ReportError
    BY <2>3 DEF ReportError, Lost, Delivered
  <2>4. CASE SendDone
    BY <2>4 DEF SendDone, Lost, Delivered
  <2> QED
    BY <2>1, <2>2, <2>3, <2>4
<1>3. DeltasOK' /\ TextOf(reply_events)' = TextOf(reply_events)
  <2>1. CASE UNCHANGED reply_events
    BY <2>1 DEF TextInv, DeltasOK
  <2>2. CASE \E bytes : Delivered(kind, bytes)
    <3>1. PICK bytes : Delivered(kind, bytes)
      BY <2>2
    <3>2. NotDelta(kind)
      BY DEF NotDelta
    <3> QED
      BY <3>1, <3>2, PlainEvent DEF Delivered, TextInv, DeltasOK
  <2> QED
    BY <1>2, <2>1, <2>2
<1>4. DeltasOK' /\ SentPart' /\ (AllSent' <=> AllSent)
  BY <1>1, <1>3, PlainText DEF Plain
<1>5. Sent("finish")' => Sent("finish") \/ AllSent
  <2>1. PICK S : reply_events \in Seq(S)
    BY DEF Protocol
  <2>2. CASE UNCHANGED reply_events
    BY <2>2 DEF Sent
  <2>3. CASE \E bytes : Delivered(kind, bytes)
    <3>1. PICK bytes : reply_events' = Append(reply_events, Event(kind, bytes))
      BY <2>3 DEF Delivered
    <3>2. /\ Len(reply_events') = Len(reply_events) + 1 /\ Len(reply_events) \in Nat
          /\ \A i \in 1..Len(reply_events) : reply_events'[i] = reply_events[i]
          /\ reply_events'[Len(reply_events) + 1].kind = kind
      BY <2>1, <3>1, Appended DEF Event
    <3>3. Sent("finish")' => Sent("finish") \/ kind = "finish"
      BY <3>2 DEF Sent
    <3>4. kind = "finish" => AllSent
      BY <1>2 DEF TextInv, UpToDate, Going
    <3> QED
      BY <3>3, <3>4
  <2> QED
    BY <1>2, <2>2, <2>3
<1>6. FinishedWhole'
  BY <1>1, <1>4, <1>5 DEF TextInv, FinishedWhole
<1>7. UpToDate'
  BY <1>1 DEF UpToDate, Going
<1> QED
  BY <1>4, <1>6, <1>7 DEF TextInv

LEMMA TextStep ==
  ASSUME LoopInv, Protocol, TextInv, [Next]_vars
  PROVE  TextInv'
<1>1. CASE Open
  BY <1>1, OpenText
<1>2. CASE CreateSession \/ Sync \/ Prefill \/ DecodeOne \/ DecodeRound \/ CallFails
  <2>1. /\ UNCHANGED <<request, reply_events, client_connected, emitted, sent_bytes>>
        /\ pc \in {"check", "prefill", "decode"}
        /\ pc' \in {"prefill", "consume", "decode", "error"}
    BY <1>2 DEF CreateSession, Sync, Prefill, DecodeOne, DecodeRound, CallFails, loopVars
  <2>2. ~Sent("finish")
    BY <2>1 DEF Protocol, KindsIn, Sent, Early
  <2> QED
    BY <2>1, <2>2, QuietText DEF Going
<1>3. CASE ConsumeTerminal
  BY <1>3, TerminalText
<1>4. CASE DecodeTextFails
  BY <1>4, NoPieceText
<1>5. CASE ConsumeContent
  BY <1>5, ContentText
<1>6. CASE Finish \/ SendUsage \/ ReportError \/ SendDone
  BY <1>6, ClosingText
<1>7. CASE UNCHANGED vars
  <2>1. UNCHANGED <<pc, request, reply_events, client_connected, emitted, sent_bytes>>
    BY <1>7 DEF vars, loopVars
  <2>2. Plain
    BY <2>1 DEF Plain, TextInv, DeltasOK
  <2>3. DeltasOK' /\ SentPart' /\ (AllSent' <=> AllSent)
    BY <2>1, <2>2, PlainText
  <2>4. Sent("finish")' <=> Sent("finish")
    BY <2>1 DEF Sent
  <2> QED
    BY <2>1, <2>3, <2>4 DEF TextInv, UpToDate, FinishedWhole
<1> QED
  BY <1>1, <1>2, <1>3, <1>4, <1>5, <1>6, <1>7 DEF Next, Handle, Closed

LEMMA InitText ==
  ASSUME Init
  PROVE  Protocol /\ TextInv
<1>1. /\ pc = "open" /\ reply_events = <<>> /\ client_connected
      /\ emitted = <<>> /\ sent_bytes = 0
  BY DEF Init
<1>2. reply_events \in Seq({}) /\ Len(reply_events) = 0 /\ emitted \in Seq(Token)
  BY <1>1
<1>3. Protocol
  BY <1>1, <1>2 DEF Protocol, Ordered, Sent
<1>4. DeltasOK /\ ~Sent("finish")
  BY <1>2 DEF DeltasOK, DeltasIn, Sent
<1>5. Decoded(<<>>) = <<>> /\ TextOf(<<>>) = <<>>
  <2>1. \A ss : ss = [i \in {} |-> ss[i]] => ss = <<>>
    OBVIOUS
  <2>2. /\ DOMAIN <<>> = {}
        /\ [i \in DOMAIN <<>> |-> Shown(<<>>[i])] = <<>>
        /\ [i \in DOMAIN <<>> |-> DeltaBytes(<<>>[i])] = <<>>
    BY <2>1
  <2> QED
    BY <2>2 DEF Decoded, TextOf, FlattenSeq
<1>6. Part(<<>>, 0, 0) = <<>> /\ valid_utf8_prefix(<<>>) = 0
  <2>1. <<>> \in Seq(Byte) /\ Len(<<>>) = 0
    OBVIOUS
  <2> QED
    BY <2>1, WholeText
<1>7. SentPart /\ AllSent
  BY <1>1, <1>5, <1>6 DEF SentPart, AllSent
<1> QED
  BY <1>3, <1>4, <1>7 DEF TextInv, UpToDate, FinishedWhole

(* What a client has been sent of an answer is the beginning of its text,  *)
(* cut at whole characters, and no whole character is missing when the     *)
(* finish is reported; wherever tokens begin and end within a character.   *)
THEOREM StreamsWholeText == Spec => []StreamedText
<1>1. LoopInv /\ Protocol /\ TextInv => StreamedText
  <2> SUFFICES ASSUME LoopInv, Protocol, TextInv PROVE StreamedText
    OBVIOUS
  <2> DEFINE text == Decoded(emitted)
  <2>1. \A i \in 1..Len(reply_events) : reply_events[i].kind = "delta" =>
          /\ reply_events[i].bytes # <<>>
          /\ valid_utf8_prefix(reply_events[i].bytes) = Len(reply_events[i].bytes)
    BY DEF TextInv, DeltasOK, DeltasIn, DeltaOK, IsDelta
  <2>2. /\ sent_bytes \in 0..Len(text) /\ Part(text, 0, sent_bytes) = SubSeq(text, 1, sent_bytes)
        /\ TextOf(reply_events) = Part(text, 0, sent_bytes)
    BY DEF TextInv, SentPart, Part
  <2>3. Sent("finish") => sent_bytes = valid_utf8_prefix(text)
    BY DEF TextInv, FinishedWhole, AllSent
  <2>4. Streamed = TextOf(reply_events)
    BY DEF Streamed, TextOf
  <2> HIDE DEF text
  <2>5. /\ sent_bytes \in 0..Len(text) /\ Streamed = SubSeq(text, 1, sent_bytes)
        /\ Sent("finish") => sent_bytes = valid_utf8_prefix(text)
    BY <2>2, <2>3, <2>4
  <2> QED
    BY <2>1, <2>5 DEF StreamedText, text
<1>2. LoopInv /\ Protocol /\ TextInv /\ [Next]_vars => Protocol' /\ TextInv'
  BY ProtocolStep, TextStep
<1>3. Init => Protocol /\ TextInv
  BY InitText
<1> QED
  BY <1>1, <1>2, <1>3, LoopInvariance, PTL DEF Spec

=============================================================================
