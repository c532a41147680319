----------------------------- MODULE HyMtProofs -----------------------------
(***************************************************************************)
(* The KV cache of the native Hy-MT2 translator cannot be seen from        *)
(* outside, whatever the prompts, the sampler and the sizes are: HyMt      *)
(* implements Translation.                                                 *)
(***************************************************************************)
EXTENDS HyMt, SequenceTheorems, TLAPS

USE HyMtAssumption

-----------------------------------------------------------------------------
(* Sequences of entries.                                                   *)

LEMMA PromptIsSeq ==
    ASSUME NEW r \in Request
    PROVE  r.prompt \in Seq(Token) /\ r.prompt # <<>> /\ Len(r.prompt) \in Nat \ {0}
<1>1. r.prompt \in Seq(Token) /\ r.prompt # <<>>
  BY DEF Request
<1> QED
  BY <1>1, EmptySeq

(* One entry for each token. *)
LEMMA EntriesAreEntries ==
    ASSUME NEW r \in Request, NEW tokens \in Seq(Token)
    PROVE  /\ EntriesOf(r, tokens) \in Seq(Entry)
           /\ Len(EntriesOf(r, tokens)) = Len(tokens)
           /\ \A i \in 1..Len(tokens) : EntriesOf(r, tokens)[i] =
                [token |-> tokens[i], session |-> r.session, scope |-> r.scope]
BY DEF EntriesOf, Entry, Request

(* The entries of two runs of tokens, one after the other. *)
LEMMA EntriesConcat ==
    ASSUME NEW r \in Request, NEW s \in Seq(Token), NEW t \in Seq(Token)
    PROVE  EntriesOf(r, s) \o EntriesOf(r, t) = EntriesOf(r, s \o t)
<1> DEFINE u == s \o t
           a == EntriesOf(r, s)
           b == EntriesOf(r, t)
           c == EntriesOf(r, u)
           d == a \o b
           E(token) == [token |-> token, session |-> r.session, scope |-> r.scope]
<1>1. /\ a \in Seq(Entry) /\ Len(a) = Len(s)
      /\ \A i \in 1..Len(s) : a[i] = E(s[i])
  BY EntriesAreEntries
<1>2. /\ b \in Seq(Entry) /\ Len(b) = Len(t)
      /\ \A i \in 1..Len(t) : b[i] = E(t[i])
  BY EntriesAreEntries
<1>3. /\ u \in Seq(Token) /\ Len(u) = Len(s) + Len(t)
      /\ \A i \in 1..Len(s) + Len(t) : u[i] = IF i <= Len(s) THEN s[i] ELSE t[i - Len(s)]
  BY ConcatProperties, Zenon
<1> HIDE DEF u
<1>4. /\ c \in Seq(Entry) /\ Len(c) = Len(u)
      /\ \A i \in 1..Len(u) : c[i] = E(u[i])
  BY <1>3, EntriesAreEntries
<1> HIDE DEF a, b, c, E
<1>5. /\ d \in Seq(Entry) /\ Len(d) = Len(a) + Len(b)
      /\ \A i \in 1..Len(a) + Len(b) : d[i] = IF i <= Len(a) THEN a[i] ELSE b[i - Len(a)]
  <2>1. a \in Seq(Entry) /\ b \in Seq(Entry)
    BY <1>1, <1>2
  <2> QED
    BY <2>1, ConcatProperties, ZenonT(60)
<1> HIDE DEF d
<1>6. Len(s) \in Nat /\ Len(t) \in Nat
  BY LenProperties
<1>7. ASSUME NEW i \in 1..Len(d) PROVE d[i] = c[i]
  <2>1. CASE i <= Len(s)
    <3>1. i \in 1..Len(s) /\ i \in 1..Len(s) + Len(t) /\ i \in 1..Len(u)
      BY <1>1, <1>2, <1>3, <1>5, <1>6, <2>1
    <3> QED
      BY <1>1, <1>2, <1>3, <1>4, <1>5, <2>1, <3>1
  <2>2. CASE i > Len(s)
    <3>1. i - Len(s) \in 1..Len(t) /\ i \in 1..Len(s) + Len(t) /\ i \in 1..Len(u)
      BY <1>1, <1>2, <1>3, <1>5, <1>6, <2>2
    <3>2. d[i] = b[i - Len(s)] /\ u[i] = t[i - Len(s)]
      BY <1>1, <1>2, <1>3, <1>5, <1>6, <2>2, <3>1, SMTT(30)
    <3> QED
      BY <1>2, <1>4, <3>1, <3>2
  <2> QED
    BY <1>6, <2>1, <2>2
<1>8. Len(d) = Len(c)
  BY <1>1, <1>2, <1>3, <1>4, <1>5
<1>9. d = c
  BY <1>4, <1>5, <1>7, <1>8, SeqEqual, Zenon
<1> QED
  BY <1>9 DEF a, b, c, d, u

(* The beginning of a prompt is a sequence of tokens. *)
LEMMA BeginningIsSeq ==
    ASSUME NEW p \in Seq(Token), NEW m \in Nat, NEW n \in Nat, m <= n, n <= Len(p)
    PROVE  /\ SubSeq(p, 1, m) \in Seq(Token) /\ Len(SubSeq(p, 1, m)) = m
           /\ SubSeq(p, m + 1, n) \in Seq(Token) /\ Len(SubSeq(p, m + 1, n)) = n - m
           /\ \A i \in 1..m : SubSeq(p, 1, m)[i] = p[i]
           /\ \A i \in 1..n - m : SubSeq(p, m + 1, n)[i] = p[m + i]
<1>1. /\ Len(p) \in Nat
      /\ \A i \in 1..Len(p) : p[i] \in Token
  BY LenProperties, ElementOfSeq
<1>2. /\ SubSeq(p, 1, m) \in Seq(Token) /\ Len(SubSeq(p, 1, m)) = m
      /\ \A i \in 1..m : SubSeq(p, 1, m)[i] = p[i]
  <2>1. \A i \in 1..m : p[i] \in Token
    BY <1>1
  <2> QED
    BY <2>1, SubSeqProperties
<1>3. /\ SubSeq(p, m + 1, n) \in Seq(Token) /\ Len(SubSeq(p, m + 1, n)) = n - m
      /\ \A i \in 1..n - m : SubSeq(p, m + 1, n)[i] = p[m + i]
  <2>1. m + 1 \in Int /\ n \in Int /\ \A i \in (m + 1)..n : p[i] \in Token
    BY <1>1
  <2>2. /\ SubSeq(p, m + 1, n) \in Seq(Token)
        /\ Len(SubSeq(p, m + 1, n)) = IF m + 1 <= n THEN n - (m + 1) + 1 ELSE 0
        /\ \A i \in 1..n - (m + 1) + 1 : SubSeq(p, m + 1, n)[i] = p[(m + 1) + i - 1]
    BY <2>1, SubSeqProperties
  <2> QED
    BY <2>2
<1> QED
  BY <1>2, <1>3

(* A batch goes on where the one before ended. *)
LEMMA BeginningGrows ==
    ASSUME NEW p \in Seq(Token), NEW m \in Nat, NEW n \in Nat, m <= n, n <= Len(p)
    PROVE  SubSeq(p, 1, m) \o SubSeq(p, m + 1, n) = SubSeq(p, 1, n)
<1> DEFINE a == SubSeq(p, 1, m)
           b == SubSeq(p, m + 1, n)
           c == SubSeq(p, 1, n)
           d == a \o b
<1>1. /\ a \in Seq(Token) /\ Len(a) = m /\ b \in Seq(Token) /\ Len(b) = n - m
      /\ \A i \in 1..m : a[i] = p[i]
      /\ \A i \in 1..n - m : b[i] = p[m + i]
  BY BeginningIsSeq, SMTT(30)
<1>2. c \in Seq(Token) /\ Len(c) = n /\ \A i \in 1..n : c[i] = p[i]
  BY BeginningIsSeq
<1> HIDE DEF a, b, c
<1>3. /\ d \in Seq(Token) /\ Len(d) = Len(a) + Len(b)
      /\ \A i \in 1..Len(a) + Len(b) : d[i] = IF i <= Len(a) THEN a[i] ELSE b[i - Len(a)]
  <2>1. a \in Seq(Token) /\ b \in Seq(Token)
    BY <1>1
  <2> QED
    BY <2>1, ConcatProperties, ZenonT(60)
<1> HIDE DEF d
<1>4. Len(d) = n
  BY <1>1, <1>3
<1>5. ASSUME NEW i \in 1..Len(d) PROVE d[i] = c[i]
  <2>1. CASE i <= m
    <3>1. i \in 1..m /\ i \in 1..n /\ i \in 1..Len(a) + Len(b)
      BY <1>1, <1>4, <2>1
    <3> QED
      BY <1>1, <1>2, <1>3, <2>1, <3>1
  <2>2. CASE i > m
    <3>1. i - m \in 1..n - m /\ m + (i - m) = i /\ i \in 1..n /\ i \in 1..Len(a) + Len(b)
      BY <1>1, <1>4, <2>2
    <3>2. d[i] = b[i - m]
      BY <1>1, <1>3, <2>2, <3>1
    <3>3. b[i - m] = p[m + (i - m)]
      BY <1>1, <3>1
    <3> QED
      BY <1>2, <3>1, <3>2, <3>3
  <2> QED
    BY <1>4, <2>1, <2>2
<1>6. d = c
  BY <1>2, <1>3, <1>4, <1>5, SeqEqual, Zenon
<1> QED
  BY <1>6 DEF a, b, c, d

(* What is kept of the memory is the beginning of the new prompt. *)
LEMMA KeptIsBeginning ==
    ASSUME TypeOK, CacheDescribesMemory, pc = "prepare", CacheIdentityMatches,
           NEW n \in 0..Len(request.prompt), IsReusablePrefix(n)
    PROVE  /\ KeepTokens(n) \in 0..Len(request.prompt) - 1
           /\ SubSeq(memory, 1, KeepTokens(n)) =
                Entries(SubSeq(request.prompt, 1, KeepTokens(n)))
           /\ KeepTokens(n) <= Len(memory)
<1> DEFINE k == KeepTokens(n)
           p == request.prompt
<1>1. p \in Seq(Token) /\ Len(p) \in Nat \ {0} /\ request \in Request
  BY PromptIsSeq DEF TypeOK
<1>2. /\ cached \in Cache /\ memory \in Seq(Entry)
      /\ cached.session = request.session /\ cached.scope = request.scope
      /\ Len(cached.tokens) <= Len(memory)
      /\ \A i \in 1..Len(cached.tokens) :
           memory[i] = [token |-> cached.tokens[i], session |-> cached.session,
                        scope |-> cached.scope]
  BY DEF CacheIdentityMatches, CacheDescribesMemory, TypeOK
<1>3. cached.tokens \in Seq(Token) /\ Len(cached.tokens) \in Nat /\ Len(memory) \in Nat
  <2>1. cached.tokens \in Seq(Token)
    BY <1>2 DEF Cache
  <2> QED
    BY <1>2, <2>1, LenProperties
<1>4. k \in 0..Len(p) - 1 /\ k <= n
  BY <1>1 DEF KeepTokens
<1>5. n <= Len(cached.tokens) /\ \A i \in 1..n : cached.tokens[i] = p[i]
  BY DEF IsReusablePrefix
<1>6. k \in Nat /\ k <= Len(memory)
  BY <1>1, <1>2, <1>3, <1>4, <1>5
<1> HIDE DEF k, p
<1>7. /\ SubSeq(memory, 1, k) \in Seq(Entry) /\ Len(SubSeq(memory, 1, k)) = k
      /\ \A i \in 1..k : SubSeq(memory, 1, k)[i] = memory[i]
  <2>1. 1 \in Int /\ k \in Int /\ \A i \in 1..k : memory[i] \in Entry
    BY <1>2, <1>3, <1>6, ElementOfSeq
  <2>2. /\ SubSeq(memory, 1, k) \in Seq(Entry)
        /\ Len(SubSeq(memory, 1, k)) = IF 1 <= k THEN k - 1 + 1 ELSE 0
        /\ \A i \in 1..k - 1 + 1 : SubSeq(memory, 1, k)[i] = memory[1 + i - 1]
    BY <2>1, SubSeqProperties
  <2> QED
    BY <1>6, <2>2
<1>8. /\ SubSeq(p, 1, k) \in Seq(Token) /\ Len(SubSeq(p, 1, k)) = k
      /\ \A i \in 1..k : SubSeq(p, 1, k)[i] = p[i]
  BY <1>1, <1>4, <1>6, BeginningIsSeq
<1>9. /\ Entries(SubSeq(p, 1, k)) \in Seq(Entry) /\ Len(Entries(SubSeq(p, 1, k))) = k
      /\ \A i \in 1..k : Entries(SubSeq(p, 1, k))[i] =
           [token |-> SubSeq(p, 1, k)[i], session |-> request.session, scope |-> request.scope]
  <2> DEFINE b == SubSeq(p, 1, k)
  <2>1. request \in Request /\ b \in Seq(Token) /\ Len(b) = k
    BY <1>1, <1>8
  <2> HIDE DEF b
  <2>2. /\ EntriesOf(request, b) \in Seq(Entry) /\ Len(EntriesOf(request, b)) = Len(b)
        /\ \A i \in 1..Len(b) : EntriesOf(request, b)[i] =
             [token |-> b[i], session |-> request.session, scope |-> request.scope]
    BY <2>1, EntriesAreEntries
  <2> QED
    BY <2>1, <2>2, Zenon DEF b, Entries
<1>10. ASSUME NEW i \in 1..k PROVE SubSeq(memory, 1, k)[i] = Entries(SubSeq(p, 1, k))[i]
  <2>1. i \in 1..n /\ i \in 1..Len(cached.tokens)
    BY <1>3, <1>4, <1>5, <1>6
  <2>2. memory[i] = [token |-> p[i], session |-> request.session, scope |-> request.scope]
    BY <1>2, <1>5, <2>1
  <2>3. SubSeq(memory, 1, k)[i] = memory[i] /\ SubSeq(p, 1, k)[i] = p[i]
    BY <1>7, <1>8
  <2> QED
    BY <1>9, <2>2, <2>3, Zenon
<1>11. SubSeq(memory, 1, k) = Entries(SubSeq(p, 1, k))
  BY <1>7, <1>9, <1>10, SeqEqual
<1> QED
  BY <1>4, <1>6, <1>11 DEF k, p

(* llama_decode() appends the entries of its tokens, or some of them. *)
LEMMA Decoded ==
    ASSUME TypeOK, NEW tokens \in Seq(Token), Decode(tokens)
    PROVE  /\ memory' \in Seq(Entry) /\ logits' = memory'
           /\ Len(memory') = Len(memory) + Len(tokens)
<1>1. /\ request \in Request /\ memory \in Seq(Entry)
      /\ memory' = memory \o Entries(tokens) /\ logits' = memory'
  BY DEF TypeOK, Decode
<1>2. Entries(tokens) \in Seq(Entry) /\ Len(Entries(tokens)) = Len(tokens)
  BY <1>1, EntriesAreEntries DEF Entries
<1> DEFINE e == Entries(tokens)
<1> HIDE DEF e
<1>3. memory \o e \in Seq(Entry) /\ Len(memory \o e) = Len(memory) + Len(e)
  <2>1. e \in Seq(Entry)
    BY <1>2 DEF e
  <2> QED
    BY <1>1, <2>1, ConcatProperties
<1> QED
  BY <1>1, <1>2, <1>3 DEF e

LEMMA DecodeFailed ==
    ASSUME TypeOK, NEW tokens \in Seq(Token), DecodeFails(tokens)
    PROVE  /\ memory' \in Seq(Entry) /\ logits' = <<>> /\ pc' = "catch"
           /\ Len(memory') <= Len(memory) + Len(tokens)
<1>1. /\ request \in Request /\ memory \in Seq(Entry) /\ logits' = <<>> /\ pc' = "catch"
      /\ Len(tokens) \in Nat /\ Len(memory) \in Nat
  BY LenProperties DEF TypeOK, DecodeFails
<1>2. PICK n \in 0..Len(tokens) : memory' = memory \o Entries(SubSeq(tokens, 1, n))
  BY DEF DecodeFails
<1> DEFINE some == SubSeq(tokens, 1, n)
<1>3. some \in Seq(Token) /\ Len(some) = n
  <2>1. n \in Nat /\ n <= Len(tokens)
    BY <1>1
  <2> QED
    BY <2>1, BeginningIsSeq
<1> HIDE DEF some
<1>4. Entries(some) \in Seq(Entry) /\ Len(Entries(some)) = n
  BY <1>1, <1>3, EntriesAreEntries DEF Entries
<1>5. memory' = memory \o Entries(some)
  BY <1>2 DEF some
<1>6. memory' \in Seq(Entry) /\ Len(memory') = Len(memory) + n
  BY <1>1, <1>4, <1>5, ConcatProperties
<1> QED
  BY <1>1, <1>6

(* Prepare keeps the beginning of the prompt, and not all of it. *)
LEMMA Prepared ==
    ASSUME KvInv, Prepare
    PROVE  \E k \in 0..Len(request.prompt) - 1 :
             /\ memory' = Entries(SubSeq(request.prompt, 1, k)) /\ offset' = k
             /\ memory' \in Seq(Entry) /\ Len(memory') = k
<1> DEFINE p == request.prompt
           From(k) == Entries(SubSeq(p, 1, k))
<1>1. request \in Request /\ p \in Seq(Token) /\ Len(p) \in Nat \ {0}
  BY PromptIsSeq DEF KvInv, TypeOK
<1>2. ASSUME NEW k \in 0..Len(p) - 1
      PROVE  From(k) \in Seq(Entry) /\ Len(From(k)) = k
  <2>1. SubSeq(p, 1, k) \in Seq(Token) /\ Len(SubSeq(p, 1, k)) = k
    <3>1. k \in Nat /\ k <= Len(p)
      BY <1>1
    <3> QED
      BY <1>1, <3>1, BeginningIsSeq
  <2> QED
    BY <1>1, <2>1, EntriesAreEntries DEF Entries
<1>3. CASE memory' = <<>> /\ offset' = 0
  <2>1. From(0) \in Seq(Entry) /\ Len(From(0)) = 0
    BY <1>1, <1>2
  <2>2. From(0) = <<>>
    BY <2>1, EmptySeq
  <2> QED
    BY <1>1, <1>3, <2>1, <2>2
<1>4. CASE \E n \in 0..Len(p) :
             /\ CacheIdentityMatches /\ IsReusablePrefix(n)
             /\ memory' = SubSeq(memory, 1, KeepTokens(n)) /\ offset' = KeepTokens(n)
  <2>1. PICK n \in 0..Len(p) :
          /\ CacheIdentityMatches /\ IsReusablePrefix(n)
          /\ memory' = SubSeq(memory, 1, KeepTokens(n)) /\ offset' = KeepTokens(n)
    BY <1>4
  <2>2. KeepTokens(n) \in 0..Len(p) - 1 /\ memory' = From(KeepTokens(n))
    BY <2>1, KeptIsBeginning DEF KvInv, Prepare
  <2> QED
    BY <1>2, <2>1, <2>2
<1> QED
  BY <1>3, <1>4 DEF Prepare, Kept

(* The batch that is evaluated next. *)
LEMMA BatchFollows ==
    ASSUME KvInv, pc = "prefill", offset < Len(request.prompt)
    PROVE  /\ PrefillEnd \in Nat /\ offset < PrefillEnd /\ PrefillEnd <= Len(request.prompt)
           /\ PrefillBatch \in Seq(Token) /\ Len(PrefillBatch) = PrefillEnd - offset
           /\ memory \o Entries(PrefillBatch) = Entries(SubSeq(request.prompt, 1, PrefillEnd))
           /\ Len(memory) = offset
<1> DEFINE p == request.prompt
           m == offset
           n == PrefillEnd
<1>1. /\ request \in Request /\ p \in Seq(Token) /\ Len(p) \in Nat \ {0} /\ m \in Nat
      /\ memory = Entries(SubSeq(p, 1, m))
  BY PromptIsSeq DEF KvInv, TypeOK, PromptIsEvaluated
<1>2. n \in Nat /\ m < n /\ n <= Len(p)
  BY <1>1 DEF PrefillEnd
<1> HIDE DEF n
<1>3. /\ SubSeq(p, 1, m) \in Seq(Token) /\ SubSeq(p, m + 1, n) \in Seq(Token)
      /\ Len(SubSeq(p, 1, m)) = m /\ Len(SubSeq(p, m + 1, n)) = n - m
      /\ SubSeq(p, 1, m) \o SubSeq(p, m + 1, n) = SubSeq(p, 1, n)
  <2>1. m <= n
    BY <1>1, <1>2
  <2>2. SubSeq(p, 1, m) \o SubSeq(p, m + 1, n) = SubSeq(p, 1, n)
    BY <1>1, <1>2, <2>1, BeginningGrows, ZenonT(60)
  <2>3. /\ SubSeq(p, 1, m) \in Seq(Token) /\ SubSeq(p, m + 1, n) \in Seq(Token)
        /\ Len(SubSeq(p, 1, m)) = m /\ Len(SubSeq(p, m + 1, n)) = n - m
    BY <1>1, <1>2, <2>1, BeginningIsSeq, ZenonT(150)
  <2> QED
    BY <2>2, <2>3
<1>4. memory \o Entries(SubSeq(p, m + 1, n)) = Entries(SubSeq(p, 1, n))
  <2> DEFINE s == SubSeq(p, 1, m)
             t == SubSeq(p, m + 1, n)
  <2>1. s \in Seq(Token) /\ t \in Seq(Token) /\ s \o t = SubSeq(p, 1, n)
        /\ memory = EntriesOf(request, s)
    BY <1>1, <1>3 DEF Entries
  <2> HIDE DEF s, t
  <2>2. EntriesOf(request, s) \o EntriesOf(request, t) = EntriesOf(request, s \o t)
    BY <1>1, <2>1, EntriesConcat
  <2> QED
    BY <2>1, <2>2, Zenon DEF Entries, s, t
<1>5. Len(memory) = m
  BY <1>1, <1>3, EntriesAreEntries DEF Entries
<1> QED
  BY <1>2, <1>3, <1>4, <1>5 DEF n, PrefillBatch

(* The memory after a token that is sampled. *)
LEMMA TokenFollows ==
    ASSUME KvInv, pc = "sample", NEW token \in Token
    PROVE  /\ <<token>> \in Seq(Token) /\ Len(<<token>>) = 1
           /\ Append(output, token) \in Seq(Token)
           /\ Len(Append(output, token)) = Len(output) + 1
           /\ memory \o Entries(<<token>>) = Entries(request.prompt \o Append(output, token))
           /\ Len(memory) = Len(request.prompt) + Len(output)
<1> DEFINE p == request.prompt
           s == p \o output
           t == <<token>>
<1>1. /\ request \in Request /\ p \in Seq(Token) /\ output \in Seq(Token)
      /\ memory = EntriesOf(request, s)
  BY PromptIsSeq DEF KvInv, TypeOK, SampledFromPrompt, Entries
<1>2. /\ t \in Seq(Token) /\ Len(t) = 1 /\ Append(output, token) = output \o t
      /\ Append(output, token) \in Seq(Token) /\ Len(Append(output, token)) = Len(output) + 1
  BY <1>1
<1>3. s \in Seq(Token) /\ Len(s) = Len(p) + Len(output)
  BY <1>1, ConcatProperties
<1>4. s \o t = p \o Append(output, token)
  <2>1. \A x, y, z \in Seq(Token) : (x \o y) \o z = x \o (y \o z)
    BY ConcatAssociative, SMTT(30)
  <2> HIDE DEF p, t
  <2>2. p \in Seq(Token) /\ output \in Seq(Token) /\ t \in Seq(Token)
    BY <1>1, <1>2
  <2>3. (p \o output) \o t = p \o (output \o t)
    BY <2>1, <2>2, ZenonT(60)
  <2> QED
    BY <1>2, <2>3, Zenon
<1> HIDE DEF s, t
<1>5. EntriesOf(request, s) \o EntriesOf(request, t) = EntriesOf(request, s \o t)
  BY <1>1, <1>2, <1>3, EntriesConcat
<1>6. memory \o Entries(t) = Entries(p \o Append(output, token))
  BY <1>1, <1>4, <1>5, Zenon DEF Entries
<1>7. Len(memory) = Len(s)
  BY <1>1, <1>3, EntriesAreEntries
<1> QED
  BY <1>2, <1>3, <1>6, <1>7 DEF t

-----------------------------------------------------------------------------
(* Each action keeps the invariant.                                        *)

(* What is remembered stays true while a request begins. *)
LEMMA TranslateKeepsInv ==
    ASSUME NEW r \in Request, KvInv, Translate(r)
    PROVE  KvInv'
<1> USE DEF Translate, kvVars, modelVars
<1>1. memory' \in Seq(Entry) /\ logits' \in Seq(Entry)
  BY DEF KvInv, TypeOK
<1>2. cached' \in Cache \cup {NothingCached}
  BY DEF KvInv, TypeOK
<1>3. TypeOK'
  BY <1>1, <1>2, EmptySeq DEF KvInv, TypeOK
<1>4. FallbackIsCounted'
  BY DEF KvInv, FallbackIsCounted, TypeOK
<1>5. PromptIsEvaluated'
  BY DEF KvInv, PromptIsEvaluated, Entries, Fits
<1>6. SampledFromPrompt'
  BY DEF KvInv, SampledFromPrompt, Entries
<1>7. CacheDescribesMemory'
  BY DEF KvInv, CacheDescribesMemory
<1>8. InsideContext' /\ OutputIsBounded'
  BY DEF KvInv, InsideContext, OutputIsBounded
<1> QED
  BY <1>3, <1>4, <1>5, <1>6, <1>7, <1>8 DEF KvInv

(* Nothing is touched. *)
LEMMA RefuseKeepsInv ==
    ASSUME KvInv, Refuse
    PROVE  KvInv'
<1> USE DEF Refuse, kvVars, modelVars
<1>1. memory' \in Seq(Entry) /\ logits' \in Seq(Entry)
  BY DEF KvInv, TypeOK
<1>2. cached' \in Cache \cup {NothingCached}
  BY DEF KvInv, TypeOK
<1>3. TypeOK'
  BY <1>1, <1>2 DEF KvInv, TypeOK
<1>4. FallbackIsCounted'
  BY DEF KvInv, FallbackIsCounted, TypeOK
<1>5. PromptIsEvaluated'
  BY DEF KvInv, PromptIsEvaluated, Entries, Fits
<1>6. SampledFromPrompt'
  BY DEF KvInv, SampledFromPrompt, Entries
<1>7. CacheDescribesMemory'
  BY DEF KvInv, CacheDescribesMemory
<1>8. InsideContext' /\ OutputIsBounded'
  BY DEF KvInv, InsideContext, OutputIsBounded
<1> QED
  BY <1>3, <1>4, <1>5, <1>6, <1>7, <1>8 DEF KvInv

(* Nothing is touched. *)
LEMMA DieKeepsInv ==
    ASSUME KvInv, Die
    PROVE  KvInv'
<1> USE DEF Die, kvVars, modelVars
<1>1. memory' \in Seq(Entry) /\ logits' \in Seq(Entry)
  BY DEF KvInv, TypeOK
<1>2. cached' \in Cache \cup {NothingCached}
  BY DEF KvInv, TypeOK
<1>3. TypeOK'
  BY <1>1, <1>2 DEF KvInv, TypeOK
<1>4. FallbackIsCounted'
  BY DEF KvInv, FallbackIsCounted, TypeOK
<1>5. PromptIsEvaluated'
  BY DEF KvInv, PromptIsEvaluated, Entries, Fits
<1>6. SampledFromPrompt'
  BY DEF KvInv, SampledFromPrompt, Entries
<1>7. CacheDescribesMemory'
  BY DEF KvInv, CacheDescribesMemory
<1>8. InsideContext' /\ OutputIsBounded'
  BY DEF KvInv, InsideContext, OutputIsBounded
<1> QED
  BY <1>3, <1>4, <1>5, <1>6, <1>7, <1>8 DEF KvInv

(* The memory holds the prompt, and the logits are of it. *)
LEMMA PrefilledKeepsInv ==
    ASSUME KvInv, Prefilled
    PROVE  KvInv'
<1> USE DEF Prefilled, kvVars, modelVars
<1>1. memory' \in Seq(Entry) /\ logits' \in Seq(Entry)
  BY DEF KvInv, TypeOK
<1>2. cached' \in Cache \cup {NothingCached}
  BY DEF KvInv, TypeOK
<1>3. TypeOK'
  BY <1>1, <1>2 DEF KvInv, TypeOK
<1>4. FallbackIsCounted'
  BY DEF KvInv, FallbackIsCounted, TypeOK
<1>5. PromptIsEvaluated'
  BY DEF KvInv, PromptIsEvaluated, Entries, Fits
<1>6. SampledFromPrompt'
  <2>1. request.prompt \o output = request.prompt
    BY PromptIsSeq, ConcatEmptySeq DEF KvInv, TypeOK, PromptIsEvaluated
  <2> QED
    BY <2>1 DEF KvInv, SampledFromPrompt, PromptIsEvaluated, Entries
<1>7. CacheDescribesMemory'
  BY DEF KvInv, CacheDescribesMemory
<1>8. InsideContext' /\ OutputIsBounded'
  BY DEF KvInv, InsideContext, OutputIsBounded
<1> QED
  BY <1>3, <1>4, <1>5, <1>6, <1>7, <1>8 DEF KvInv

(* Nothing is touched. *)
LEMMA StopSamplingKeepsInv ==
    ASSUME KvInv, StopSampling
    PROVE  KvInv'
<1> USE DEF StopSampling, Throw, modelVars
<1>1. memory' \in Seq(Entry) /\ logits' \in Seq(Entry)
  BY DEF KvInv, TypeOK
<1>2. cached' \in Cache \cup {NothingCached}
  BY DEF KvInv, TypeOK
<1>3. TypeOK'
  BY <1>1, <1>2 DEF KvInv, TypeOK
<1>4. FallbackIsCounted'
  BY DEF KvInv, FallbackIsCounted, TypeOK
<1>5. PromptIsEvaluated'
  BY DEF KvInv, PromptIsEvaluated, Entries, Fits
<1>6. SampledFromPrompt'
  BY DEF KvInv, SampledFromPrompt, Entries
<1>7. CacheDescribesMemory'
  BY DEF KvInv, CacheDescribesMemory
<1>8. InsideContext' /\ OutputIsBounded'
  BY DEF KvInv, InsideContext, OutputIsBounded
<1> QED
  BY <1>3, <1>4, <1>5, <1>6, <1>7, <1>8 DEF KvInv

(* The memory that is remembered begins with the prompt. *)
LEMMA FinishKeepsInv ==
    ASSUME KvInv, Finish
    PROVE  KvInv'
<1> USE DEF Finish, modelVars
<1>1. memory' \in Seq(Entry) /\ logits' \in Seq(Entry)
  BY DEF KvInv, TypeOK
<1>2. cached' \in Cache \cup {NothingCached}
  <2>1. PosMax(memory) \in Int /\ (PosMax(memory) >= 0) \in BOOLEAN
    BY LenProperties DEF KvInv, TypeOK, PosMax
  <2>2. request.prompt \in Prompts /\ request.session \in Sessions /\ request.scope \in Scopes
    BY DEF KvInv, TypeOK, Request
  <2>3. [valid |-> PosMax(memory) >= 0, tokens |-> request.prompt,
         session |-> request.session, scope |-> request.scope,
         positionMax |-> PosMax(memory)] \in Cache
    BY <2>1, <2>2 DEF Cache
  <2> QED
    BY <2>3 DEF KvInv, TypeOK
<1>3. TypeOK'
  BY <1>1, <1>2 DEF KvInv, TypeOK
<1>4. FallbackIsCounted'
  BY DEF KvInv, FallbackIsCounted, TypeOK
<1>5. PromptIsEvaluated'
  BY DEF KvInv, PromptIsEvaluated, Entries, Fits
<1>6. SampledFromPrompt'
  BY DEF KvInv, SampledFromPrompt, Entries
<1>7. CacheDescribesMemory'
  <2> SUFFICES ASSUME cached'.valid, request.allowPrefixCache
               PROVE  /\ cached' \in Cache
                      /\ Len(request.prompt) <= Len(memory)
                      /\ \A i \in 1..Len(request.prompt) :
                           memory[i] = [token |-> request.prompt[i],
                                        session |-> request.session, scope |-> request.scope]
    <3>1. CASE request.allowPrefixCache
      BY <3>1 DEF CacheDescribesMemory
    <3>2. CASE ~request.allowPrefixCache
      BY <3>2 DEF KvInv, PromptIsEvaluated, CacheDescribesMemory, NothingCached
    <3> QED
      BY <3>1, <3>2
  <2> DEFINE p == request.prompt
             s == p \o output
  <2>1. p \in Seq(Token) /\ output \in Seq(Token) /\ Len(p) \in Nat /\ Len(output) \in Nat
    BY PromptIsSeq, LenProperties DEF KvInv, TypeOK
  <2>2. /\ s \in Seq(Token) /\ Len(s) = Len(p) + Len(output)
        /\ \A i \in 1..Len(p) : s[i] = p[i]
    BY <2>1, ConcatProperties
  <2>3. memory = EntriesOf(request, s) /\ request \in Request
    BY DEF KvInv, SampledFromPrompt, Entries, TypeOK
  <2> HIDE DEF s
  <2>4. /\ Len(memory) = Len(s)
        /\ \A i \in 1..Len(s) : memory[i] =
             [token |-> s[i], session |-> request.session, scope |-> request.scope]
    BY <2>2, <2>3, EntriesAreEntries
  <2>5. cached' \in Cache
    BY <1>2 DEF NothingCached
  <2> QED
    BY <2>1, <2>2, <2>4, <2>5
<1>8. InsideContext' /\ OutputIsBounded'
  BY DEF KvInv, InsideContext, OutputIsBounded
<1> QED
  BY <1>3, <1>4, <1>5, <1>6, <1>7, <1>8 DEF KvInv

(* The memory is cleared and nothing remembered. *)
LEMMA GiveUpKeepsInv ==
    ASSUME KvInv, GiveUp
    PROVE  KvInv'
<1> USE DEF GiveUp, modelVars
<1>1. memory' \in Seq(Entry) /\ logits' \in Seq(Entry)
  BY DEF KvInv, TypeOK
<1>2. cached' \in Cache \cup {NothingCached}
  BY DEF KvInv, TypeOK
<1>3. TypeOK'
  BY <1>1, <1>2 DEF KvInv, TypeOK
<1>4. FallbackIsCounted'
  BY DEF KvInv, FallbackIsCounted, TypeOK
<1>5. PromptIsEvaluated'
  BY DEF KvInv, PromptIsEvaluated, Entries, Fits
<1>6. SampledFromPrompt'
  BY DEF KvInv, SampledFromPrompt, Entries
<1>7. CacheDescribesMemory'
  BY DEF CacheDescribesMemory, NothingCached
<1>8. InsideContext' /\ OutputIsBounded'
  BY DEF KvInv, InsideContext, OutputIsBounded
<1> QED
  BY <1>3, <1>4, <1>5, <1>6, <1>7, <1>8 DEF KvInv

(* A new context has an empty memory; it is done once. *)
LEMMA FallBackToCpuKeepsInv ==
    ASSUME KvInv, FallBackToCpu
    PROVE  KvInv'
<1> USE DEF FallBackToCpu, NothingCached
<1>0. output' \in {output, <<>>}
  OBVIOUS
<1>1. memory' \in Seq(Entry) /\ logits' \in Seq(Entry)
  BY DEF KvInv, TypeOK
<1>2. cached' \in Cache \cup {NothingCached}
  BY DEF KvInv, TypeOK
<1>3. TypeOK'
  <2>1. output' \in Seq(Token)
    BY EmptySeq DEF KvInv, TypeOK
  <2>2. fallbackCount' \in Nat
    <3>1. fallbackCount \in Nat
      BY DEF KvInv, TypeOK
    <3>2. fallbackCount' = fallbackCount \/ fallbackCount' = fallbackCount + 1
      OBVIOUS
    <3> HIDE DEF FallBackToCpu
    <3> QED
      BY <3>1, <3>2
  <2>3. attempt' \in {1, 2} /\ opencl' \in BOOLEAN
    BY DEF KvInv, TypeOK
  <2>4. /\ device' \in {"opencl", "cpu", "none", "noContext"} /\ preferOpenCL' \in BOOLEAN
        /\ activeBackend' \in {"OpenCL", "CPU", "CPU_inference_failed", "CPU_unavailable"}
        /\ pc' \in {"idle", "prepare", "prefill", "sample", "catch", "dead"}
        /\ request' \in Request /\ offset' \in Nat /\ cancelled' \in BOOLEAN
        /\ returned' \in {"waiting", "delivered", "failed"}
    BY DEF KvInv, TypeOK
  <2> QED
    BY <1>1, <1>2, <2>1, <2>2, <2>3, <2>4 DEF TypeOK, Request
<1>4. FallbackIsCounted'
  <2>1. preferOpenCL /\ fallbackCount = 0 /\ preferOpenCL' = preferOpenCL
    BY DEF KvInv, FallbackIsCounted
  <2>2. CASE device' = "cpu" /\ opencl' = FALSE /\ fallbackCount' = fallbackCount + 1
    BY <2>1, <2>2 DEF FallbackIsCounted
  <2>3. CASE device' \in {"none", "noContext"} /\ opencl' = opencl /\ fallbackCount' = fallbackCount
    BY <2>1, <2>3 DEF FallbackIsCounted
  <2> QED
    BY <2>2, <2>3
<1>5. PromptIsEvaluated'
  BY DEF KvInv, PromptIsEvaluated, Entries, Fits
<1>6. SampledFromPrompt'
  BY DEF KvInv, SampledFromPrompt, Entries
<1>7. CacheDescribesMemory'
  BY DEF CacheDescribesMemory
<1>8. InsideContext' /\ OutputIsBounded'
  <2>1. InsideContext'
    BY EmptySeq DEF InsideContext
  <2>2. CASE output' = output
    BY <2>1, <2>2 DEF KvInv, OutputIsBounded
  <2>3. CASE output' = <<>>
    BY <2>1, <2>3, EmptySeq DEF OutputIsBounded
  <2> QED
    BY <1>0, <2>1, <2>2, <2>3
<1> QED
  BY <1>3, <1>4, <1>5, <1>6, <1>7, <1>8 DEF KvInv

(* Only the flag changes. *)
LEMMA CancelKeepsInv ==
    ASSUME KvInv, Cancel
    PROVE  KvInv'
<1> USE DEF Cancel, kvVars, modelVars
<1>1. memory' \in Seq(Entry) /\ logits' \in Seq(Entry)
  BY DEF KvInv, TypeOK
<1>2. cached' \in Cache \cup {NothingCached}
  BY DEF KvInv, TypeOK
<1>3. TypeOK'
  BY <1>1, <1>2 DEF KvInv, TypeOK
<1>4. FallbackIsCounted'
  BY DEF KvInv, FallbackIsCounted, TypeOK
<1>5. PromptIsEvaluated'
  BY DEF KvInv, PromptIsEvaluated, Entries, Fits
<1>6. SampledFromPrompt'
  BY DEF KvInv, SampledFromPrompt, Entries
<1>7. CacheDescribesMemory'
  BY DEF KvInv, CacheDescribesMemory
<1>8. InsideContext' /\ OutputIsBounded'
  BY DEF KvInv, InsideContext, OutputIsBounded
<1> QED
  BY <1>3, <1>4, <1>5, <1>6, <1>7, <1>8 DEF KvInv

(* What is kept of the memory is the beginning of the new prompt. *)
LEMMA PrepareKeepsInv ==
    ASSUME KvInv, Prepare
    PROVE  KvInv'
<1> DEFINE p == request.prompt
<1>1. PICK k \in 0..Len(p) - 1 :
        /\ memory' = Entries(SubSeq(p, 1, k)) /\ offset' = k
        /\ memory' \in Seq(Entry) /\ Len(memory') = k
  BY Prepared
<1>2. Len(p) \in Nat \ {0} /\ Len(p) + MaxOutput <= ContextSize
  BY PromptIsSeq DEF KvInv, TypeOK, Prepare, Fits
<1>3. /\ pc' = "prefill" /\ cached' = NothingCached
      /\ UNCHANGED <<logits, modelVars, request, attempt, output, returned, cancelled>>
  BY DEF Prepare
<1>4. TypeOK'
  BY <1>1, <1>2, <1>3 DEF KvInv, TypeOK, modelVars
<1>5. FallbackIsCounted'
  BY <1>3 DEF KvInv, FallbackIsCounted, modelVars
<1>6. PromptIsEvaluated'
  BY <1>1, <1>2, <1>3 DEF KvInv, PromptIsEvaluated, Prepare, Fits, Entries
<1>7. SampledFromPrompt' /\ CacheDescribesMemory'
  BY <1>3 DEF SampledFromPrompt, CacheDescribesMemory
<1>8. InsideContext' /\ OutputIsBounded'
  BY <1>1, <1>2, <1>3 DEF KvInv, InsideContext, OutputIsBounded
<1> QED
  BY <1>4, <1>5, <1>6, <1>7, <1>8 DEF KvInv

(* An error leaves a memory of which nothing is relied upon. *)
LEMMA ErrorKeepsInv ==
    ASSUME KvInv, pc' = "catch", memory' \in Seq(Entry), logits' \in Seq(Entry),
           Len(memory') <= ContextSize, output' \in Seq(Token), Len(output') <= MaxOutput,
           UNCHANGED <<cached, modelVars, request, attempt, offset, returned, cancelled>>
    PROVE  KvInv'
<1>1. TypeOK'
  BY DEF KvInv, TypeOK, modelVars
<1>2. FallbackIsCounted'
  BY DEF KvInv, FallbackIsCounted, modelVars
<1>3. PromptIsEvaluated' /\ SampledFromPrompt' /\ CacheDescribesMemory'
  BY DEF PromptIsEvaluated, SampledFromPrompt, CacheDescribesMemory
<1>4. InsideContext' /\ OutputIsBounded'
  BY DEF InsideContext, OutputIsBounded
<1> QED
  BY <1>1, <1>2, <1>3, <1>4 DEF KvInv

(* A batch goes on where the memory ends. *)
LEMMA PrefillKeepsInv ==
    ASSUME KvInv, Prefill
    PROVE  KvInv'
<1> DEFINE p == request.prompt
<1>1. /\ pc = "prefill" /\ offset < Len(p)
      /\ UNCHANGED <<cached, modelVars, request, attempt, output, returned, cancelled>>
  BY DEF Prefill
<1>2. /\ PrefillEnd \in Nat /\ offset < PrefillEnd /\ PrefillEnd <= Len(p)
      /\ PrefillBatch \in Seq(Token) /\ Len(PrefillBatch) = PrefillEnd - offset
      /\ memory \o Entries(PrefillBatch) = Entries(SubSeq(p, 1, PrefillEnd))
      /\ Len(memory) = offset
  BY <1>1, BatchFollows
<1>3. /\ Len(p) \in Nat \ {0} /\ Len(p) + MaxOutput <= ContextSize /\ offset \in Nat
      /\ p \in Seq(Token)
  BY <1>1, PromptIsSeq DEF KvInv, TypeOK, PromptIsEvaluated, Fits
<1>4. TypeOK /\ Len(output) <= MaxOutput /\ output \in Seq(Token)
  BY DEF KvInv, OutputIsBounded, TypeOK
<1>5. CASE Throw /\ UNCHANGED offset
  BY <1>1, <1>4, <1>5, ErrorKeepsInv DEF Throw, KvInv, TypeOK, InsideContext
<1>6. CASE DecodeFails(PrefillBatch) /\ UNCHANGED offset
  <2>1. /\ memory' \in Seq(Entry) /\ logits' = <<>> /\ pc' = "catch"
        /\ Len(memory') <= Len(memory) + Len(PrefillBatch)
    BY <1>2, <1>4, <1>6, DecodeFailed
  <2>2. Len(memory') <= ContextSize /\ logits' \in Seq(Entry)
    BY <1>2, <1>3, <2>1, LenProperties, EmptySeq
  <2> QED
    BY <1>1, <1>4, <1>6, <2>1, <2>2, ErrorKeepsInv
<1>7. CASE Decode(PrefillBatch) /\ offset' = offset + Batch /\ UNCHANGED pc
  <2>1. /\ memory' \in Seq(Entry) /\ logits' = memory'
        /\ Len(memory') = Len(memory) + Len(PrefillBatch)
        /\ memory' = Entries(SubSeq(p, 1, PrefillEnd))
    BY <1>2, <1>4, <1>7, Decoded DEF Decode
  <2>2. TypeOK'
    BY <1>1, <1>3, <1>7, <2>1 DEF KvInv, TypeOK, modelVars
  <2>3. FallbackIsCounted'
    BY <1>1 DEF KvInv, FallbackIsCounted, modelVars
  <2>4. CASE offset + Batch < Len(p)
    <3>1. PrefillEnd = offset'
      BY <1>3, <1>7, <2>4 DEF PrefillEnd
    <3> QED
      BY <1>1, <1>2, <1>3, <1>7, <2>1, <2>2, <2>3, <2>4, <3>1
      DEF KvInv, PromptIsEvaluated, SampledFromPrompt, CacheDescribesMemory, InsideContext,
          OutputIsBounded, Entries, Fits
  <2>5. CASE offset + Batch >= Len(p)
    <3>1. PrefillEnd = Len(p)
      BY <1>3, <2>5 DEF PrefillEnd
    <3>2. SubSeq(p, 1, PrefillEnd) = p
      BY <1>3, <3>1, SubSeqFull
    <3>3. memory' = Entries(p) /\ offset' >= Len(p)
      BY <1>7, <2>1, <2>5, <3>2
    <3> QED
      BY <1>1, <1>2, <1>3, <1>7, <2>1, <2>2, <2>3, <3>1, <3>3
      DEF KvInv, PromptIsEvaluated, SampledFromPrompt, CacheDescribesMemory, InsideContext,
          OutputIsBounded, Entries, Fits
  <2> QED
    BY <1>3, <2>4, <2>5
<1> QED
  BY <1>5, <1>6, <1>7 DEF Prefill

(* A token is sampled from the logits of prompt and output. *)
LEMMA SampleKeepsInv ==
    ASSUME KvInv, NEW token \in Token, Sample(token)
    PROVE  KvInv'
<1> DEFINE p == request.prompt
<1>1. /\ pc = "sample" /\ Len(output) < MaxOutput /\ output' = Append(output, token)
      /\ UNCHANGED <<cached, modelVars, request, attempt, offset, returned, cancelled>>
  BY DEF Sample
<1>2. /\ <<token>> \in Seq(Token) /\ Len(<<token>>) = 1
      /\ output' \in Seq(Token) /\ Len(output') = Len(output) + 1
      /\ memory \o Entries(<<token>>) = Entries(p \o output')
      /\ Len(memory) = Len(p) + Len(output)
  BY <1>1, TokenFollows
<1>3. /\ Len(p) \in Nat \ {0} /\ Len(p) + MaxOutput <= ContextSize /\ Len(output) \in Nat
  BY <1>1, PromptIsSeq, LenProperties DEF KvInv, TypeOK, PromptIsEvaluated, Fits
<1>4. TypeOK /\ Len(output') <= MaxOutput
  BY <1>1, <1>2, <1>3 DEF KvInv
<1>5. CASE Throw
  BY <1>1, <1>2, <1>4, <1>5, ErrorKeepsInv DEF Throw, KvInv, TypeOK, InsideContext
<1>6. CASE DecodeFails(<<token>>)
  <2>1. /\ memory' \in Seq(Entry) /\ logits' = <<>> /\ pc' = "catch"
        /\ Len(memory') <= Len(memory) + 1
    BY <1>2, <1>4, <1>6, DecodeFailed
  <2>2. Len(memory') <= ContextSize /\ logits' \in Seq(Entry)
    BY <1>1, <1>2, <1>3, <2>1, LenProperties, EmptySeq
  <2> QED
    BY <1>1, <1>2, <1>4, <2>1, <2>2, ErrorKeepsInv
<1>7. CASE Decode(<<token>>) /\ UNCHANGED pc
  <2>1. /\ memory' \in Seq(Entry) /\ logits' = memory'
        /\ Len(memory') = Len(memory) + 1
        /\ memory' = Entries(p \o output')
    BY <1>2, <1>4, <1>7, Decoded DEF Decode
  <2>2. TypeOK'
    BY <1>1, <1>2, <1>7, <2>1 DEF KvInv, TypeOK, modelVars
  <2>3. FallbackIsCounted'
    BY <1>1 DEF KvInv, FallbackIsCounted, modelVars
  <2>4. PromptIsEvaluated'
    BY <1>1, <1>7 DEF KvInv, PromptIsEvaluated, Fits
  <2>5. SampledFromPrompt' /\ CacheDescribesMemory'
    BY <1>1, <1>7, <2>1 DEF SampledFromPrompt, CacheDescribesMemory, Entries
  <2>6. InsideContext' /\ OutputIsBounded'
    BY <1>1, <1>2, <1>3, <1>4, <2>1 DEF InsideContext, OutputIsBounded
  <2> QED
    BY <2>2, <2>3, <2>4, <2>5, <2>6 DEF KvInv
<1> QED
  BY <1>5, <1>6, <1>7 DEF Sample

-----------------------------------------------------------------------------
(* The invariant of the specification.                                     *)

(* A new translator has evaluated nothing. *)
LEMMA InitEstablishesInv == Init => KvInv
<1> SUFFICES ASSUME Init PROVE KvInv
  OBVIOUS
<1>1. TypeOK
  <2>1. memory \in Seq(Entry) /\ logits \in Seq(Entry) /\ output \in Seq(Token)
    BY EmptySeq DEF Init
  <2>2. /\ device \in {"opencl", "cpu", "none", "noContext"}
        /\ activeBackend \in {"OpenCL", "CPU", "CPU_inference_failed", "CPU_unavailable"}
        /\ fallbackCount \in {0, 1}
    BY DEF Init, Construct
  <2>3. preferOpenCL \in BOOLEAN
    BY Zenon DEF Init, Construct
  <2>4. opencl \in BOOLEAN
    <3>1. opencl = (device = "opencl")
      BY DEF Init
    <3> QED
      BY <3>1, Zenon
  <2>5. cancelled \in BOOLEAN /\ cached \in Cache \cup {NothingCached} /\ request \in Request
    BY Zenon DEF Init
  <2>6. /\ fallbackCount \in Nat /\ attempt \in {1, 2} /\ offset \in Nat
        /\ pc \in {"idle", "prepare", "prefill", "sample", "catch", "dead"}
        /\ returned \in {"waiting", "delivered", "failed"}
    BY <2>2 DEF Init
  <2> QED
    BY <2>1, <2>2, <2>3, <2>4, <2>5, <2>6, Zenon DEF TypeOK
<1>2. FallbackIsCounted
  BY DEF Init, Construct, FallbackIsCounted
<1>3. PromptIsEvaluated /\ SampledFromPrompt /\ CacheDescribesMemory
  BY DEF Init, PromptIsEvaluated, SampledFromPrompt, CacheDescribesMemory, NothingCached
<1>4. InsideContext /\ OutputIsBounded
  BY EmptySeq DEF Init, InsideContext, OutputIsBounded
<1> QED
  BY <1>1, <1>2, <1>3, <1>4 DEF KvInv

(* A step that changes nothing. *)
LEMMA StutterKeepsInv ==
    ASSUME KvInv, UNCHANGED vars
    PROVE  KvInv'
<1> USE DEF vars, kvVars, modelVars
<1>1. TypeOK' /\ FallbackIsCounted'
  BY DEF KvInv, TypeOK, FallbackIsCounted
<1>2. PromptIsEvaluated' /\ SampledFromPrompt'
  BY DEF KvInv, PromptIsEvaluated, SampledFromPrompt, Entries, Fits
<1>3. CacheDescribesMemory'
  BY DEF KvInv, CacheDescribesMemory
<1>4. InsideContext' /\ OutputIsBounded'
  BY DEF KvInv, InsideContext, OutputIsBounded
<1> QED
  BY <1>1, <1>2, <1>3, <1>4 DEF KvInv

(* Every step of the specification. *)
LEMMA NextKeepsInv == KvInv /\ [Next]_vars => KvInv'
<1> SUFFICES ASSUME KvInv, [Next]_vars PROVE KvInv'
  OBVIOUS
<1>1. CASE UNCHANGED vars
  BY <1>1, StutterKeepsInv
<1>2. CASE Next
  BY <1>2, TranslateKeepsInv, RefuseKeepsInv, DieKeepsInv, PrepareKeepsInv, PrefillKeepsInv,
     PrefilledKeepsInv, SampleKeepsInv, StopSamplingKeepsInv, FinishKeepsInv, GiveUpKeepsInv,
     FallBackToCpuKeepsInv, CancelKeepsInv
  DEF Next, Running
<1> QED
  BY <1>1, <1>2

(***************************************************************************)
(* What the KV cache remembers is true of the memory, for all prompts,     *)
(* batch sizes and context sizes (cacheIdentityMatches and keepTokens of   *)
(* HyMt::run).                                                             *)
(***************************************************************************)
THEOREM KvInvariant == Spec => []KvInv
<1>1. Init => KvInv
  BY InitEstablishesInv
<1>2. KvInv /\ [Next]_vars => KvInv'
  BY NextKeepsInv
<1> QED
  BY <1>1, <1>2, PTL DEF Spec

-----------------------------------------------------------------------------
(* The refinement, action by action.                                       *)

(* A request begins. *)
LEMMA TranslateIsBegin ==
    ASSUME NEW r \in Request, KvInv, Translate(r)
    PROVE  Promise!Begin(r)
<1>1. Phase # "busy" /\ Phase' = "busy"
  BY DEF Translate, Phase, KvInv, TypeOK
<1>2. request' = r /\ output' = <<>> /\ attempt' = 1 /\ cancelled' = FALSE
  BY DEF Translate
<1> QED
  BY <1>1, <1>2 DEF Promise!Begin

(* A token is one that may follow the prompt and the output. *)
LEMMA SampleIsEmit ==
    ASSUME KvInv, NEW token \in Token, Sample(token)
    PROVE  Promise!Emit(token)
<1>1. logits = Entries(request.prompt \o output)
  BY DEF KvInv, SampledFromPrompt, Sample
<1>2. token \in Continuations(request, output)
  BY <1>1 DEF Continuations, Entries, Sample
<1>3. Phase = "busy" /\ Phase' = "busy"
  BY DEF Phase, Sample, Throw, Decode, DecodeFails, KvInv, TypeOK
<1>4. /\ ~cancelled /\ Len(output) < MaxOutput /\ output' = Append(output, token)
      /\ UNCHANGED <<request, cancelled, attempt>>
  BY DEF Sample
<1> QED
  BY <1>2, <1>3, <1>4 DEF Promise!Emit

(* A text is delivered where it may end. *)
LEMMA FinishIsDeliver ==
    ASSUME KvInv, Finish
    PROVE  Promise!Deliver
<1>1. logits = Entries(request.prompt \o output)
  BY DEF KvInv, SampledFromPrompt, Finish
<1>2. EndOfText \in Continuations(request, output)
  BY <1>1 DEF Continuations, Entries, Finish
<1>3. Phase = "busy" /\ Phase' = "delivered"
  BY DEF Phase, Finish
<1>4. ~cancelled /\ Len(output) < MaxOutput /\ UNCHANGED <<request, output, cancelled, attempt>>
  BY DEF Finish
<1> QED
  BY <1>2, <1>3, <1>4 DEF Promise!Deliver

(* The retry on the CPU starts over, and a retry that cannot be is a       *)
(* failure.                                                                *)
LEMMA FallBackIsStartOver ==
    ASSUME KvInv, FallBackToCpu
    PROVE  Promise!StartOver \/ Promise!Fail
<1>1. Phase = "busy" /\ ~cancelled /\ attempt = 1 /\ UNCHANGED <<request, cancelled>>
  BY DEF Phase, FallBackToCpu
<1>2. CASE attempt' = 2 /\ output' = <<>> /\ pc' = "prepare"
  <2>1. Phase' = "busy"
    BY <1>2 DEF Phase
  <2> QED
    BY <1>1, <1>2, <2>1 DEF Promise!StartOver
<1>3. CASE pc' = "idle" /\ returned' = "failed" /\ UNCHANGED <<attempt, output>>
  <2>1. Phase' = "failed"
    BY <1>3 DEF Phase
  <2> QED
    BY <1>1, <1>3, <2>1 DEF Promise!Fail
<1> QED
  BY <1>2, <1>3 DEF FallBackToCpu

(* A request that gives up, or finds no model, fails. *)
LEMMA GiveUpIsFail ==
    ASSUME KvInv, GiveUp \/ Die
    PROVE  Promise!Fail
<1>1. Phase = "busy" /\ Phase' = "failed"
  BY DEF Phase, GiveUp, Die
<1>2. UNCHANGED <<request, output, attempt, cancelled>>
  BY DEF GiveUp, Die
<1> QED
  BY <1>1, <1>2 DEF Promise!Fail

(* The other steps cannot be seen. *)
LEMMA HiddenSteps ==
    ASSUME KvInv, Refuse \/ Prepare \/ Prefill \/ Prefilled \/ StopSampling
    PROVE  UNCHANGED Promise!vars
<1>1. Phase = "busy" /\ Phase' = "busy"
  BY DEF Phase, Refuse, Prepare, Prefill, Prefilled, StopSampling, Throw, Decode, DecodeFails
<1>2. UNCHANGED <<request, output, attempt, cancelled>>
  BY DEF Refuse, Prepare, Prefill, Prefilled, StopSampling
<1> QED
  BY <1>1, <1>2 DEF Promise!vars

(* Whoever cancels changes the flag and nothing else. *)
LEMMA CancelIsCancel ==
    ASSUME KvInv, Cancel
    PROVE  Promise!Cancel
<1>1. UNCHANGED Phase
  BY DEF Phase, Cancel
<1> QED
  BY <1>1 DEF Promise!Cancel, Cancel

(***************************************************************************)
(* HyMt implements the translator without memory: a step of a request is a *)
(* step of Translation or cannot be seen, so no translation depends on     *)
(* what the KV cache kept, on the retry or on an earlier request.  (That   *)
(* every request ends is left to the model checker.)                       *)
(***************************************************************************)
THEOREM HyMtImplementsTranslation == Spec => ImplementsTranslation
<1>1. Init => Promise!Init
  BY DEF Init, Promise!Init, Phase
<1>2. KvInv /\ [Next]_vars => [Promise!Next]_(Promise!vars)
  <2> SUFFICES ASSUME KvInv, [Next]_vars PROVE [Promise!Next]_(Promise!vars)
    OBVIOUS
  <2>1. CASE UNCHANGED vars
    BY <2>1 DEF vars, Promise!vars, Phase
  <2>2. CASE \E r \in Request : Translate(r)
    BY <2>2, TranslateIsBegin DEF Promise!Next
  <2>3. CASE \E token \in Token : Sample(token)
    BY <2>3, SampleIsEmit DEF Promise!Next
  <2>4. CASE Finish \/ FallBackToCpu \/ GiveUp \/ Die
    BY <2>4, FinishIsDeliver, FallBackIsStartOver, GiveUpIsFail DEF Promise!Next
  <2>5. CASE Refuse \/ Prepare \/ Prefill \/ Prefilled \/ StopSampling
    BY <2>5, HiddenSteps
  <2>6. CASE Cancel
    BY <2>6, CancelIsCancel DEF Promise!Next
  <2> QED
    BY <2>1, <2>2, <2>3, <2>4, <2>5, <2>6 DEF Next, Running
<1> QED
  BY <1>1, <1>2, KvInvariant, PTL DEF Spec, ImplementsTranslation, Promise!Safety
=============================================================================
